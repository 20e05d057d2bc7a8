------------------------ MODULE AgentLifecycleProofs ------------------------
(***************************************************************************)
(* Proofs about the loop and the process around it, for any limits of the  *)
(* policy, any number of directions, of kinds of event and of failures.    *)
(* LoopInd is the inductive invariant of the loop under any Post and any    *)
(* StopLoop; ProcessInd adds what main() and the coordinator keep of it.    *)
(***************************************************************************)
EXTENDS AgentLifecycle, TLAPS

-----------------------------------------------------------------------------
(* The inductive invariant.                                                *)

(* A stop() is remembered by its wake until the loop reads the flag, and a  *)
(* loop about to wait owes nobody an answer.                                *)
WaitsAreClean ==
    place \in Waits \cup {"reset"} =>
        /\ ~pending
        /\ stopRequested => "wake" \in queue

(* A discovery and a rest exclude each other; the tick is due, staged or in *)
(* the ledger.                                                             *)
TickIsKept ==
    /\ place = "debounce" => queue # {}
    /\ rested # "no" => place = "round"
    /\ place = "resting" \/ rested # "no" => ~exploring
    /\ exploring => tickDue \/ prompted \/ place = "commit"
    /\ place = "round" /\ exploring => prompted

(* The direction k steps before the next one.                               *)
Back(k) == IF direction - k >= 0 THEN direction - k ELSE direction - k + Directions

(* The directions given up, and the one of the running discovery, are the   *)
(* last ones begun.                                                        *)
TriedBack ==
    /\ \A k \in 1..Directions : k <= failed + (IF exploring THEN 1 ELSE 0) => Back(k) \in tried
    /\ place = "reset" => failed = Directions

(* Every barren round since the last wait is counted by the policy.          *)
BarrenIsCounted ==
    /\ barren <= stalled * (MaxCorrections + 1) + corrections
    /\ place \in {"waitEvent", "reset"} => barren = 0

LoopInd == LoopTypeOK /\ WaitsAreClean /\ TickIsKept /\ TriedBack /\ BarrenIsCounted

(* The coordinator has passed the Agent.                                    *)
Passed == phase \in {"stopJobs", "disconnectDb", "done"}

ProcessInd ==
    /\ LifecycleTypeOK
    /\ place # "idle" <=> main = "agent"
    /\ phase = "awaitAgent" \/ Passed => stopping
    /\ Passed /\ ~timedOut /\ main = "agent" => place = "stopped"

Ind == LoopInd /\ ProcessInd

-----------------------------------------------------------------------------
(* The policy.                                                             *)

(* LoopPolicyInput after a round.                                           *)
Inputs ==
    [ranRound : {TRUE}, stopRequested : BOOLEAN, toolCalls : BOOLEAN, demand : Demands,
     recoverable : BOOLEAN, onlyHelp : BOOLEAN, progress : BOOLEAN,
     continuation : Continuations, corrections : 0..MaxCorrections,
     stalled : 0..(MaxNoProgress - 1)]

(* What the loop's proofs need of a decision.                               *)
SoundDecision(in, d) ==
    /\ d.action \in {"stop", "continue", "wait_event", "wait_attention"}
    /\ d.corrections \in 0..MaxCorrections /\ d.stalled \in 0..(MaxNoProgress - 1)
    /\ in.stopRequested => d.action = "stop"
    /\ ~in.stopRequested /\ in.demand = "attention" => d.action = "continue"
    /\ d.reason = "no_progress_limit" => d.action = "wait_event"
    /\ d.action = "continue" /\ in.demand = "none" /\ ~in.progress =>
          \/ d.stalled = in.stalled /\ d.corrections = in.corrections + 1
          \/ d.stalled = in.stalled + 1

(* Stall counts one more round, or parks the loop at the limit.             *)
LEMMA StallCounts ==
    ASSUME NEW reason \in {"tool_immediate", "tool_no_progress"},
           NEW c \in 0..MaxCorrections, NEW s \in 0..(MaxNoProgress - 1)
    PROVE  LET d == Stall(reason, c, s)
           IN /\ d.action \in {"continue", "wait_event"}
              /\ d.corrections = c /\ d.stalled \in 0..(MaxNoProgress - 1)
              /\ d.reason = "no_progress_limit" => d.action = "wait_event"
              /\ d.action = "continue" => d.stalled = s + 1
  BY PolicyAssumption DEF Stall, Decision

(* decideLoopPolicy keeps its counters in their limits, stops when asked    *)
(* to, never waits over attention, and lets a barren round go on only if it *)
(* counts it.                                                              *)
LEMMA DecideSound ==
    ASSUME NEW in \in Inputs
    PROVE  SoundDecision(in, DecideLoopPolicy(in))
<1> DEFINE correcting == in.recoverable \/ (in.corrections > 0 /\ in.onlyHelp)
           kept == IF in.recoverable \/ in.onlyHelp THEN in.corrections ELSE 0
<1>0. /\ in.ranRound = TRUE /\ in.stopRequested \in BOOLEAN /\ in.toolCalls \in BOOLEAN
      /\ in.demand \in Demands /\ in.progress \in BOOLEAN /\ in.continuation \in Continuations
      /\ in.corrections \in 0..MaxCorrections /\ in.stalled \in 0..(MaxNoProgress - 1)
  BY DEF Inputs
<1>k. kept \in 0..MaxCorrections
  BY <1>0, PolicyAssumption
<1>1. ASSUME ~in.stopRequested, in.demand # "attention", in.toolCalls
      PROVE  SoundDecision(in, AfterTools(in))
  <2>1. CASE correcting /\ in.corrections < MaxCorrections
    <3>1. AfterTools(in) =
             Decision("continue", "recoverable_tool_correction", in.corrections + 1, in.stalled)
      BY <2>1 DEF AfterTools
    <3> QED  BY <1>0, <1>1, <2>1, <3>1, PolicyAssumption DEF Decision, SoundDecision
  <2>2. ASSUME ~(correcting /\ in.corrections < MaxCorrections)
        PROVE  SoundDecision(in, AfterTools(in))
    <3>1. CASE in.continuation = "immediate" /\ ~in.progress
      <4>1. AfterTools(in) = Stall("tool_immediate", kept, in.stalled)
        BY <1>0, <1>1, <2>2, <3>1 DEF AfterTools
      <4> QED  BY <1>0, <1>k, <1>1, <4>1, StallCounts, PolicyAssumption DEF SoundDecision
    <3>2. CASE in.continuation = "none" /\ ~in.progress /\ in.demand # "continuation"
      <4>1. AfterTools(in) = Stall("tool_no_progress", kept, in.stalled)
        BY <1>0, <1>1, <2>2, <3>2 DEF AfterTools
      <4> QED  BY <1>0, <1>k, <1>1, <4>1, StallCounts, PolicyAssumption DEF SoundDecision
    <3>3. CASE in.continuation \in {"none", "immediate"} /\ in.progress
      BY <1>0, <1>k, <1>1, <2>2, <3>3, PolicyAssumption DEF AfterTools, Decision, SoundDecision
    <3>4. CASE in.continuation = "none" /\ ~in.progress /\ in.demand = "continuation"
      BY <1>0, <1>k, <1>1, <2>2, <3>4, PolicyAssumption DEF AfterTools, Decision, SoundDecision
    <3>5. CASE in.continuation \in {"wait_event", "stop", "wait_attention", "backoff"}
      <4>1. \/ AfterTools(in) = Decision("wait_event", "tool_external_started", 0, 0)
            \/ AfterTools(in) = Decision("wait_event", "tool_direction_complete", kept, 0)
            \/ AfterTools(in) = Decision("wait_attention", "tool_backoff", kept, in.stalled)
        BY <2>2, <3>5 DEF AfterTools
      <4> HIDE DEF kept
      <4> QED  BY <1>0, <1>k, <1>1, <4>1, PolicyAssumption DEF Decision, SoundDecision
    <3> QED  BY <1>0, <3>1, <3>2, <3>3, <3>4, <3>5 DEF Continuations
  <2> QED  BY <2>1, <2>2
<1>2. CASE in.stopRequested
  BY <1>0, <1>2, PolicyAssumption DEF DecideLoopPolicy, Decision, SoundDecision
<1>3. CASE ~in.stopRequested /\ in.demand = "attention"
  BY <1>0, <1>3, PolicyAssumption DEF DecideLoopPolicy, Decision, SoundDecision
<1>4. CASE ~in.stopRequested /\ in.demand # "attention" /\ in.toolCalls
  <2>1. DecideLoopPolicy(in) = AfterTools(in)
    BY <1>0, <1>4 DEF DecideLoopPolicy
  <2> QED  BY <1>1, <1>4, <2>1
<1>5. CASE ~in.stopRequested /\ in.demand # "attention" /\ ~in.toolCalls
  BY <1>0, <1>5, PolicyAssumption DEF DecideLoopPolicy, Decision, SoundDecision
<1> QED  BY <1>2, <1>3, <1>4, <1>5

-----------------------------------------------------------------------------
(* Directions.                                                             *)

(* Advancing is counting modulo the number of directions.                   *)
LEMMA NextDirection ==
    ASSUME NEW d \in 0..(Directions - 1)
    PROVE  (d + 1) % Directions = IF d + 1 = Directions THEN 0 ELSE d + 1
<1>1. CASE d + 1 = Directions
  BY <1>1, LoopAssumption
<1>2. CASE d + 1 # Directions
  BY <1>2, LoopAssumption
<1> QED  BY <1>1, <1>2

(* A direction begun is the one before the next; those before it move back  *)
(* by one.                                                                 *)
LEMMA AdvanceShifts ==
    ASSUME LoopTypeOK, Advance
    PROVE  /\ direction' \in 0..(Directions - 1)
           /\ tried' \subseteq 0..(Directions - 1)
           /\ \A k \in 1..Directions, n \in Nat :
                 (k <= n + 1 /\ (\A j \in 1..Directions : j <= n => Back(j) \in tried))
                 => Back(k)' \in tried'
<1>0. /\ Directions \in Nat \ {0} /\ direction \in 0..(Directions - 1)
      /\ tried' = tried \cup {direction}
      /\ direction' = IF direction + 1 = Directions THEN 0 ELSE direction + 1
  BY LoopAssumption, NextDirection DEF LoopTypeOK, Advance
<1>1. direction' \in 0..(Directions - 1) /\ tried' \subseteq 0..(Directions - 1)
  BY <1>0 DEF LoopTypeOK
<1>2. ASSUME NEW k \in 1..Directions, NEW n \in Nat, k <= n + 1,
             \A j \in 1..Directions : j <= n => Back(j) \in tried
      PROVE  Back(k)' \in tried'
  <2>1. CASE k = 1
    BY <1>0, <2>1 DEF Back
  <2>2. CASE k # 1
    <3>1. k - 1 \in 1..Directions /\ k - 1 <= n
      BY <1>0, <1>2, <2>2
    <3>2. Back(k)' = Back(k - 1)
      BY <1>0, <2>2 DEF Back
    <3> QED  BY <1>0, <1>2, <3>1, <3>2
  <2> QED  BY <2>1, <2>2
<1> QED  BY <1>1, <1>2

-----------------------------------------------------------------------------
(* The steps of the loop keep its invariant.                               *)

(* The loop starts in the invariant.                                        *)
LEMMA LoopStarts == LoopInit => LoopInd
<1> SUFFICES ASSUME LoopInit PROVE LoopInd
  OBVIOUS
<1>0. 0 \in 0..MaxCorrections /\ 0 \in 0..(MaxNoProgress - 1) /\ 0 \in 0..(Directions - 1)
      /\ 0 \in 0..Directions /\ 0 \in 0..MaxFaults
  BY LoopAssumption, PolicyAssumption
<1>1. LoopTypeOK
  BY <1>0 DEF LoopInit, LoopTypeOK, Places, Awaits, Waits
<1>2. WaitsAreClean /\ TickIsKept
  BY DEF LoopInit, WaitsAreClean, TickIsKept, Waits
<1>3. TriedBack
  BY LoopAssumption DEF LoopInit, TriedBack
<1>4. BarrenIsCounted
  BY PolicyAssumption DEF LoopInit, BarrenIsCounted
<1> QED  BY <1>1, <1>2, <1>3, <1>4 DEF LoopInd

(* A step that only moves the loop between places where it holds nothing,   *)
(* and never into a wait, a commit, a round or a reset.                     *)
Moves ==
    /\ UNCHANGED <<mailbox, stopRequested, discovery, barren>>
    /\ UNCHANGED <<corrections, stalled>>
    /\ nudged' \in BOOLEAN /\ corrected' \in BOOLEAN /\ shortWork' \in BOOLEAN
    /\ faults' \in 0..MaxFaults
    /\ place' \in {"top", "debounce", "resting", "stopped", "backoff"} \/ (place' = "round" /\ place = "resting")
    /\ place # "commit" /\ rested' \in {"no", "cut", "slept"}
    /\ rested' # "no" => place' = "round"
    /\ place' = "debounce" => queue # {}
    /\ place' = "resting" => ~exploring

(* Such a move keeps the invariant.                                         *)
LEMMA MovesKeep ==
    ASSUME LoopInd, Moves
    PROVE  LoopInd'
<1>0. /\ UNCHANGED <<queue, drained, shown, pending, blank, stopRequested, exploring, tickDue,
                     direction, failed, tried, prompted, barren, corrections, stalled>>
      /\ place' \in Places /\ place' \notin Waits \cup {"reset", "commit"}
  BY DEF Moves, mailbox, discovery, Places, Awaits, Waits
<1>1. LoopTypeOK'
  BY <1>0 DEF LoopInd, LoopTypeOK, Moves
<1>2. WaitsAreClean'
  BY <1>0 DEF WaitsAreClean
<1>3. TickIsKept'
  BY <1>0 DEF LoopInd, LoopTypeOK, TickIsKept, Moves
<1>4. TriedBack'
  BY <1>0 DEF LoopInd, TriedBack, Back, Waits
<1>5. BarrenIsCounted'
  BY <1>0 DEF LoopInd, BarrenIsCounted, Waits
<1> QED  BY <1>1, <1>2, <1>3, <1>4, <1>5 DEF LoopInd

(* LoopEnds, Debounce, RestStarts, RestEnds, Nudge, PauseEnds and           *)
(* AfterRoundFails are such moves, and so is StartLoop but for the flag.    *)
LEMMA MovesAre ==
    ASSUME LoopInd,
           \/ LoopEnds \/ Debounce \/ RestStarts \/ RestEnds \/ Nudge \/ PauseEnds
           \/ AfterRoundFails
    PROVE  Moves
<1>0. /\ nudged \in BOOLEAN /\ corrected \in BOOLEAN /\ shortWork \in BOOLEAN
      /\ faults \in 0..MaxFaults /\ MaxFaults \in Nat
      /\ rested \in {"no", "cut", "slept"}
      /\ rested # "no" => place = "round"
      /\ place = "resting" => ~exploring
  BY LoopAssumption DEF LoopInd, LoopTypeOK, TickIsKept
<1>1. CASE LoopEnds
  BY <1>0, <1>1 DEF LoopEnds, Moves, policy
<1>2. CASE Debounce
  BY <1>0, <1>2 DEF Debounce, Moves, policy
<1>3. CASE RestStarts
  BY <1>0, <1>3 DEF RestStarts, Moves, policy
<1>4. CASE RestEnds
  BY <1>0, <1>4 DEF RestEnds, Moves, policy
<1>5. CASE Nudge
  BY <1>0, <1>5 DEF Nudge, Moves, policy
<1>6. CASE PauseEnds
  BY <1>0, <1>6 DEF PauseEnds, Moves, policy
<1>7. CASE AfterRoundFails
  BY <1>0, <1>7 DEF AfterRoundFails, Throws, Fault, Moves, policy
<1> QED  BY <1>1, <1>2, <1>3, <1>4, <1>5, <1>6, <1>7

(* start() only clears the flag.                                            *)
LEMMA StartLoopKeeps ==
    ASSUME LoopInd, StartLoop
    PROVE  LoopInd'
<1>0. /\ UNCHANGED <<queue, drained, shown, pending, blank, rested, corrections, stalled, nudged,
                     corrected, shortWork, exploring, tickDue, direction, failed, tried, prompted,
                     barren, faults>>
      /\ place' = "top" /\ stopRequested' = FALSE /\ place = "idle"
  BY DEF StartLoop, mailbox, policy, discovery
<1>1. LoopTypeOK'
  BY <1>0 DEF LoopInd, LoopTypeOK, Places, Awaits, Waits
<1>2. WaitsAreClean' /\ TickIsKept' /\ TriedBack' /\ BarrenIsCounted'
  BY <1>0 DEF LoopInd, WaitsAreClean, TickIsKept, TriedBack, Back, BarrenIsCounted, Waits
<1> QED  BY <1>1, <1>2 DEF LoopInd

(* A step that only adds to the queue, among it a wake when it raises the    *)
(* flag.                                                                   *)
Adds ==
    /\ UNCHANGED <<place, drained, shown, pending, blank, rested, policy, discovery, barren>>
    /\ faults' \in 0..MaxFaults
    /\ queue \subseteq queue' /\ queue' \subseteq Kinds \cup {"wake"}
    /\ stopRequested' = stopRequested \/ (stopRequested' = TRUE /\ "wake" \in queue')

(* Adding to the queue keeps the invariant.                                 *)
LEMMA AddsKeep ==
    ASSUME LoopInd, Adds
    PROVE  LoopInd'
<1>0. UNCHANGED <<place, drained, shown, pending, blank, rested, corrections, stalled, nudged, corrected,
                  shortWork, exploring, tickDue, direction, failed, tried, prompted, barren>>
  BY DEF Adds, policy, discovery
<1>1. LoopTypeOK'
  <2>1. LoopTypeOK BY DEF LoopInd
  <2>2. /\ queue' \subseteq Kinds \cup {"wake"} /\ faults' \in 0..MaxFaults
        /\ stopRequested' \in BOOLEAN
    BY <2>1 DEF LoopTypeOK, Adds
  <2> QED BY <1>0, <2>1, <2>2 DEF LoopTypeOK
<1>2. WaitsAreClean'
  BY <1>0 DEF LoopInd, LoopTypeOK, WaitsAreClean, Adds, Waits
<1>3. TickIsKept' /\ TriedBack' /\ BarrenIsCounted'
  BY <1>0 DEF LoopInd, TickIsKept, TriedBack, Back, BarrenIsCounted, Adds
<1> QED  BY <1>1, <1>2, <1>3 DEF LoopInd

(* A drained event ends the discovery; without one the tick is staged, or    *)
(* it was given already.                                                   *)
LEMMA DrainKeeps ==
    ASSUME LoopInd, Drain
    PROVE  LoopInd'
<1>0. /\ place = "debounce" \/ (place = "top" /\ ~stopRequested /\ queue = {})
      /\ drained' = queue /\ queue' = {} /\ shown' \subseteq queue
      /\ UNCHANGED <<pending, blank, stopRequested, rested, corrections, nudged, shortWork, faults>>
      /\ place' \in {"commit", "round", "top"}
  BY DEF Drain
<1>1. rested = "no" /\ LoopTypeOK
  BY <1>0 DEF LoopInd, TickIsKept
<1>2. CASE queue # {}
  <2>1. /\ exploring' = FALSE /\ tickDue' = FALSE /\ prompted' = FALSE /\ failed' = 0 /\ tried' = {}
        /\ UNCHANGED direction /\ stalled' = 0 /\ corrected' = FALSE /\ barren' = 0
    BY <1>2 DEF Drain, Welcome, EndDiscovery, ForgetFailures
  <2>2. LoopTypeOK'
    <3>1. 0 \in 0..(MaxNoProgress - 1) /\ 0 \in 0..Directions
      BY PolicyAssumption, LoopAssumption
    <3>2. place' \in Places
      BY <1>0 DEF Places, Awaits
    <3> QED  BY <1>0, <1>1, <2>1, <3>1, <3>2 DEF LoopTypeOK
  <2>3. WaitsAreClean' /\ TickIsKept'
    BY <1>0, <1>1, <2>1 DEF WaitsAreClean, TickIsKept, Waits
  <2>4. TriedBack' /\ BarrenIsCounted'
    BY <1>0, <1>1, <2>1, PolicyAssumption, LoopAssumption
    DEF TriedBack, BarrenIsCounted, LoopTypeOK
  <2> QED  BY <2>2, <2>3, <2>4 DEF LoopInd
<1>3. CASE queue = {}
  <2>1. place = "top" /\ ~stopRequested
    BY <1>0, <1>3 DEF LoopInd, TickIsKept
  <2>2. /\ tickDue' = (tickDue /\ ~(exploring /\ tickDue))
        /\ UNCHANGED <<failed, tried, exploring, prompted, direction, stalled, corrected, barren>>
        /\ exploring /\ tickDue => place' = "commit"
    BY <1>3, <2>1 DEF Drain, KeepFailures
  <2>3. LoopTypeOK'
    BY <1>0, <1>1, <2>2 DEF LoopTypeOK, Places, Awaits, Waits
  <2>4. WaitsAreClean' /\ TickIsKept'
    BY <1>0, <1>1, <2>1, <2>2 DEF LoopInd, LoopTypeOK, WaitsAreClean, TickIsKept, Waits
  <2>5. TriedBack' /\ BarrenIsCounted'
    BY <1>0, <2>2 DEF LoopInd, TriedBack, Back, BarrenIsCounted
  <2> QED  BY <2>3, <2>4, <2>5 DEF LoopInd
<1> QED  BY <1>2, <1>3

(* The bootstrap, the tick and the disclosures are in the ledger.           *)
LEMMA CommitDoneKeeps ==
    ASSUME LoopInd, CommitDone
    PROVE  LoopInd'
<1>0. /\ place = "commit" /\ place' = "round" /\ blank' = FALSE
      /\ pending' = (pending \/ "private" \in shown) /\ prompted' = exploring
      /\ UNCHANGED <<queue, drained, shown, stopRequested, rested, corrections, stalled, nudged,
                     corrected, shortWork, exploring, tickDue, direction, failed, tried, barren, faults>>
  BY DEF CommitDone, policy
<1>1. LoopTypeOK'
  BY <1>0 DEF LoopInd, LoopTypeOK, Places, Awaits
<1>2. WaitsAreClean' /\ TickIsKept'
  BY <1>0 DEF LoopInd, LoopTypeOK, WaitsAreClean, TickIsKept, Waits
<1>3. TriedBack' /\ BarrenIsCounted'
  BY <1>0 DEF LoopInd, TriedBack, Back, BarrenIsCounted
<1> QED  BY <1>1, <1>2, <1>3 DEF LoopInd

(* A failed commit puts the events back and has the tick given again.       *)
LEMMA CommitFailsKeeps ==
    ASSUME LoopInd, CommitFails
    PROVE  LoopInd'
<1>0. /\ place = "commit" /\ place' = "backoff" /\ queue' = queue \cup drained
      /\ drained' = {} /\ shown' = {} /\ tickDue' = exploring
      /\ UNCHANGED <<pending, blank, stopRequested, rested, corrections, stalled, nudged, corrected,
                     shortWork, exploring, prompted, direction, failed, tried, barren>>
      /\ faults' \in 0..MaxFaults
  BY LoopAssumption DEF CommitFails, Throws, Fault, Requeue, TickDueAgain, policy, LoopInd, LoopTypeOK
<1>1. LoopTypeOK'
  BY <1>0 DEF LoopInd, LoopTypeOK, Places, Awaits
<1>2. WaitsAreClean' /\ TickIsKept'
  BY <1>0 DEF LoopInd, LoopTypeOK, WaitsAreClean, TickIsKept, Waits
<1>3. TriedBack' /\ BarrenIsCounted'
  BY <1>0 DEF LoopInd, TriedBack, Back, BarrenIsCounted
<1> QED  BY <1>1, <1>2, <1>3 DEF LoopInd

(* A failed round leaves the discovery as it was.                           *)
LEMMA RoundFailsKeeps ==
    ASSUME LoopInd, RoundFails
    PROVE  LoopInd'
<1>0. /\ place = "round" /\ place' = "backoff" /\ pending' \in BOOLEAN
      /\ drained' = {} /\ shown' = {} /\ rested' = "no"
      /\ UNCHANGED <<queue, blank, stopRequested, corrections, stalled, nudged, corrected, shortWork,
                     exploring, tickDue, prompted, direction, failed, tried, barren>>
      /\ faults' \in 0..MaxFaults
  BY LoopAssumption DEF RoundFails, Throws, Fault, policy, discovery, LoopInd, LoopTypeOK
<1>1. LoopTypeOK'
  BY <1>0 DEF LoopInd, LoopTypeOK, Places, Awaits
<1>2. WaitsAreClean' /\ TickIsKept'
  BY <1>0 DEF LoopInd, LoopTypeOK, WaitsAreClean, TickIsKept, Waits
<1>3. TriedBack' /\ BarrenIsCounted'
  BY <1>0 DEF LoopInd, TriedBack, Back, BarrenIsCounted
<1> QED  BY <1>1, <1>2, <1>3 DEF LoopInd

(* The behavioral reset ends the discovery and waits.                       *)
LEMMA ResetKeeps ==
    ASSUME LoopInd, Reset
    PROVE  LoopInd'
<1>0. /\ place = "reset" /\ place' = "waitEvent"
      /\ exploring' = FALSE /\ tickDue' = FALSE /\ prompted' = FALSE
      /\ (failed' = 0 /\ tried' = {}) \/ (failed' = failed /\ tried' = tried)
      /\ UNCHANGED <<queue, drained, shown, pending, blank, stopRequested, rested, corrections,
                     stalled, nudged, corrected, shortWork, direction, barren, faults>>
  BY DEF Reset, EndDiscovery, ForgetFailures, KeepFailures, mailbox, policy
<1>1. LoopTypeOK'
  <2>1. failed' \in 0..Directions /\ tried' \subseteq 0..(Directions - 1)
    <3>1. 0 \in 0..Directions
      BY LoopAssumption
    <3>2. failed \in 0..Directions /\ tried \subseteq 0..(Directions - 1)
      BY DEF LoopInd, LoopTypeOK
    <3> QED  BY <1>0, <3>1, <3>2
  <2> QED  BY <1>0, <2>1 DEF LoopInd, LoopTypeOK, Places, Awaits, Waits
<1>2. WaitsAreClean' /\ TickIsKept'
  BY <1>0 DEF LoopInd, LoopTypeOK, WaitsAreClean, TickIsKept, Waits
<1>3. TriedBack'
  BY <1>0 DEF LoopInd, LoopTypeOK, TriedBack, Back
<1>4. BarrenIsCounted'
  BY <1>0 DEF LoopInd, BarrenIsCounted
<1> QED  BY <1>1, <1>2, <1>3, <1>4 DEF LoopInd

(* A wait that times out begins the next direction.                         *)
LEMMA WaitEventEndsKeeps ==
    ASSUME LoopInd, WaitEventEnds
    PROVE  LoopInd'
<1>0. /\ place = "waitEvent" /\ place' = "top"
      /\ UNCHANGED <<queue, drained, shown, pending, blank, stopRequested, rested, corrections,
                     nudged, shortWork, barren, faults>>
      /\ LoopTypeOK /\ rested = "no" /\ barren = 0
  BY DEF WaitEventEnds, mailbox, LoopInd, TickIsKept, BarrenIsCounted
<1>1. CASE queue = {} /\ ~stopRequested
  <2>1. /\ exploring' = TRUE /\ tickDue' = TRUE /\ prompted' = FALSE
        /\ Advance /\ failed' = failed /\ stalled' = 0 /\ corrected' = FALSE
    BY <1>1 DEF WaitEventEnds, BeginDiscovery
  <2>2. LoopTypeOK'
    <3>1. 0 \in 0..(MaxNoProgress - 1) /\ place' \in Places
      BY <1>0, PolicyAssumption DEF Places, Awaits
    <3> QED  BY <1>0, <2>1, <3>1, AdvanceShifts DEF LoopTypeOK
  <2>3. WaitsAreClean' /\ TickIsKept'
    BY <1>0, <2>1 DEF WaitsAreClean, TickIsKept, Waits
  <2>4. TriedBack'
    <3>1. \A k \in 1..Directions : k <= failed => Back(k) \in tried
      BY LoopAssumption DEF LoopInd, TriedBack, LoopTypeOK
    <3>2. failed \in Nat
      BY <1>0 DEF LoopTypeOK
    <3>3. \A k \in 1..Directions : k <= failed + 1 => Back(k)' \in tried'
      BY <1>0, <2>1, <3>1, <3>2, AdvanceShifts
    <3> QED  BY <1>0, <2>1, <3>3 DEF TriedBack
  <2>5. BarrenIsCounted'
    BY <1>0, <2>1, PolicyAssumption DEF BarrenIsCounted, LoopTypeOK
  <2> QED  BY <2>2, <2>3, <2>4, <2>5 DEF LoopInd
<1>2. CASE ~(queue = {} /\ ~stopRequested)
  <2>1. UNCHANGED <<exploring, tickDue, direction, failed, tried, prompted, stalled, corrected>>
    BY <1>2 DEF WaitEventEnds, discovery
  <2>2. LoopTypeOK'
    BY <1>0, <2>1 DEF LoopTypeOK, Places, Awaits
  <2>3. WaitsAreClean' /\ TickIsKept'
    BY <1>0, <2>1 DEF LoopInd, WaitsAreClean, TickIsKept, Waits
  <2>4. TriedBack' /\ BarrenIsCounted'
    BY <1>0, <2>1 DEF LoopInd, TriedBack, Back, BarrenIsCounted
  <2> QED  BY <2>2, <2>3, <2>4 DEF LoopInd
<1> QED  BY <1>1, <1>2

-----------------------------------------------------------------------------
(* The end of a round.                                                     *)

(* What Settle decides: nothing is stopped, waited for or counted           *)
(* wrongly.                                                                *)
LEMMA SettleSound ==
    ASSUME LoopInd, pending' \in BOOLEAN, NEW o \in Outcomes
    PROVE  LET d == Settle(o)
           IN /\ d.action \in {"stop", "continue", "wait_event", "wait_attention"}
              /\ d.corrections \in 0..MaxCorrections /\ d.stalled \in 0..(MaxNoProgress - 1)
              /\ d.action # "stop" => ~stopRequested
              /\ d.action \in {"wait_event", "wait_attention"} => ~pending'
              /\ d.reason = "no_progress_limit" => d.action = "wait_event"
              /\ IsBarren(o, d) =>
                    \/ d.stalled = stalled /\ d.corrections = corrections + 1
                    \/ d.stalled = stalled + 1
<1> DEFINE in == [ranRound |-> TRUE, stopRequested |-> stopRequested, toolCalls |-> o.kind = "tools",
                  demand |-> Demand(o), recoverable |-> o.recoverable, onlyHelp |-> o.onlyHelp,
                  progress |-> o.progress \/ rested = "slept", continuation |-> o.continuation,
                  corrections |-> corrections, stalled |-> stalled]
<1>1. Demand(o) \in Demands /\ (pending' <=> Demand(o) = "attention")
  BY DEF Demand, Demands
<1>2. /\ o.recoverable \in BOOLEAN /\ o.onlyHelp \in BOOLEAN /\ o.progress \in BOOLEAN
      /\ o.continuation \in Continuations
  BY DEF Outcomes
<1>3. /\ stopRequested \in BOOLEAN /\ corrections \in 0..MaxCorrections
      /\ stalled \in 0..(MaxNoProgress - 1)
  BY DEF LoopInd, LoopTypeOK
<1>4. in \in Inputs
  BY <1>1, <1>2, <1>3 DEF Inputs
<1>5. SoundDecision(in, Settle(o))
  BY <1>4, DecideSound DEF Settle
<1>6. /\ in.stopRequested = stopRequested /\ in.demand = Demand(o)
      /\ in.progress = (o.progress \/ rested = "slept")
      /\ in.corrections = corrections /\ in.stalled = stalled
  OBVIOUS
<1> HIDE DEF in
<1>7. IsBarren(o, Settle(o)) =>
         Settle(o).action = "continue" /\ in.demand = "none" /\ ~in.progress
  BY <1>6 DEF IsBarren
<1>8. QED
  <2> DEFINE d == Settle(o)
  <2>1. SoundDecision(in, d)
    BY <1>5
  <2> HIDE DEF d
  <2>2. /\ d.action \in {"stop", "continue", "wait_event", "wait_attention"}
        /\ d.corrections \in 0..MaxCorrections /\ d.stalled \in 0..(MaxNoProgress - 1)
        /\ d.reason = "no_progress_limit" => d.action = "wait_event"
        /\ d.action # "stop" => ~stopRequested
        /\ d.action \in {"wait_event", "wait_attention"} => ~pending'
    BY <1>1, <1>6, <2>1 DEF SoundDecision
  <2>3. d.action = "continue" /\ in.demand = "none" /\ ~in.progress =>
          \/ d.stalled = stalled /\ d.corrections = corrections + 1
          \/ d.stalled = stalled + 1
    BY <1>6, <2>1 DEF SoundDecision
  <2> QED  BY <1>7, <2>2, <2>3 DEF d

(* The discovery after a round, by cases.                                   *)
LEMMA ExploringKeeps ==
    ASSUME LoopInd, NEW o \in Outcomes, NEW d, NEW fails \in BOOLEAN, NEW resets \in BOOLEAN,
           place = "round",
           fails => exploring /\ d.action = "wait_event",
           resets <=> fails /\ failed + 1 >= Directions,
           Exploring(o, d, fails, resets)
    PROVE  /\ exploring' \in BOOLEAN /\ tickDue' \in BOOLEAN /\ prompted' \in BOOLEAN
           /\ direction' \in 0..(Directions - 1) /\ failed' \in 0..Directions
           /\ tried' \subseteq 0..(Directions - 1)
           /\ exploring' => tickDue' \/ prompted'
           /\ \A k \in 1..Directions :
                 k <= failed' + (IF exploring' THEN 1 ELSE 0) => Back(k)' \in tried'
           /\ resets => failed' = Directions
<1> DEFINE waits == d.action = "wait_event" /\ ~resets
<1>0. /\ LoopTypeOK /\ failed \in 0..Directions /\ Directions \in Nat \ {0}
      /\ exploring \in BOOLEAN /\ tickDue \in BOOLEAN /\ prompted \in BOOLEAN
      /\ rested # "no" => ~exploring
      /\ exploring => tickDue \/ prompted
  BY LoopAssumption DEF LoopInd, LoopTypeOK, TickIsKept
<1>t. \A k \in 1..Directions : k <= failed + (IF exploring THEN 1 ELSE 0) => Back(k) \in tried
  BY DEF LoopInd, TriedBack
<1>1. CASE rested = "slept"
  <2>1. /\ exploring' = ~waits /\ tickDue' = ~waits /\ prompted' = FALSE /\ Advance
        /\ failed' = failed /\ ~exploring /\ ~fails /\ ~resets
    BY <1>0, <1>1 DEF Exploring
  <2>2. \A k \in 1..Directions : k <= failed => Back(k) \in tried
    BY <1>0, <1>t, <2>1
  <2>3. \A k \in 1..Directions : k <= failed + 1 => Back(k)' \in tried'
    BY <1>0, <2>1, <2>2, AdvanceShifts
  <2>4. \A k \in 1..Directions : k <= failed' + (IF exploring' THEN 1 ELSE 0) => Back(k)' \in tried'
    BY <1>0, <2>1, <2>3
  <2> HIDE DEF waits
  <2> QED  BY <1>0, <2>1, <2>4, AdvanceShifts
<1>2. CASE rested # "slept" /\ fails
  <2>1. /\ UNCHANGED <<direction, tried>>
        /\ failed' = IF resets THEN Directions ELSE failed + 1
        /\ exploring /\ (waits <=> ~resets)
        /\ IF waits THEN EndDiscovery ELSE UNCHANGED <<exploring, tickDue, prompted>>
    BY <1>2 DEF Exploring
  <2>2. failed' \in 0..Directions
    BY <1>0, <1>2, <2>1
  <2>3. \A k \in 1..Directions : k <= failed + 1 => Back(k) \in tried
    BY <1>t, <2>1
  <2>4. CASE resets
    <3>1. /\ UNCHANGED <<exploring, tickDue, prompted>> /\ failed' = Directions
          /\ failed + 1 >= Directions
      BY <2>1, <2>4
    <3>2. \A k \in 1..Directions : k <= failed + 1
      BY <1>0, <3>1
    <3> QED  BY <1>0, <2>1, <2>2, <2>3, <3>1, <3>2 DEF LoopTypeOK, Back
  <2>5. CASE ~resets
    <3>1. exploring' = FALSE /\ tickDue' = FALSE /\ prompted' = FALSE /\ failed' = failed + 1
      BY <2>1, <2>5 DEF EndDiscovery
    <3>2. \A k \in 1..Directions : k <= failed' + (IF exploring' THEN 1 ELSE 0) => Back(k)' \in tried'
      BY <1>0, <2>1, <2>3, <3>1 DEF Back
    <3>3. direction' \in 0..(Directions - 1) /\ tried' \subseteq 0..(Directions - 1)
      BY <1>0, <2>1 DEF LoopTypeOK
    <3> QED  BY <2>2, <2>5, <3>1, <3>2, <3>3
  <2> QED  BY <2>4, <2>5
<1>3. CASE rested # "slept" /\ ~fails
  <2>1. /\ UNCHANGED direction /\ ~resets
        /\ \/ exploring' = FALSE /\ tickDue' = FALSE /\ prompted' = FALSE
           \/ UNCHANGED <<exploring, tickDue, prompted>> /\ (exploring => ~o.progress)
        /\ IF o.progress THEN failed' = 0 /\ tried' = {} ELSE UNCHANGED <<failed, tried>>
    BY <1>0, <1>3 DEF Exploring, EndDiscovery, ForgetFailures, KeepFailures
  <2>2. 0 \in 0..Directions
    BY <1>0
  <2>3. failed' \in 0..Directions /\ tried' \subseteq 0..(Directions - 1)
    BY <1>0, <2>1, <2>2 DEF LoopTypeOK
  <2>4. \A k \in 1..Directions : k <= failed' + (IF exploring' THEN 1 ELSE 0) => Back(k)' \in tried'
    BY <1>0, <1>t, <2>1 DEF Back
  <2>5. /\ exploring' \in BOOLEAN /\ tickDue' \in BOOLEAN /\ prompted' \in BOOLEAN
        /\ exploring' => tickDue' \/ prompted'
    <3>1. CASE exploring' = FALSE /\ tickDue' = FALSE /\ prompted' = FALSE
      BY <3>1
    <3>2. CASE UNCHANGED <<exploring, tickDue, prompted>>
      BY <1>0, <3>2
    <3> QED  BY <2>1, <3>1, <3>2
  <2>6. direction' \in 0..(Directions - 1)
    BY <1>0, <2>1 DEF LoopTypeOK
  <2> QED  BY <2>1, <2>3, <2>4, <2>5, <2>6
<1> QED  BY <1>1, <1>2, <1>3

(* A round ends with every count, type and direction in place.              *)
LEMMA RoundEndsKeeps ==
    ASSUME LoopInd, NEW o \in Outcomes, RoundEnds(o)
    PROVE  LoopInd'
<1> DEFINE d == Settle(o)
           fails == exploring /\ d.reason = "no_progress_limit"
           resets == fails /\ failed + 1 >= Directions
<1>0. /\ LoopTypeOK /\ place = "round"
      /\ drained' = {} /\ shown' = {} /\ rested' = "no" /\ shortWork' = o.work
      /\ UNCHANGED <<queue, blank, stopRequested, faults>>
      /\ pending' = (pending /\ ~o.read)
      /\ corrected' = (o.kind = "text") /\ nudged' = (nudged /\ Demand(o) = "attention")
  BY DEF LoopInd, RoundEnds
<1>1. /\ place' = CASE d.action = "stop" -> "top"
                 [] d.action = "wait_attention" -> "waitAttention"
                 [] d.action = "wait_event" -> IF resets THEN "reset" ELSE "waitEvent"
                 [] d.action = "continue" ->
                      IF d.reason = "attention_pending" /\ ~nudged THEN "nudge" ELSE "top"
      /\ corrections' = d.corrections
      /\ stalled' = IF rested = "slept" THEN 0 ELSE d.stalled
      /\ Exploring(o, d, fails, resets)
      /\ barren' = IF IsBarren(o, d) THEN barren + 1 ELSE 0
  BY DEF RoundEnds
<1>2. pending' \in BOOLEAN
  BY <1>0 DEF LoopTypeOK
<1>3. /\ d.action \in {"stop", "continue", "wait_event", "wait_attention"}
      /\ d.corrections \in 0..MaxCorrections /\ d.stalled \in 0..(MaxNoProgress - 1)
      /\ d.action # "stop" => ~stopRequested
      /\ d.action \in {"wait_event", "wait_attention"} => ~pending'
      /\ d.reason = "no_progress_limit" => d.action = "wait_event"
      /\ IsBarren(o, d) =>
            \/ d.stalled = stalled /\ d.corrections = corrections + 1
            \/ d.stalled = stalled + 1
  BY <1>2, SettleSound
<1> HIDE DEF d
<1>4. fails => exploring /\ d.action = "wait_event"
  BY <1>3
<1>5. fails \in BOOLEAN /\ resets \in BOOLEAN
  BY <1>0 DEF LoopTypeOK
<1>6. resets <=> fails /\ failed + 1 >= Directions
  OBVIOUS
<1> HIDE DEF fails, resets
<1>7. /\ exploring' \in BOOLEAN /\ tickDue' \in BOOLEAN /\ prompted' \in BOOLEAN
      /\ direction' \in 0..(Directions - 1) /\ failed' \in 0..Directions
      /\ tried' \subseteq 0..(Directions - 1)
      /\ exploring' => tickDue' \/ prompted'
      /\ \A k \in 1..Directions :
            k <= failed' + (IF exploring' THEN 1 ELSE 0) => Back(k)' \in tried'
      /\ resets => failed' = Directions
  BY <1>0, <1>1, <1>4, <1>5, <1>6, ExploringKeeps
<1>8. /\ place' \in {"top", "nudge", "reset", "waitEvent", "waitAttention"}
      /\ place' \in Waits \cup {"reset"} => d.action \in {"wait_event", "wait_attention"}
      /\ place' \in {"waitEvent", "reset"} => d.action = "wait_event"
      /\ place' = "reset" => resets
  BY <1>1, <1>3 DEF Waits
<1>9. LoopTypeOK'
  <2>1. place' \in Places
    BY <1>8 DEF Places, Awaits, Waits
  <2>2. corrections' \in 0..MaxCorrections /\ stalled' \in 0..(MaxNoProgress - 1)
    BY <1>1, <1>3, PolicyAssumption
  <2>3. barren' \in Nat
    BY <1>0, <1>1 DEF LoopTypeOK
  <2>4. shortWork' \in BOOLEAN /\ corrected' \in BOOLEAN /\ nudged' \in BOOLEAN
    BY <1>0 DEF Outcomes
  <2> QED  BY <1>0, <1>2, <1>7, <2>1, <2>2, <2>3, <2>4 DEF LoopTypeOK
<1>10. WaitsAreClean'
  BY <1>0, <1>3, <1>8 DEF WaitsAreClean, Waits
<1>11. TickIsKept'
  BY <1>0, <1>7, <1>8 DEF TickIsKept
<1>12. TriedBack'
  BY <1>7, <1>8 DEF TriedBack
<1>13. BarrenIsCounted'
  <2>0. /\ stalled \in Nat /\ corrections \in Nat /\ MaxCorrections \in Nat /\ barren \in Nat
        /\ corrections <= MaxCorrections /\ barren <= stalled * (MaxCorrections + 1) + corrections
        /\ d.stalled \in Nat /\ d.corrections \in Nat
    BY <1>0, <1>3, PolicyAssumption DEF LoopInd, LoopTypeOK, BarrenIsCounted
  <2>1. CASE IsBarren(o, d)
    <3>0. rested # "slept" /\ d.action = "continue"
      BY <2>1 DEF IsBarren
    <3>1. barren' = barren + 1 /\ stalled' = d.stalled /\ corrections' = d.corrections
      BY <1>1, <2>1, <3>0
    <3>2. CASE d.stalled = stalled /\ d.corrections = corrections + 1
      BY <1>8, <2>0, <3>0, <3>1, <3>2 DEF BarrenIsCounted
    <3>3. CASE d.stalled = stalled + 1
      <4>1. (stalled + 1) * (MaxCorrections + 1) = stalled * (MaxCorrections + 1) + MaxCorrections + 1
        BY <2>0
      <4> QED  BY <1>8, <2>0, <3>0, <3>1, <3>3, <4>1 DEF BarrenIsCounted
    <3> QED  BY <1>3, <2>1, <3>2, <3>3
  <2>2. CASE ~IsBarren(o, d)
    <3>1. barren' = 0 /\ stalled' \in Nat /\ corrections' \in Nat
      BY <1>1, <2>0, <2>2
    <3>2. stalled' * (MaxCorrections + 1) \in Nat
      <4>1. MaxCorrections + 1 \in Nat /\ \A a, b \in Nat : a * b \in Nat
        BY <2>0
      <4> QED  BY <3>1, <4>1
    <3> QED  BY <3>1, <3>2 DEF BarrenIsCounted
  <2> QED  BY <2>1, <2>2
<1> QED  BY <1>9, <1>10, <1>11, <1>12, <1>13 DEF LoopInd

(* Every step of the loop, failures included, keeps its invariant.          *)
LEMMA LoopKeeps ==
    ASSUME LoopInd, LoopStep \/ LoopFailure
    PROVE  LoopInd'
<1>1. CASE LoopEnds \/ Debounce \/ RestStarts \/ RestEnds \/ Nudge \/ PauseEnds \/ AfterRoundFails
  BY <1>1, MovesAre, MovesKeep
<1>2. CASE \E o \in Outcomes : RoundEnds(o)
  BY <1>2, RoundEndsKeeps
<1>3. CASE Drain \/ CommitDone \/ CommitFails \/ RoundFails \/ Reset \/ WaitEventEnds
  BY <1>3, DrainKeeps, CommitDoneKeeps, CommitFailsKeeps, RoundFailsKeeps, ResetKeeps,
     WaitEventEndsKeeps
<1> QED  BY <1>1, <1>2, <1>3 DEF LoopStep, LoopFailure

-----------------------------------------------------------------------------
(* The process around the loop.                                            *)

(* A step of the loop starts from a place where it runs, never leads back   *)
(* to "idle", and leaves "stopped" to nobody.                               *)
LEMMA LoopStaysAwake ==
    ASSUME LoopInd, LoopStep \/ LoopFailure
    PROVE  place \notin {"idle", "stopped"} /\ place' # "idle"
<1>1. CASE \E o \in Outcomes : RoundEnds(o)
  <2> PICK o \in Outcomes : RoundEnds(o)
    BY <1>1
  <2>1. place = "round"
    BY DEF RoundEnds
  <2>2. pending' \in BOOLEAN
    BY DEF RoundEnds, LoopInd, LoopTypeOK
  <2> DEFINE d == Settle(o)
             resets == (exploring /\ d.reason = "no_progress_limit") /\ failed + 1 >= Directions
  <2>3. /\ d.action \in {"stop", "continue", "wait_event", "wait_attention"}
        /\ place' = CASE d.action = "stop" -> "top"
                   [] d.action = "wait_attention" -> "waitAttention"
                   [] d.action = "wait_event" -> IF resets THEN "reset" ELSE "waitEvent"
                   [] d.action = "continue" ->
                        IF d.reason = "attention_pending" /\ ~nudged THEN "nudge" ELSE "top"
    BY <2>2, SettleSound DEF RoundEnds
  <2> HIDE DEF d, resets
  <2> QED  BY <2>1, <2>3
<1>2. CASE LoopEnds \/ Debounce \/ RestStarts \/ RestEnds \/ Nudge \/ PauseEnds \/ AfterRoundFails
  BY <1>2 DEF LoopEnds, Debounce, RestStarts, RestEnds, Nudge, PauseEnds, AfterRoundFails, Throws
<1>3. CASE Drain \/ CommitDone \/ CommitFails \/ RoundFails \/ Reset \/ WaitEventEnds
  BY <1>3 DEF Drain, CommitDone, CommitFails, RoundFails, Reset, WaitEventEnds, Throws
<1> QED  BY <1>1, <1>2, <1>3 DEF LoopStep, LoopFailure

(* A process that starts has no loop yet.                                   *)
LEMMA ProcessStarts == LifecycleInit => Ind
  BY LoopStarts DEF LifecycleInit, Ind, ProcessInd, LoopInd, LifecycleTypeOK, LoopInit, Passed

(* What main() and the coordinator do to the loop: they start it once, and  *)
(* only while no stop was asked for; they stop it; they queue events.       *)
LEMMA ProcessStep ==
    ASSUME Ind, LifecycleNext, ~((LoopStep \/ LoopFailure) /\ UNCHANGED process)
    PROVE  /\ UNCHANGED loopVars \/ StartLoop \/ Adds
           /\ LoopTypeOK' => ProcessInd'
<1> USE DEF process, loopVars, Ind, ProcessInd, LifecycleTypeOK
<1>0. /\ queue \subseteq Kinds \cup {"wake"} /\ faults \in 0..MaxFaults /\ MaxFaults \in Nat
      /\ place = "idle" <=> main # "agent"
  BY LoopAssumption DEF LoopTypeOK
<1>1. CASE AcquireCoreLock \/ Boot
  BY <1>1 DEF AcquireCoreLock, Boot, Passed
<1>2. CASE ServicesReady
  <2>1. CASE stopping
    BY <1>0, <1>2, <2>1 DEF ServicesReady, StartUnlessStopped, Passed
  <2>2. CASE ~stopping
    BY <1>0, <1>2, <2>2 DEF ServicesReady, StartUnlessStopped, StartLoop, Passed
  <2> QED  BY <2>1, <2>2
<1>3. CASE FallbackEnds
  BY <1>3 DEF FallbackEnds, ReleaseLock, Passed
<1>4. CASE StopAgent
  <2>1. Adds
    BY <1>0, <1>4 DEF StopAgent, StopLoop, Adds
  <2> QED  BY <1>4, <2>1 DEF StopAgent, Passed
<1>5. CASE AwaitAgent
  BY <1>5 DEF AwaitAgent, AgentSettled, Passed
<1>6. CASE StopJobs
  BY <1>6 DEF StopJobs, Passed
<1>7. CASE DisconnectDb
  BY <1>7 DEF DisconnectDb, ReleaseLock, Passed
<1>8. CASE Signal
  BY <1>8 DEF Signal, Passed
<1>9. CASE BootFails
  <2>1. Adds
    BY <1>0, <1>9 DEF BootFails, Fault, Adds, mailbox
  <2> QED  BY <1>0, <1>9, <2>1 DEF BootFails, Passed
<1>10. CASE ServicesFail
  <2>1. Adds
    BY <1>0, <1>10 DEF ServicesFail, Fault, Adds, mailbox
  <2> QED  BY <1>0, <1>10, <2>1 DEF ServicesFail, Passed
<1>11. CASE PhaseTimesOut
  <2>1. Adds
    BY <1>0, <1>11 DEF PhaseTimesOut, Fault, Adds, mailbox
  <2> QED  BY <1>0, <1>11, <2>1 DEF PhaseTimesOut, Passed
<1>12. CASE \E k \in Kinds : Arrive(k)
  <2>1. Adds
    BY <1>0, <1>12 DEF Arrive, Post, Adds
  <2> QED  BY <1>12, <2>1 DEF Arrive, Post, Passed
<1> QED
  BY <1>1, <1>2, <1>3, <1>4, <1>5, <1>6, <1>7, <1>8, <1>9, <1>10, <1>11, <1>12
  DEF LifecycleNext, Main, Shutdown, Failure

(* Every step of the process keeps the invariant.                           *)
LEMMA ProcessKeeps ==
    ASSUME Ind, [LifecycleNext]_lifecycleVars
    PROVE  Ind'
<1>1. CASE UNCHANGED lifecycleVars
  <2>1. UNCHANGED <<place, queue, drained, shown, pending, blank, stopRequested, rested, corrections,
                    stalled, nudged, corrected, shortWork, exploring, tickDue, direction, failed, tried,
                    prompted, barren, faults>>
    BY <1>1 DEF lifecycleVars, loopVars, mailbox, policy, discovery
  <2>2. LoopInd'
    BY <2>1 DEF Ind, LoopInd, LoopTypeOK, WaitsAreClean, TickIsKept, TriedBack, Back, BarrenIsCounted
  <2>3. ProcessInd'
    BY <1>1, <2>1, <2>2 DEF Ind, LoopInd, ProcessInd, LifecycleTypeOK, Passed, lifecycleVars, process
  <2> QED  BY <2>2, <2>3 DEF Ind
<1>2. CASE (LoopStep \/ LoopFailure) /\ UNCHANGED process
  <2>1. LoopInd' /\ place \notin {"idle", "stopped"} /\ place' # "idle"
    BY <1>2, LoopKeeps, LoopStaysAwake DEF Ind
  <2>2. ProcessInd'
    BY <1>2, <2>1 DEF Ind, LoopInd, ProcessInd, LifecycleTypeOK, Passed, process
  <2> QED  BY <2>1, <2>2 DEF Ind
<1>3. CASE LifecycleNext /\ ~((LoopStep \/ LoopFailure) /\ UNCHANGED process)
  <2>1. UNCHANGED loopVars \/ StartLoop \/ Adds
    BY <1>3, ProcessStep
  <2>2. LoopInd'
    <3>1. CASE UNCHANGED loopVars
      <4>1. UNCHANGED <<place, queue, drained, shown, pending, blank, stopRequested, rested, corrections,
                        stalled, nudged, corrected, shortWork, exploring, tickDue, direction, failed,
                        tried, prompted, barren, faults>>
        BY <3>1 DEF loopVars, mailbox, policy, discovery
      <4> QED  BY <4>1 DEF Ind, LoopInd, LoopTypeOK, WaitsAreClean, TickIsKept, TriedBack, Back,
                           BarrenIsCounted
    <3> QED  BY <2>1, <3>1, StartLoopKeeps, AddsKeep DEF Ind
  <2> QED  BY <1>3, <2>2, ProcessStep DEF Ind, LoopInd
<1> QED  BY <1>1, <1>2, <1>3

(* The invariant holds in every state of the process.                       *)
LEMMA ProcessSafe == LifecycleSpec => []Ind
<1>1. LifecycleInit => Ind
  BY ProcessStarts
<1>2. Ind /\ [LifecycleNext]_lifecycleVars => Ind'
  BY ProcessKeeps
<1> QED  BY <1>1, <1>2, PTL DEF LifecycleSpec

(* LifecycleInv: every variable keeps its type, and a shutdown whose phases  *)
(* all ended disconnects the database only after the loop has stopped,      *)
(* whenever it was requested.                                               *)
THEOREM ShutdownLeavesNoLoop == LifecycleSpec => []LifecycleInv
<1>1. Ind => LifecycleInv
  BY DEF Ind, ProcessInd, Passed, LifecycleInv, DisconnectIsLast, LifecycleTypeOK, LoopTypeOK, Places
<1> QED  BY <1>1, ProcessSafe, PTL

(* LoopInv: however stop(), events, faults and decisions interleave, a wait  *)
(* leaves behind neither a stop request nor pending attention, a discovery  *)
(* has its tick in the ledger, a reset comes after every direction, and     *)
(* barren rounds are bounded by the policy's two limits.                    *)
THEOREM LoopIsSound == LifecycleSpec => []LoopInv
<1>1. ASSUME Ind PROVE WaitsLeaveNothing /\ DiscoveryIsPrompted
  BY <1>1 DEF Ind, LoopInd, WaitsAreClean, TickIsKept, WaitsLeaveNothing, StopWakesEveryWait,
              PendingNeverParks, DiscoveryIsPrompted
<1>2. ASSUME Ind PROVE ResetTriedEveryDirection
  <2> SUFFICES ASSUME place = "reset" PROVE 0..(Directions - 1) \subseteq tried
    BY <1>2 DEF Ind, LoopInd, LoopTypeOK, ResetTriedEveryDirection
  <2>1. /\ direction \in 0..(Directions - 1) /\ Directions \in Nat
        /\ \A k \in 1..Directions : Back(k) \in tried
    BY <1>2, LoopAssumption DEF Ind, LoopInd, LoopTypeOK, TriedBack
  <2>2. ASSUME NEW i \in 0..(Directions - 1) PROVE i \in tried
    <3>1. CASE i < direction
      <4>1. direction - i \in 1..Directions /\ Back(direction - i) = i
        BY <2>1, <3>1 DEF Back
      <4> QED  BY <2>1, <4>1
    <3>2. CASE i >= direction
      <4>1. direction - i + Directions \in 1..Directions /\ Back(direction - i + Directions) = i
        BY <2>1, <3>2 DEF Back
      <4> QED  BY <2>1, <4>1
    <3> QED  BY <2>1, <3>1, <3>2
  <2> QED  BY <2>2
<1>3. ASSUME Ind PROVE BarrenToolRoundsAreFew
  <2>1. /\ barren \in Nat /\ barren <= stalled * (MaxCorrections + 1) + corrections
        /\ MaxCorrections \in Nat /\ corrections \in 0..MaxCorrections
        /\ MaxNoProgress \in Nat \ {0} /\ stalled \in 0..(MaxNoProgress - 1)
    BY <1>3, PolicyAssumption DEF Ind, LoopInd, LoopTypeOK, BarrenIsCounted
  <2>2. stalled * (MaxCorrections + 1) <= (MaxNoProgress - 1) * (MaxCorrections + 1)
    <3>1. \A a, b, c \in Nat : a <= b => a * c <= b * c
      OBVIOUS
    <3>2. stalled \in Nat /\ MaxNoProgress - 1 \in Nat /\ MaxCorrections + 1 \in Nat
          /\ stalled <= MaxNoProgress - 1
      BY <2>1
    <3> QED  BY <3>1, <3>2
  <2>3. (MaxNoProgress - 1) * (MaxCorrections + 1) + MaxCorrections + 1
           = MaxNoProgress * (MaxCorrections + 1)
    BY <2>1
  <2>4. /\ stalled * (MaxCorrections + 1) \in Int /\ MaxNoProgress * (MaxCorrections + 1) \in Int
        /\ (MaxNoProgress - 1) * (MaxCorrections + 1) \in Int
    BY <2>1
  <2> QED  BY <2>1, <2>2, <2>3, <2>4 DEF BarrenToolRoundsAreFew
<1>4. Ind => LoopInv
  BY <1>1, <1>2, <1>3 DEF LoopInv, DiscoveryRunsItsCourse
<1> QED  BY <1>4, ProcessSafe, PTL
=============================================================================
