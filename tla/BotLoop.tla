------------------------------ MODULE BotLoop ------------------------------
(***************************************************************************)
(* The control of createBotLoopAgent: step() with its debounce, drain,     *)
(* disclosure commit and round, the rest tool that waits inside a round,   *)
(* decideLoopPolicy, the waits between steps, autonomy discovery with its  *)
(* rotating directions and behavioral reset, and stop().                   *)
(*                                                                         *)
(* The event queue is the set of kinds of event it holds: "private" (a     *)
(* private message or a mention: it leaves the mailbox pending),           *)
(* "interrupt" (a schedule or a finished background task), "passive" (a    *)
(* group message) and "wake" (stop()).  What the language model answers    *)
(* and what its tools report is any Outcome.                               *)
(***************************************************************************)
EXTENDS LoopPolicy, FiniteSets

CONSTANTS
    Kinds,      \* kinds of event that are posted, of Messages and "interrupt"
    Directions, \* AUTONOMY_DISCOVERY_DIRECTIONS.length
    MaxFaults   \* bound: commits, rounds and compactions that throw

ASSUME KindsAssumption == Kinds \subseteq {"private", "passive", "interrupt"}
ASSUME LoopAssumption == Directions \in Nat \ {0} /\ MaxFaults \in Nat

VARIABLES
    place,         \* where the loop is; "idle" before start()
    queue,         \* kinds of event in the queue
    stopRequested,
    blank,         \* the context has no message yet
    pending,       \* hasPendingMailboxAttention of the context
    drained,       \* kinds drained by the running step
    shown,         \* kinds it disclosed
    rested,        \* the running round's rest: "no", "cut", "slept"
    corrections,   \* recoverableToolCorrectionRounds
    stalled,       \* noProgressRounds
    nudged,        \* attentionCorrectionIssued
    corrected,     \* assistantTextOnlyCorrectionIssued
    shortWork,     \* shortWorkContinuationPending
    exploring,     \* autonomyDiscoveryActive
    tickDue,       \* autonomyDiscoveryPromptPending
    direction,     \* autonomyDiscoveryDirectionIndex, modulo Directions
    failed,        \* failedAutonomyDirections, up to Directions
    tried,         \* history: directions begun since failed was last reset
    prompted,      \* history: the tick of the running discovery is committed
    barren,        \* history: rounds in a row that nothing asked for and that brought nothing
    faults

mailbox == <<queue, drained, shown, pending, blank>>
policy == <<corrections, stalled, nudged, corrected, shortWork>>
discovery == <<exploring, tickDue, direction, failed, tried, prompted>>
loopVars == <<place, mailbox, stopRequested, rested, policy, discovery, barren, faults>>

MessageKinds == {"private", "passive"}
Waits == {"waitEvent", "waitAttention"}
Awaits == Waits \cup {"top", "debounce", "commit", "round", "resting", "nudge", "reset", "backoff"}
Places == Awaits \cup {"idle", "stopped"}

(* isAttentionEvent                                                        *)
HasAttention(events) == events \cap {"private", "interrupt", "wake"} # {}

LoopInit ==
    /\ place = "idle" /\ queue = {} /\ stopRequested = FALSE
    /\ blank \in BOOLEAN /\ pending \in BOOLEAN /\ (blank => ~pending)
    /\ drained = {} /\ shown = {} /\ rested = "no"
    /\ corrections = 0 /\ stalled = 0
    /\ nudged = FALSE /\ corrected = FALSE /\ shortWork = FALSE
    /\ exploring = FALSE /\ tickDue = FALSE /\ direction = 0 /\ failed = 0
    /\ tried = {} /\ prompted = FALSE
    /\ barren = 0
    /\ faults = 0

Fault == faults < MaxFaults /\ faults' = faults + 1

(* An error leaves runOnce; the loop logs it and backs off.                 *)
Throws == Fault /\ place' = "backoff"

-----------------------------------------------------------------------------
(* start(), stop() and the producers of events.                            *)

StartLoop ==
    /\ place = "idle"
    /\ place' = "top" /\ stopRequested' = FALSE
    /\ UNCHANGED <<mailbox, rested, policy, discovery, barren, faults>>

(* Seeded fault: stop() does not wake the loop.                            *)
StopWithoutWake == stopRequested' = TRUE /\ UNCHANGED queue
(* Seeded fault: stop() only wakes the loop.                                *)
StopWithoutFlag == queue' = queue \cup {"wake"} /\ UNCHANGED stopRequested
StopLoop ==
    /\ stopRequested' = TRUE
    /\ queue' = queue \cup {"wake"}

Post(k) ==
    /\ queue' = queue \cup {k}
    /\ UNCHANGED <<place, drained, shown, pending, blank, stopRequested, rested, policy, discovery,
                   barren, faults>>

-----------------------------------------------------------------------------
(* Autonomy discovery.                                                     *)

Advance ==
    /\ tried' = tried \cup {direction}
    /\ direction' = (direction + 1) % Directions

BeginDiscovery ==
    /\ exploring' = TRUE /\ tickDue' = TRUE /\ prompted' = FALSE
    /\ Advance /\ UNCHANGED failed

EndDiscovery == exploring' = FALSE /\ tickDue' = FALSE /\ prompted' = FALSE

ForgetFailures == failed' = 0 /\ tried' = {}
KeepFailures == UNCHANGED <<failed, tried>>

-----------------------------------------------------------------------------
(* step(): debounce, drain, disclosure commit.                             *)

LoopEnds ==
    /\ place = "top" /\ stopRequested
    /\ place' = "stopped"
    /\ UNCHANGED <<mailbox, stopRequested, rested, policy, discovery, barren, faults>>

Debounce ==
    /\ place = "top" /\ ~stopRequested /\ queue # {}
    /\ place' = "debounce"
    /\ UNCHANGED <<mailbox, stopRequested, rested, policy, discovery, barren, faults>>

(* A drained event ends the discovery and forgives what went before.        *)
Welcome ==
    /\ EndDiscovery /\ ForgetFailures /\ UNCHANGED direction
    /\ stalled' = 0 /\ corrected' = FALSE
    /\ barren' = 0

(* A message whose row was disclosed before is drained but not shown.  The  *)
(* bootstrap and the discovery's tick are staged with the disclosures; a    *)
(* step that stages nothing goes on with the round at once; with an empty    *)
(* context, which only a stopping loop leaves empty, the policy says stop.   *)
Drain ==
    /\ place = "debounce" \/ (place = "top" /\ ~stopRequested /\ queue = {})
    /\ drained' = queue /\ queue' = {}
    /\ \E skipped \in SUBSET (queue \cap MessageKinds) : shown' = queue \ (skipped \cup {"wake"})
    /\ LET bootstrap == ~stopRequested /\ blank
           tick == ~stopRequested /\ exploring /\ tickDue /\ queue = {}
           staged == shown' # {} \/ bootstrap \/ tick
       IN /\ place' = CASE staged -> "commit"
                     [] ~staged /\ ~blank -> "round"
                     [] OTHER -> "top"
          /\ IF queue # {} THEN Welcome
             ELSE /\ tickDue' = (tickDue /\ ~tick)
                  /\ KeepFailures
                  /\ UNCHANGED <<exploring, prompted, direction, stalled, corrected, barren>>
    /\ UNCHANGED <<pending, blank, stopRequested, rested, corrections, nudged, shortWork, faults>>

CommitDone ==
    /\ place = "commit"
    /\ place' = "round"
    /\ blank' = FALSE
    /\ pending' = (pending \/ "private" \in shown)
    /\ prompted' = exploring
    /\ UNCHANGED <<queue, drained, shown, stopRequested, rested, policy, exploring, tickDue,
                   direction, failed, tried, barren, faults>>

(* Seeded fault: the drained events are dropped.                            *)
EventsDropped == UNCHANGED queue
Requeue == queue' = queue \cup drained

(* Seeded fault: the tick stays marked as given.                            *)
TickForgotten == UNCHANGED tickDue
(* While exploring the tick is all that is ever staged: it is due again.    *)
TickDueAgain == tickDue' = exploring

CommitFails ==
    /\ place = "commit" /\ Throws
    /\ Requeue
    /\ drained' = {} /\ shown' = {}
    /\ TickDueAgain
    /\ UNCHANGED <<pending, blank, stopRequested, rested, policy, exploring, prompted, direction,
                   failed, tried, barren>>

-----------------------------------------------------------------------------
(* The round.  A rest is a tool call that waits inside it; the discovery's  *)
(* executor refuses it.  One rest stands for those of the round.            *)

RestStarts ==
    /\ place = "round" /\ rested = "no" /\ ~exploring
    /\ place' = "resting"
    /\ UNCHANGED <<mailbox, stopRequested, rested, policy, discovery, barren, faults>>

RestEnds ==
    /\ place = "resting"
    /\ place' = "round"
    /\ rested' = IF HasAttention(queue) THEN "cut" ELSE "slept"
    /\ UNCHANGED <<mailbox, stopRequested, policy, discovery, barren, faults>>

(* What a round can report.  A failed help call counts as recoverable.      *)
Outcomes ==
    {o \in [kind : {"tools", "text", "silent"}, recoverable : BOOLEAN, onlyHelp : BOOLEAN,
            progress : BOOLEAN, work : BOOLEAN, read : BOOLEAN, continuation : Continuations] :
       /\ o.kind # "tools" => /\ ~(o.recoverable \/ o.onlyHelp \/ o.progress \/ o.work \/ o.read)
                              /\ o.continuation = "none"
       /\ o.recoverable => o.continuation # "none"
       /\ o.onlyHelp => ~o.recoverable /\ ~o.work /\ ~o.read}

(* A rest reports "immediate"; only a "stop" of another call outranks that.  *)
Reports(o) ==
    rested # "no" => o.kind = "tools" /\ ~o.onlyHelp /\ o.continuation \in {"stop", "immediate"}

(* The demand the round leaves: pending attention first, then whatever      *)
(* asks for one more round.                                                *)
Demand(o) ==
    IF pending' THEN "attention"
    ELSE IF \/ HasAttention(drained) /\ shown # {}
            \/ o.kind = "text" /\ ~corrected
            \/ shortWork \/ o.work
         THEN "continuation" ELSE "none"

Settle(o) ==
    DecideLoopPolicy([ranRound |-> TRUE, stopRequested |-> stopRequested, toolCalls |-> o.kind = "tools",
            demand |-> Demand(o), recoverable |-> o.recoverable, onlyHelp |-> o.onlyHelp,
            progress |-> o.progress \/ rested = "slept", continuation |-> o.continuation,
            corrections |-> corrections, stalled |-> stalled])

(* The discovery after a round: a rest that elapsed begins one, progress    *)
(* ends it, a wait ends it unless a reset comes first.  A direction fails   *)
(* when its discovery runs into the limit.                                  *)
Exploring(o, decision, fails, resets) ==
    LET waits == decision.action = "wait_event" /\ ~resets
    IN CASE rested = "slept" ->
              /\ exploring' = ~waits /\ tickDue' = ~waits /\ prompted' = FALSE
              /\ Advance /\ UNCHANGED failed
         [] rested # "slept" /\ fails ->
              /\ IF waits THEN EndDiscovery ELSE UNCHANGED <<exploring, tickDue, prompted>>
              /\ failed' = IF resets THEN Directions ELSE failed + 1
              /\ UNCHANGED <<direction, tried>>
         [] OTHER ->
              /\ IF waits \/ (exploring /\ o.progress) THEN EndDiscovery
                 ELSE UNCHANGED <<exploring, tickDue, prompted>>
              /\ IF o.progress THEN ForgetFailures ELSE KeepFailures
              /\ UNCHANGED direction

IsBarren(o, decision) ==
    /\ decision.action = "continue" /\ Demand(o) = "none"
    /\ ~o.progress /\ rested # "slept"

RoundEnds(o) ==
    /\ place = "round" /\ Reports(o)
    /\ pending' = (pending /\ ~o.read)
    /\ \E decision \in {Settle(o)} :
       LET fails == exploring /\ decision.reason = "no_progress_limit"
           resets == fails /\ failed + 1 >= Directions
       IN /\ place' = CASE decision.action = "stop" -> "top"
                     [] decision.action = "wait_attention" -> "waitAttention"
                     [] decision.action = "wait_event" -> IF resets THEN "reset" ELSE "waitEvent"
                     [] decision.action = "continue" ->
                          IF decision.reason = "attention_pending" /\ ~nudged THEN "nudge" ELSE "top"
          /\ corrections' = decision.corrections
          /\ stalled' = IF rested = "slept" THEN 0 ELSE decision.stalled
          /\ corrected' = (o.kind = "text")
          /\ nudged' = (nudged /\ Demand(o) = "attention")
          /\ Exploring(o, decision, fails, resets)
          /\ barren' = IF IsBarren(o, decision) THEN barren + 1 ELSE 0
    /\ shortWork' = o.work
    /\ drained' = {} /\ shown' = {} /\ rested' = "no"
    /\ UNCHANGED <<queue, blank, stopRequested, faults>>

(* The model fails, or a commit after it; inbox reads may be committed.     *)
RoundFails ==
    /\ place = "round" /\ Throws
    /\ \E read \in BOOLEAN : pending' = (pending /\ ~read)
    /\ drained' = {} /\ shown' = {} /\ rested' = "no"
    /\ UNCHANGED <<queue, blank, stopRequested, policy, discovery, barren>>

-----------------------------------------------------------------------------
(* What follows the decision.                                              *)

(* The attention correction is committed once per stretch of attention.     *)
Nudge ==
    /\ place = "nudge"
    /\ place' = "top" /\ nudged' = TRUE
    /\ UNCHANGED <<mailbox, stopRequested, rested, corrections, stalled, corrected, shortWork,
                   discovery, barren, faults>>

(* The behavioral reset: the compaction may also be skipped.                *)
Reset ==
    /\ place = "reset"
    /\ place' = "waitEvent"
    /\ EndDiscovery /\ UNCHANGED direction
    /\ ForgetFailures \/ KeepFailures
    /\ UNCHANGED <<mailbox, stopRequested, rested, policy, barren, faults>>

AfterRoundFails ==
    /\ place \in {"nudge", "reset"} /\ Throws
    /\ UNCHANGED <<mailbox, stopRequested, rested, policy, discovery, barren>>

(* waitForEventOrTimeout: any event ends it; the timeout begins a discovery. *)
WaitEventEnds ==
    /\ place = "waitEvent"
    /\ place' = "top"
    /\ IF queue = {} /\ ~stopRequested
       THEN BeginDiscovery /\ stalled' = 0 /\ corrected' = FALSE
       ELSE UNCHANGED <<discovery, stalled, corrected>>
    /\ UNCHANGED <<mailbox, stopRequested, rested, corrections, nudged, shortWork, barren, faults>>

(* waitForAttentionOrTimeout, and the sleep after an error.                 *)
PauseEnds ==
    /\ place \in {"waitAttention", "backoff"}
    /\ place' = "top"
    /\ UNCHANGED <<mailbox, stopRequested, rested, policy, discovery, barren, faults>>

-----------------------------------------------------------------------------
LoopStep ==
    \/ LoopEnds \/ Debounce \/ Drain \/ CommitDone
    \/ RestStarts \/ RestEnds \/ (\E o \in Outcomes : RoundEnds(o))
    \/ Nudge \/ Reset \/ WaitEventEnds \/ PauseEnds
LoopFailure == CommitFails \/ RoundFails \/ AfterRoundFails

-----------------------------------------------------------------------------
(* Properties.                                                             *)

(* Every variable of the loop has its type.                                 *)
LoopTypeOK ==
    /\ place \in Places
    /\ queue \subseteq Kinds \cup {"wake"} /\ drained \subseteq Kinds \cup {"wake"}
    /\ shown \subseteq drained
    /\ stopRequested \in BOOLEAN /\ blank \in BOOLEAN /\ pending \in BOOLEAN
    /\ rested \in {"no", "cut", "slept"}
    /\ corrections \in 0..MaxCorrections /\ stalled \in 0..(MaxNoProgress - 1)
    /\ nudged \in BOOLEAN /\ corrected \in BOOLEAN /\ shortWork \in BOOLEAN
    /\ exploring \in BOOLEAN /\ tickDue \in BOOLEAN /\ prompted \in BOOLEAN
    /\ direction \in 0..(Directions - 1) /\ failed \in 0..Directions
    /\ tried \subseteq 0..(Directions - 1)
    /\ barren \in Nat
    /\ faults \in 0..MaxFaults

(* A stop request is never lost by a wait between rounds: whatever the       *)
(* order of stop(), the drain and the decision, the wake is still queued     *)
(* when the loop waits, so that the wait ends at once.                      *)
StopWakesEveryWait == stopRequested /\ place \in Waits => "wake" \in queue

(* The loop does not park over a pending private message or mention, also    *)
(* one disclosed many rounds or a failed round ago.                         *)
PendingNeverParks == place \in Waits \cup {"reset"} => ~pending

(* A wait leaves behind neither a stop request nor a conversation that is   *)
(* owed an answer.                                                         *)
WaitsLeaveNothing == StopWakesEveryWait /\ PendingNeverParks

(* No round runs as a discovery's before the discovery's own tick is in the  *)
(* ledger, also when the tick's commit failed or a round failed meanwhile.   *)
DiscoveryIsPrompted == place = "round" /\ exploring => prompted

(* The behavioral reset rewrites the context only after every direction was  *)
(* begun since the last progress, event or reset.                           *)
ResetTriedEveryDirection == place = "reset" => tried = 0..(Directions - 1)

(* The loop cannot spin: of the tool rounds that nothing demands and that    *)
(* bring no progress, corrections and help calls included, at most           *)
(* MaxNoProgress times (MaxCorrections + 1), less one, follow each other     *)
(* without a wait.                                                          *)
BarrenToolRoundsAreFew == barren < MaxNoProgress * (MaxCorrections + 1)

(* A discovery is begun in the ledger and given up only after all its        *)
(* directions, and what makes no progress comes to an end.                  *)
DiscoveryRunsItsCourse == DiscoveryIsPrompted /\ ResetTriedEveryDirection /\ BarrenToolRoundsAreFew

(* A wait leaves nothing behind, and a discovery runs its course.           *)
LoopInv == WaitsLeaveNothing /\ DiscoveryRunsItsCourse

(* A stop request interrupts a rest: the resting tool has an attention event *)
(* in the queue as soon as stop() was called.                               *)
StopEndsRest == stopRequested /\ place = "resting" => HasAttention(queue)

(* An event that is queued reaches a round, unless the loop ends: no         *)
(* debounce, requeue, rest or wait keeps it for ever.                       *)
EveryEventReachesARound ==
    \A k \in Kinds : k \in queue ~> (place = "round" /\ k \in drained) \/ place \in {"idle", "stopped"}
=============================================================================
