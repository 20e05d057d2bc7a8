----------------------------- MODULE LoopPolicy -----------------------------
(***************************************************************************)
(* decideLoopPolicy: what the Agent's loop does after a step, and the two  *)
(* counters it keeps between steps.                                        *)
(***************************************************************************)
EXTENDS Integers

CONSTANTS
    MaxCorrections, \* MAX_RECOVERABLE_TOOL_CORRECTION_ROUNDS
    MaxNoProgress   \* MAX_NO_PROGRESS_ROUNDS

ASSUME PolicyAssumption == MaxCorrections \in Nat /\ MaxNoProgress \in Nat \ {0}

Demands == {"none", "continuation", "attention"}
Continuations == {"none", "immediate", "wait_attention", "wait_event", "backoff", "stop"}

Decision(action, reason, corrections, stalled) ==
    [action |-> action, reason |-> reason, corrections |-> corrections, stalled |-> stalled]

(* Seeded fault: the limit is exceeded by one.                              *)
StallOnceMore(reason, corrections, stalled) ==
    IF stalled + 1 > MaxNoProgress
    THEN Decision("wait_event", "no_progress_limit", corrections, 0)
    ELSE Decision("continue", reason, corrections, stalled + 1)
(* A round without progress: the limit parks the loop.                      *)
Stall(reason, corrections, stalled) ==
    IF stalled + 1 >= MaxNoProgress
    THEN Decision("wait_event", "no_progress_limit", corrections, 0)
    ELSE Decision("continue", reason, corrections, stalled + 1)

(* The round called tools and nothing demands attention.                    *)
AfterTools(in) ==
    LET correcting == in.recoverable \/ (in.corrections > 0 /\ in.onlyHelp)
        corrections == IF in.recoverable \/ in.onlyHelp THEN in.corrections ELSE 0
    IN CASE correcting /\ in.corrections < MaxCorrections ->
              Decision("continue", "recoverable_tool_correction", in.corrections + 1, in.stalled)
         [] OTHER ->
         CASE in.continuation = "wait_event" ->
                Decision("wait_event", "tool_external_started", 0, 0)
           [] in.continuation \in {"stop", "wait_attention"} ->
                Decision("wait_event", "tool_direction_complete", corrections, 0)
           [] in.continuation = "backoff" ->
                Decision("wait_attention", "tool_backoff", corrections, in.stalled)
           [] in.continuation \in {"none", "immediate"} /\ in.progress ->
                Decision("continue",
                         IF in.continuation = "immediate" THEN "tool_immediate" ELSE "tool_progress",
                         corrections, 0)
           [] in.continuation = "immediate" /\ ~in.progress ->
                Stall("tool_immediate", corrections, in.stalled)
           [] in.continuation = "none" /\ ~in.progress /\ in.demand = "continuation" ->
                Decision("continue", "action_correction", corrections, 0)
           [] in.continuation = "none" /\ ~in.progress /\ in.demand # "continuation" ->
                Stall("tool_no_progress", corrections, in.stalled)

(* What the loop does after a step; the arguments are LoopPolicyInput's.     *)
DecideLoopPolicy(in) ==
    CASE in.stopRequested -> Decision("stop", "stop", in.corrections, in.stalled)
      [] ~in.stopRequested /\ ~in.ranRound ->
           Decision("wait_event", "no_actionable_context", in.corrections, 0)
      [] ~in.stopRequested /\ in.ranRound /\ in.demand = "attention" ->
           Decision("continue", "attention_pending", in.corrections, 0)
      [] ~in.stopRequested /\ in.ranRound /\ in.demand # "attention" /\ in.toolCalls ->
           AfterTools(in)
      [] ~in.stopRequested /\ in.ranRound /\ in.demand = "continuation" /\ ~in.toolCalls ->
           Decision("continue", "action_correction", in.corrections, 0)
      [] OTHER -> Decision("wait_event", "direction_complete", 0, 0)
=============================================================================
