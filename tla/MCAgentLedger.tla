--------------------------- MODULE MCAgentLedger ---------------------------
(* Batches for model checking AgentLedger: a disclosed user message, and a *)
(* round with one tool call and its result.                                *)
EXTENDS AgentLedger, TLC

CoreSymmetry == Permutations(Cores)

MCBatches ==
    { << [role |-> "user", answers |-> 0] >>,
      << [role |-> "assistant", answers |-> 0], [role |-> "tool", answers |-> 1] >> }
MCBatches3 ==
    MCBatches \cup
    { << [role |-> "assistant", answers |-> 0], [role |-> "tool", answers |-> 1],
         [role |-> "tool", answers |-> 1], [role |-> "user", answers |-> 0] >> }
=============================================================================
