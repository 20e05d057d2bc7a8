------------------------------ MODULE ToolRound ------------------------------
(***************************************************************************)
(* One round of the model with its tools (agent/react-kernel.ts and        *)
(* agent/tool.ts): the completion with its one retry on a larger output    *)
(* budget, the batches its tool calls are cut into, the executor's stages  *)
(* of a call, and the answers, effects and outcomes the round returns.    *)
(*                                                                         *)
(* What a call's class is, and what it runs, is in ToolAccess.              *)
(***************************************************************************)
EXTENDS ToolAccess

CONSTANTS
    Offered,      \* bound: the calls a completion may hold
    MaxCalls      \* bound: how many

ASSUME CallBoundAssumption == MaxCalls \in Nat /\ Offered \subseteq ToolCall

VARIABLES
    roundPhase,   \* "llm", "tools", "done", "failed"
    completions,  \* number of completions taken from the model
    calls,        \* tool calls of the last completion
    cursor,       \* first call of the current batch
    batchEnd,     \* its last call, 0 between batches
    stage,        \* executor stage of each call of the batch
    result,       \* its result
    performed,    \* calls whose tool acted, a fact about the world
    answers,     \* messagesToAppend, as the indexes of the calls answered
    effects,      \* the calls whose effects the round returns
    effectsLost   \* the round threw after a tool had acted

roundVars == <<roundPhase, completions, calls, cursor, batchEnd, stage, result, performed,
               answers, effects, effectsLost>>

Stages == {"idle", "hooks", "running", "after", "settled"}

(* Result kinds, with the ok and progress flags of their outcome.          *)
Ok == [kind |-> "ok", ok |-> TRUE, progress |-> TRUE]
Observed == [kind |-> "unchanged", ok |-> TRUE, progress |-> FALSE]
Refused(kind) == [kind |-> kind, ok |-> FALSE, progress |-> FALSE]
NoResult == Refused("none")

RoundInit ==
    /\ roundPhase = "llm" /\ completions = 0
    /\ calls = <<>> /\ cursor = 1 /\ batchEnd = 0
    /\ stage = <<>> /\ result = <<>>
    /\ performed = {}
    /\ answers = <<>> /\ effects = <<>>
    /\ effectsLost = FALSE

-----------------------------------------------------------------------------
(* The completion.                                                         *)

(* runReactRound throws: no message, no effect, no outcome is returned.    *)
RoundThrows ==
    /\ roundPhase' = "failed"
    /\ effectsLost' = (performed # {})
    /\ UNCHANGED <<completions, calls, cursor, batchEnd, stage, result, performed, answers, effects>>

(* A rejected call, an exhausted window, or output cut off once more after *)
(* the escalated budget.                                                   *)
CompletionFails ==
    /\ roundPhase = "llm"
    /\ RoundThrows

(* Output cut off: the same request again with a larger budget, once.      *)
Escalate ==
    /\ roundPhase = "llm" /\ completions = 0
    /\ completions' = 1
    /\ UNCHANGED <<roundPhase, calls, cursor, batchEnd, stage, result, performed, answers,
                   effects, effectsLost>>

(* Any other stop reason, or none, as when the stream just ends, is taken    *)
(* for a whole completion.                                                 *)
Complete(wanted) ==
    /\ roundPhase = "llm"
    /\ completions' = completions + 1
    /\ calls' = wanted
    /\ stage' = [i \in 1..Len(wanted) |-> "idle"]
    /\ result' = [i \in 1..Len(wanted) |-> NoResult]
    /\ roundPhase' = IF wanted = <<>> THEN "done" ELSE "tools"
    /\ UNCHANGED <<cursor, batchEnd, performed, answers, effects, effectsLost>>

-----------------------------------------------------------------------------
(* Batches.                                                                *)

ParallelSafe(i) == Classify(calls[i]) = "parallel"

(* Seeded fault: one call of another class may follow in the batch.        *)
BatchOverruns(from) ==
    CHOOSE to \in from..Len(calls) :
        /\ \A i \in from..(to - 1) : ParallelSafe(i)
        /\ to < Len(calls) => ~ParallelSafe(to)
(* takeParallelSafeBatch: as many parallel calls as follow one another, or *)
(* one exclusive call.                                                     *)
BatchLast(from) ==
    IF ~ParallelSafe(from) THEN from
    ELSE CHOOSE to \in from..Len(calls) :
            /\ \A i \in from..to : ParallelSafe(i)
            /\ to < Len(calls) => ~ParallelSafe(to + 1)

InBatch == IF batchEnd = 0 THEN {} ELSE cursor..batchEnd

TakeBatch ==
    /\ roundPhase = "tools" /\ batchEnd = 0 /\ cursor <= Len(calls)
    /\ batchEnd' = BatchLast(cursor)
    /\ stage' = [i \in DOMAIN stage |-> IF i \in cursor..BatchLast(cursor) THEN "hooks" ELSE stage[i]]
    /\ UNCHANGED <<roundPhase, completions, calls, cursor, result, performed, answers, effects,
                   effectsLost>>

(* The executor answers a call without running its tool: unknown tool,     *)
(* invalid arguments, a hook that blocks or fails.                         *)
Settle(i, r) ==
    /\ stage' = [stage EXCEPT ![i] = "settled"]
    /\ result' = [result EXCEPT ![i] = r]
    /\ UNCHANGED <<roundPhase, completions, calls, cursor, batchEnd, answers, effects, effectsLost>>

Runs(i) == Found(calls[i]).refused = "none"

RefuseCall(i) ==
    /\ i \in InBatch /\ stage[i] = "hooks"
    /\ \E kind \in IF Runs(i) THEN {"blocked", "hook_failed"} ELSE {Found(calls[i]).refused} :
          Settle(i, Refused(kind))
    /\ UNCHANGED performed

RunTool(i) ==
    /\ i \in InBatch /\ stage[i] = "hooks"
    /\ Runs(i)
    /\ stage' = [stage EXCEPT ![i] = "running"]
    /\ UNCHANGED <<roundPhase, completions, calls, cursor, batchEnd, result, performed, answers,
                   effects, effectsLost>>

(* The tool returns; it has acted or only observed.                        *)
ToolReturns(i, r) ==
    /\ i \in InBatch /\ stage[i] = "running"
    /\ stage' = [stage EXCEPT ![i] = "after"]
    /\ result' = [result EXCEPT ![i] = r]
    /\ performed' = IF r = Ok THEN performed \cup {i} ELSE performed
    /\ UNCHANGED <<roundPhase, completions, calls, cursor, batchEnd, answers, effects, effectsLost>>

ToolThrows(i) ==
    /\ i \in InBatch /\ stage[i] = "running"
    /\ Settle(i, Refused("execution_failed"))
    /\ UNCHANGED performed

(* afterTool hooks and the audit line; an error of either is only logged.  *)
AfterHooks(i) ==
    /\ i \in InBatch /\ stage[i] = "after"
    /\ Settle(i, result[i])
    /\ UNCHANGED performed

BatchSettled == batchEnd # 0 /\ \A i \in InBatch : stage[i] = "settled"

(* The results of a batch are collected in call order, whatever order they *)
(* arrived in; the last batch ends the round.  A set of calls has one      *)
(* ascending listing.                                                      *)
InCallOrder(S) ==
    {s \in [1..Cardinality(S) -> S] :
        /\ \A i, j \in 1..Cardinality(S) : i < j => s[i] < s[j]
        /\ S = {s[i] : i \in 1..Cardinality(S)}}
CollectBatch ==
    /\ roundPhase = "tools" /\ BatchSettled
    /\ \E answered \in InCallOrder(InBatch) : answers' = answers \o answered
    /\ \E done \in InCallOrder({i \in InBatch : result[i] = Ok}) : effects' = effects \o done
    /\ cursor' = batchEnd + 1
    /\ batchEnd' = 0
    /\ roundPhase' = IF batchEnd = Len(calls) THEN "done" ELSE "tools"
    /\ UNCHANGED <<completions, calls, stage, result, performed, effectsLost>>

MayShow(i) == ShowsPicture(Found(calls[i]))

(* An image of a result is stored before the message is returned; when     *)
(* that fails the whole round throws.                                      *)
ImageNotStored ==
    /\ roundPhase = "tools" /\ BatchSettled
    /\ \E i \in InBatch : MayShow(i) /\ result[i].ok
    /\ RoundThrows

RoundNext ==
    \/ CompletionFails
    \/ Escalate
    \/ \E wanted \in BoundedSeq(Offered, MaxCalls) : Complete(wanted)
    \/ TakeBatch
    \/ \E i \in 1..Len(calls) :
          \/ RefuseCall(i)
          \/ RunTool(i)
          \/ \E r \in {Ok, Observed, Refused("failed")} : ToolReturns(i, r)
          \/ ToolThrows(i)
          \/ AfterHooks(i)
    \/ CollectBatch
    \/ ImageNotStored

RoundSpec == RoundInit /\ [][RoundNext]_roundVars

-----------------------------------------------------------------------------
(* Properties.                                                             *)

Started(i) == stage[i] \in {"running", "after"}

(* A call that is not parallel runs alone and in its place: while it runs  *)
(* no other call does, every call before it has its result and none after  *)
(* it has begun.                                                           *)
ExclusiveCallsRunAlone ==
    \A i \in 1..Len(stage) : Started(i) /\ ~ParallelSafe(i) =>
        \A j \in 1..Len(stage) :
            stage[j] = (IF j < i THEN "settled" ELSE IF j > i THEN "idle" ELSE stage[i])

(* A tool that acts runs alone, whatever way its call was wrapped and        *)
(* whatever arguments it was classified by: nothing that runs beside another *)
(* call changes what others see.                                           *)
ActingCallsRunAlone ==
    \A i \in 1..Len(stage) : Started(i) /\ Acts(Found(calls[i])) =>
        \A j \in 1..Len(stage) \ {i} : stage[j] = (IF j < i THEN "settled" ELSE "idle")

(* What a round returns is what it did: every call of the completion is    *)
(* answered once, in call order, the effects are those of the tools that   *)
(* acted, in that order, and a round that threw returns nothing, having    *)
(* acted only if an image could not be stored.                             *)
RoundReportsWhatItDid ==
    /\ roundPhase = "done" =>
          /\ answers \in InCallOrder(1..Len(calls))
          /\ effects \in InCallOrder(performed)
          /\ \A i \in 1..Len(calls) : result[i].ok => Runs(i)
    /\ effectsLost => \E i \in 1..Len(calls) : MayShow(i) /\ result[i].ok
    /\ completions <= 2

RoundTypeOK ==
    /\ roundPhase \in {"llm", "tools", "done", "failed"}
    /\ stage \in [1..Len(calls) -> Stages]
    /\ cursor \in 1..(Len(calls) + 1) /\ batchEnd \in 0..Len(calls)

(* The round is well formed, keeps exclusive and acting calls apart, and     *)
(* reports what it did.                                                    *)
RoundInv == RoundTypeOK /\ ExclusiveCallsRunAlone /\ ActingCallsRunAlone /\ RoundReportsWhatItDid
=============================================================================
