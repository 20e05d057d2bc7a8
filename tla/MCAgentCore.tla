------------------------------ MODULE MCAgentCore ------------------------------
(* One Agent Core: what it keeps on disk, and the life of its process with   *)
(* the loop inside.  Of the stores the loop sees only that a commit         *)
(* succeeds or fails, so a behaviour exercises the stores or the process,   *)
(* chosen at its start, while the other stays as it is.                     *)
EXTENDS MCDurableStores, AgentLifecycle

VARIABLE part \* what this behaviour exercises

coreVars == <<storeVars, lifecycleVars, part>>

CoreInit ==
    /\ part \in {"stores", "process"}
    /\ StoresInit /\ LifecycleInit
    /\ part = "process" => store = "ledger"
    /\ part = "stores" => blank

InStores(A) == part = "stores" /\ A /\ UNCHANGED <<lifecycleVars, part>>
InProcess(A) == part = "process" /\ A /\ UNCHANGED <<storeVars, part>>

CoreNext == InStores(StoresNext) \/ InProcess(LifecycleNext)

(* Whoever holds the lock of a memory file finishes its write, a review that *)
(* was asked for starts, and each of its stages ends: model calls by a time   *)
(* limit, the wait for the lock because its promise chain serves in order.    *)
(* In the process, main() and the shutdown keep running, and no await of the *)
(* loop lasts for ever, as each has a limit of time or a step without a     *)
(* condition that ends it.  Calls, signals, events and failures come as they *)
(* please.                                                                 *)
CoreSpec ==
    /\ CoreInit /\ [][CoreNext]_coreVars
    /\ \A who \in {"agent", "review"} : []<>(lockedBy # who)
    /\ \A stage \in {"started", "inspected", "decided"} : []<>(review # stage)
    /\ []<>(review # "idle" \/ ~reviewAsked)
    /\ WF_coreVars(InProcess(Main)) /\ WF_coreVars(InProcess(Shutdown))
    /\ \A p \in Awaits : []<>(place # p)
=============================================================================
