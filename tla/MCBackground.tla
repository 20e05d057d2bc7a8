---------------------------- MODULE MCBackground ----------------------------
(* What runs beside the Agent's rounds: the scheduled wakes, the task       *)
(* scheduler, the background tasks that use one, the media service's job    *)
(* queue, the resets an operator runs from WebAdmin, and the supervisor of  *)
(* the whole platform.  A behaviour exercises one of them, chosen at its    *)
(* start, and each states its own fairness.                                 *)
EXTENDS ScheduleWakes, BackgroundTasks, JobQueue, StateReset, Platform

VARIABLE part \* what this behaviour exercises

backVars == <<vars, backgroundVars, queueVars, resetVars, platformVars, part>>

MCConcurrency == [l \in 1..LaneCount |-> l]

BackInit ==
    /\ part \in {"wakes", "lanes", "tasks", "queue", "reset", "platform"}
    /\ Init /\ BackgroundInit /\ QueueInit /\ ResetInit /\ PlatformInit

InWakes(A) == part = "wakes" /\ A /\ UNCHANGED <<backgroundVars, queueVars, resetVars, platformVars, part>>
InLanes(A) == part = "lanes" /\ A /\ UNCHANGED <<vars, taskVars, queueVars, resetVars, platformVars, part>>
InTasks(A) == part = "tasks" /\ A /\ UNCHANGED <<vars, queueVars, resetVars, platformVars, part>>
InQueue(A) == part = "queue" /\ A /\ UNCHANGED <<vars, backgroundVars, resetVars, platformVars, part>>
InReset(A) == part = "reset" /\ A /\ UNCHANGED <<vars, backgroundVars, queueVars, platformVars, part>>
InPlatform(A) == part = "platform" /\ A /\ UNCHANGED <<vars, backgroundVars, queueVars, resetVars, part>>

BackNext ==
    \/ InWakes(Next)
    \/ InLanes(SchedulerNext)
    \/ InTasks(BackgroundNext)
    \/ InQueue(QueueNext)
    \/ InReset(ResetNext)
    \/ InPlatform(PlatformNext)

BackSpec ==
    /\ BackInit /\ [][BackNext]_backVars
    /\ WF_backVars(InWakes(Startup)) /\ WF_backVars(InWakes(\E i \in Ids : Tick(i)))
    /\ WF_backVars(InWakes(Timer)) /\ WF_backVars(InWakes(Mutation))
    /\ WF_backVars(InWakes(Loop))
    /\ \A t \in Tasks : WF_backVars(InTasks(WorkEnds(t)))
    /\ \A j \in JobIds : WF_backVars(InTasks(\E ok \in BOOLEAN : SettleFetch(j, ok)))
    /\ \A n \in Notice : WF_backVars(InTasks(Tell(n)))
    /\ WF_backVars(InQueue(TickQueue))
    /\ WF_backVars(InQueue(HandlerReturns \/ HandlerThrows))
    /\ \A j \in Queued : WF_backVars(InQueue(RetryComesBack(j)))

(* What an operator does beside the Agent is orderly: the resets of        *)
(* WebAdmin and the supervisor of the platform.                            *)
OperationsInv == ResetInv /\ PlatformInv
=============================================================================
