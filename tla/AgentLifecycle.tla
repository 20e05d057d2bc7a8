--------------------------- MODULE AgentLifecycle ---------------------------
(***************************************************************************)
(* The life of an Agent Core process around its loop: main() (core lock,   *)
(* load, replay, runtime), createAgentStartupLifecycle, requestShutdown    *)
(* with its fallback before the runtime is ready, and the shutdown         *)
(* coordinator whose phases may time out.                                  *)
(*                                                                         *)
(* Phases that touch neither the loop nor the lock (drainIngress,          *)
(* stopJobs, saveFinal) are one step, "stopJobs".                          *)
(***************************************************************************)
EXTENDS BotLoop

CONSTANT EarlySignals \* whether a signal may come before the runtime is ready

ASSUME SignalAssumption == EarlySignals \in BOOLEAN

VARIABLES
    main,        \* what main() awaits
    coreLock,    \* the advisory lock of the core
    fallback,    \* shutdownBeforeRuntimeReady: "none", "running", "done"
    phase,       \* the shutdown coordinator's phase
    stopping,    \* stopRequested of the startup lifecycle
    timedOut     \* a phase of the coordinator timed out

process == <<main, coreLock, fallback, phase, stopping, timedOut>>
lifecycleVars == <<loopVars, process>>

LifecycleInit ==
    /\ LoopInit
    /\ main = "locking" /\ coreLock = "none"
    /\ fallback = "none" /\ phase = "none" /\ stopping = FALSE /\ timedOut = FALSE

-----------------------------------------------------------------------------
(* main()                                                                  *)

AcquireCoreLock ==
    /\ main = "locking"
    /\ main' = "booting" /\ coreLock' = "held"
    /\ UNCHANGED <<loopVars, fallback, phase, stopping, timedOut>>

(* Ledger, replay, watcher, runtime; then the coordinator exists and the     *)
(* startup lifecycle starts the background services.                        *)
Boot ==
    /\ main = "booting"
    /\ main' = "services"
    /\ UNCHANGED <<loopVars, coreLock, fallback, phase, stopping, timedOut>>

(* An error of main() requests a shutdown.                                  *)
BootFails ==
    /\ main \in {"locking", "booting"} /\ Fault
    /\ main' = "failed"
    /\ fallback' = IF fallback = "none" THEN "running" ELSE fallback
    /\ UNCHANGED <<place, mailbox, stopRequested, rested, policy, discovery, barren, coreLock, phase,
                   stopping, timedOut>>

(* start(): a stop requested meanwhile keeps the Agent from starting.       *)
StartUnlessStopped ==
    IF stopping THEN main' = "returned" /\ UNCHANGED loopVars
    ELSE main' = "agent" /\ StartLoop

ServicesReady ==
    /\ main = "services"
    /\ StartUnlessStopped
    /\ UNCHANGED <<coreLock, fallback, phase, stopping, timedOut>>

ServicesFail ==
    /\ main = "services" /\ Fault
    /\ main' = "failed"
    /\ phase' = IF phase = "none" THEN "stopAgent" ELSE phase
    /\ UNCHANGED <<place, mailbox, stopRequested, rested, policy, discovery, barren, coreLock, fallback,
                   stopping, timedOut>>

-----------------------------------------------------------------------------
(* Shutdown.                                                               *)

(* A signal; the coordinator and the fallback each run once.                *)
Signal ==
    /\ IF main \in {"locking", "booting"} \/ (main = "failed" /\ phase = "none")
       THEN /\ EarlySignals /\ fallback = "none" /\ fallback' = "running"
            /\ UNCHANGED phase
       ELSE /\ phase = "none" /\ phase' = "stopAgent"
            /\ UNCHANGED fallback
    /\ UNCHANGED <<loopVars, main, coreLock, stopping, timedOut>>

ReleaseLock == coreLock' = IF coreLock = "held" THEN "released" ELSE coreLock

(* The fallback disconnects and releases the lock; main() goes on.          *)
FallbackEnds ==
    /\ fallback = "running"
    /\ fallback' = "done"
    /\ ReleaseLock
    /\ UNCHANGED <<loopVars, main, phase, stopping, timedOut>>

(* stopAgent; the ingress was disconnected before it.                       *)
StopAgent ==
    /\ phase = "stopAgent"
    /\ phase' = "awaitAgent" /\ stopping' = TRUE
    /\ StopLoop
    /\ UNCHANGED <<place, drained, shown, pending, blank, rested, policy, discovery, barren, faults,
                   main, coreLock, fallback, timedOut>>

(* Seeded fault: the Agent is not awaited.                                  *)
AgentIsDone == TRUE
(* agentPromise is not set before the Agent starts.                         *)
AgentSettled == main = "agent" => place = "stopped"

AwaitAgent ==
    /\ phase = "awaitAgent" /\ AgentSettled
    /\ phase' = "stopJobs"
    /\ UNCHANGED <<loopVars, main, coreLock, fallback, stopping, timedOut>>

StopJobs ==
    /\ phase = "stopJobs"
    /\ phase' = "disconnectDb"
    /\ UNCHANGED <<loopVars, main, coreLock, fallback, stopping, timedOut>>

PhaseTimesOut ==
    /\ phase \in {"awaitAgent", "stopJobs"} /\ Fault
    /\ phase' = IF phase = "awaitAgent" THEN "stopJobs" ELSE "disconnectDb"
    /\ timedOut' = TRUE
    /\ UNCHANGED <<place, mailbox, stopRequested, rested, policy, discovery, barren, main, coreLock,
                   fallback, stopping>>

DisconnectDb ==
    /\ phase = "disconnectDb"
    /\ phase' = "done"
    /\ ReleaseLock
    /\ UNCHANGED <<loopVars, main, fallback, stopping, timedOut>>

-----------------------------------------------------------------------------
(* Events: the replay and the watcher queue messages until the ingress is    *)
(* disconnected; schedules and tasks queue theirs until the jobs stop.      *)
Arrive(k) ==
    /\ main \in {"booting", "services", "agent"}
    /\ phase \in (IF k \in MessageKinds THEN {"none"} ELSE {"none", "stopAgent", "awaitAgent", "stopJobs"})
    /\ k \notin queue
    /\ Post(k)
    /\ UNCHANGED process

Main == AcquireCoreLock \/ Boot \/ ServicesReady
Shutdown == FallbackEnds \/ StopAgent \/ AwaitAgent \/ StopJobs \/ DisconnectDb
Failure == BootFails \/ ServicesFail \/ PhaseTimesOut

LifecycleNext ==
    \/ Main \/ Shutdown \/ Signal \/ Failure
    \/ \E k \in Kinds : Arrive(k)
    \/ (LoopStep \/ LoopFailure) /\ UNCHANGED process

LifecycleSpec == LifecycleInit /\ [][LifecycleNext]_lifecycleVars

-----------------------------------------------------------------------------
(* Properties.                                                             *)

(* Every variable has its type.                                             *)
LifecycleTypeOK ==
    /\ LoopTypeOK
    /\ main \in {"locking", "booting", "services", "agent", "returned", "failed"}
    /\ coreLock \in {"none", "held", "released"}
    /\ fallback \in {"none", "running", "done"}
    /\ phase \in {"none", "stopAgent", "awaitAgent", "stopJobs", "disconnectDb", "done"}
    /\ stopping \in BOOLEAN /\ timedOut \in BOOLEAN

(* When the coordinator has disconnected the database and released the lock  *)
(* and no phase timed out, the loop does not run and never will: neither a   *)
(* loop still in a round nor one started after the stop.                    *)
DisconnectIsLast == phase = "done" /\ ~timedOut => place \in {"idle", "stopped"}

(* Main, the coordinator and the loop keep their types, and a completed      *)
(* shutdown leaves no loop behind.                                          *)
LifecycleInv == LifecycleTypeOK /\ DisconnectIsLast

(* The same of every shutdown, also one requested while main() still boots.  *)
EveryDisconnectIsLast ==
    coreLock = "released" /\ ~timedOut => place \in {"idle", "stopped"}

(* A stop request ends the loop, from wherever it is.                       *)
StopEndsLoop == stopping ~> place \in {"idle", "stopped"}
=============================================================================
