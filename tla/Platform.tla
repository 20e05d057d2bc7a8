------------------------------- MODULE Platform -------------------------------
(***************************************************************************)
(* The platform supervisor (platform.ts): it starts the sidecars, waits    *)
(* until each answers its health check, then starts the Agent Core; a      *)
(* signal, a sidecar that does not become healthy, or a child that exits   *)
(* by itself ends all of them, by SIGTERM and after ten seconds by SIGKILL. *)
(***************************************************************************)
EXTENDS Integers, FiniteSets

CONSTANTS Sidecars, \* the sidecars this configuration starts
          AgentCore

ASSUME PlatformAssumption == AgentCore \notin Sidecars

Services == Sidecars \cup {AgentCore}
Living == {"starting", "healthy", "told", "killed"}

VARIABLES
    service,   \* what each process does
    gone,      \* children whose exit event was handled
    sawHealthy, \* sidecars whose health wait is over
    coreTurn,  \* whether the Core is still to be started
    stopping, awaited, \* shutdown began; the children it waits for
    signalled, \* signals the supervisor got
    cause, exitCode, \* why it stops first; its exit code
    done, exited \* platformDone is resolved; the supervisor has ended

platformVars == <<service, gone, sawHealthy, coreTurn, stopping, awaited, signalled, cause, exitCode, done, exited>>
ending == <<stopping, awaited, signalled, cause, exitCode, done, exited>>

PlatformInit ==
    /\ service = [s \in Services |-> IF s \in Sidecars THEN "starting" ELSE "off"]
    /\ gone = {} /\ sawHealthy = {} /\ coreTurn = TRUE /\ stopping = FALSE /\ awaited = {}
    /\ signalled = {} /\ cause = "none" /\ exitCode = 0 /\ done = FALSE /\ exited = FALSE

-----------------------------------------------------------------------------
ServiceComesUp(s) ==
    /\ service[s] = "starting" /\ service' = [service EXCEPT ![s] = "healthy"]
    /\ UNCHANGED <<gone, sawHealthy, coreTurn, ending>>

(* A health wait ends when the service answers, or the platform stops.     *)
SeesHealth(s) ==
    /\ ~exited /\ s \in Sidecars \ sawHealthy
    /\ service[s] = "healthy" \/ stopping
    /\ sawHealthy' = sawHealthy \cup {s}
    /\ UNCHANGED <<service, gone, coreTurn, ending>>

(* Seeded fault: the Core is started without another look.                 *)
CoreAnyway == TRUE
MayStartCore == ~stopping

StartCore ==
    /\ ~exited /\ coreTurn /\ (sawHealthy = Sidecars \/ done)
    /\ coreTurn' = FALSE
    /\ service' = IF MayStartCore THEN [service EXCEPT ![AgentCore] = "starting"] ELSE service
    /\ UNCHANGED <<gone, sawHealthy, ending>>

-----------------------------------------------------------------------------
(* shutdown: every child that is known gets SIGTERM and is waited for; a   *)
(* second call returns at once.  Each signal has a handler for its first   *)
(* time only; coming again it kills the supervisor, which is left out.     *)
Children == {s \in Services : service[s] # "off"} \ gone

Shutdown(why) ==
    /\ stopping' = TRUE /\ awaited' = Children /\ cause' = why
    /\ service' = [s \in Services |-> IF service[s] \in {"starting", "healthy"} THEN "told" ELSE service[s]]

PlatformSignal(sig) ==
    /\ ~exited /\ sig \notin signalled /\ signalled' = signalled \cup {sig}
    /\ IF stopping THEN done' = TRUE /\ UNCHANGED <<stopping, awaited, cause, service>>
       ELSE Shutdown("signal") /\ UNCHANGED done
    /\ UNCHANGED <<gone, sawHealthy, coreTurn, exitCode, exited>>

(* A wait that runs out while the platform stops already finds shutdown    *)
(* called and throws at once, which resolves platformDone.                 *)
HealthTimesOut(s) ==
    /\ ~exited /\ coreTurn /\ s \in Sidecars \ sawHealthy
    /\ IF stopping THEN done' = TRUE /\ exitCode' = 1 /\ UNCHANGED <<stopping, awaited, cause, service>>
       ELSE Shutdown("health") /\ UNCHANGED <<exitCode, done>>
    /\ UNCHANGED <<gone, sawHealthy, coreTurn, signalled, exited>>

(* A process ends by itself, or after SIGTERM, or is killed.               *)
ServiceDies(s) ==
    /\ service[s] \in Living /\ service' = [service EXCEPT ![s] = "dead"]
    /\ UNCHANGED <<gone, sawHealthy, coreTurn, ending>>

(* The exit event, of which shutdown has listeners too.                    *)
ExitEvent(s) ==
    /\ ~exited /\ service[s] = "dead" /\ s \notin gone /\ gone' = gone \cup {s}
    /\ IF stopping THEN awaited' = awaited \ {s} /\ UNCHANGED <<stopping, cause, service>>
       ELSE /\ stopping' = TRUE /\ cause' = "child" /\ awaited' = Children \ {s}
            /\ service' = [t \in Services |-> IF service[t] \in {"starting", "healthy"} THEN "told" ELSE service[t]]
    /\ UNCHANGED <<sawHealthy, coreTurn, signalled, exitCode, done, exited>>

KillsAfterWait(s) ==
    /\ ~exited /\ s \in awaited /\ awaited' = awaited \ {s}
    /\ service' = IF service[s] = "told" THEN [service EXCEPT ![s] = "killed"] ELSE service
    /\ UNCHANGED <<gone, sawHealthy, coreTurn, stopping, signalled, cause, exitCode, done, exited>>

(* What waits for shutdown goes on: a failure sets the exit code.          *)
ShutdownEnds ==
    /\ ~exited /\ stopping /\ awaited = {}
    /\ ~done \/ (exitCode = 0 /\ cause # "signal")
    /\ done' = TRUE /\ exitCode' = IF cause = "signal" THEN exitCode ELSE 1
    /\ UNCHANGED <<service, gone, sawHealthy, coreTurn, stopping, awaited, signalled, cause, exited>>

(* Seeded fault: the supervisor exits as soon as platformDone resolves.    *)
LeavesAtOnce == done
(* Nothing calls process.exit: children and timers keep the process.       *)
LoopIsEmpty == done /\ Children = {} /\ awaited = {} /\ (cause # "signal" => exitCode = 1)

PlatformExits ==
    /\ ~exited /\ LoopIsEmpty /\ exited' = TRUE
    /\ UNCHANGED <<service, gone, sawHealthy, coreTurn, stopping, awaited, signalled, cause, exitCode, done>>

PlatformNext ==
    \/ \E s \in Services : ServiceComesUp(s) \/ ServiceDies(s) \/ ExitEvent(s) \/ KillsAfterWait(s)
    \/ \E s \in Sidecars : SeesHealth(s) \/ HealthTimesOut(s)
    \/ \E sig \in {"SIGINT", "SIGTERM"} : PlatformSignal(sig)
    \/ StartCore \/ ShutdownEnds \/ PlatformExits

PlatformSpec == PlatformInit /\ [][PlatformNext]_platformVars

-----------------------------------------------------------------------------
(* Once the platform stops, no service runs that was not told to end, even *)
(* though one may be about to start just then.                             *)
NothingStartsLate == stopping => \A s \in Services : service[s] \notin {"starting", "healthy"}

(* The supervisor never leaves a service behind, however many signals come. *)
NoServiceLeft == exited => \A s \in Services : service[s] \in {"off", "dead"}

(* The supervisor (platform.ts): the two above, and a Core only beside     *)
(* sidecars that were all healthy.                                         *)
PlatformInv ==
    /\ NothingStartsLate /\ NoServiceLeft
    /\ service[AgentCore] \in {"starting", "healthy"} => sawHealthy = Sidecars
=============================================================================
