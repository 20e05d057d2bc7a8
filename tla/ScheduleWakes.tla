--------------------------- MODULE ScheduleWakes ---------------------------
(***************************************************************************)
(* One-shot schedules and the wakes they owe the Agent: ScheduleRuntime    *)
(* with its mutation queue and timers, the three files it keeps (active    *)
(* jobs, occurrences, pending deliveries), ScheduleDeliveryCoordinator     *)
(* with its replay at start, and the loop's drain, ledger commit and       *)
(* onEventsCommitted hook.                                                 *)
(*                                                                         *)
(* A file is replaced by an atomic rename, so a write happens or fails as  *)
(* a whole.  A create that is refused (limit, name, window) or fails to    *)
(* persist changes nothing.  A graceful stop waits for the running         *)
(* mutation and forgets the rest, as a Crash after that mutation does.     *)
(***************************************************************************)
EXTENDS Integers, FiniteSets

CONSTANTS
    Ids,        \* schedule ids: one per create that succeeds
    NoId,       \* no mutation is running
    MaxActive,  \* SCHEDULE_LIMITS.maxActiveSchedules
    MaxFaults   \* bound: crashes, failed writes, failed and unacknowledged commits

ASSUME IdAssumption == NoId \notin Ids
ASSUME LimitAssumption == MaxActive \in Nat /\ MaxFaults \in Nat

VARIABLES
    accepted,    \* history: schedules whose creation reached the store
    cancelled,   \* history: schedules whose cancellation reached the store
    due,         \* schedules whose time has come
    active,      \* schedules.json
    occurrences, \* schedules.json.occurrences
    pending,     \* schedules.json.deliveries
    committed,   \* how many notifications of each wake the ledger holds
    phase,       \* life of the process
    jobs,        \* ScheduleRuntime.jobs
    timers,      \* ScheduleRuntime.timers
    op,          \* the mutation that is running and what it writes next
    listed,      \* activeScheduleIds of the replay
    toReplay,    \* loaded pending deliveries not yet replayed
    queued,      \* the coordinator's queuedScheduleIds
    inQueue,     \* how many wakes of each schedule the event queue holds
    staged,      \* drained wakes whose commit is being awaited
    toComplete,  \* committed wakes whose pending delivery is being removed
    stale,       \* the loop expects a head that is no longer the stored one
    faults

disk == <<active, occurrences, pending, committed>>
history == <<accepted, cancelled, due>>
runtime == <<jobs, timers, op>>
coordinator == <<listed, toReplay, queued>>
loop == <<staged, toComplete, stale>>
vars == <<history, disk, phase, runtime, coordinator, inQueue, loop, faults>>

Idle == [step |-> "none", id |-> NoId]
None == [i \in Ids |-> 0]

Init ==
    /\ accepted = {} /\ cancelled = {} /\ due = {}
    /\ active = {} /\ occurrences = {} /\ pending = {} /\ committed = None
    /\ phase = "down"
    /\ jobs = {} /\ timers = {} /\ op = Idle
    /\ listed = {} /\ toReplay = {} /\ queued = {}
    /\ inQueue = None
    /\ staged = None /\ toComplete = {} /\ stale = FALSE
    /\ faults = 0

Fault == faults < MaxFaults /\ faults' = faults + 1

(* Time passes, also while the process is down.                            *)
Tick(i) ==
    /\ i \in accepted \ due
    /\ due' = due \cup {i}
    /\ UNCHANGED <<accepted, cancelled, disk, phase, runtime, coordinator, inQueue, loop, faults>>

-----------------------------------------------------------------------------
(* Start of the background services, before the loop starts.               *)

(* start() loads and arms the jobs; the list() that follows it is queued    *)
(* before any timer callback.                                              *)
Start ==
    /\ phase = "down"
    /\ phase' = "loading"
    /\ jobs' = active /\ timers' = active /\ listed' = active
    /\ UNCHANGED <<history, disk, op, toReplay, queued, inQueue, loop, faults>>

(* A job that fired since start() is already among the loaded deliveries.   *)
LoadPending ==
    /\ phase = "loading"
    /\ phase' = "replaying"
    /\ toReplay' = pending
    /\ UNCHANGED <<history, disk, runtime, listed, queued, inQueue, loop, faults>>

(* The coordinator's enqueue: a wake it has already queued is dropped.      *)
QueueWake(i) ==
    /\ queued' = queued \cup {i}
    /\ inQueue' = IF i \in queued THEN inQueue ELSE [inQueue EXCEPT ![i] = @ + 1]

(* Seeded fault: the ledger is not consulted.                              *)
ReplayUnchecked(i) ==
    /\ toReplay' = toReplay \ {i}
    /\ IF i \in listed THEN UNCHANGED <<pending, queued, inQueue>>
       ELSE QueueWake(i) /\ UNCHANGED pending
(* What replayPending does with one delivery: still active ones are left to *)
(* their timer, committed ones are cleaned up, the others are queued.       *)
ReplayDelivery(i) ==
    /\ toReplay' = toReplay \ {i}
    /\ CASE i \in listed -> UNCHANGED <<pending, queued, inQueue>>
         [] i \notin listed /\ committed[i] > 0 ->
              pending' = pending \ {i} /\ queued' = queued \ {i} /\ UNCHANGED inQueue
         [] OTHER -> QueueWake(i) /\ UNCHANGED pending

ReplayPending(i) ==
    /\ phase = "replaying" /\ i \in toReplay
    /\ ReplayDelivery(i)
    /\ UNCHANGED <<history, active, occurrences, committed, phase, runtime, listed, loop, faults>>

StartAgent ==
    /\ phase = "replaying" /\ toReplay = {}
    /\ phase' = "running"
    /\ UNCHANGED <<history, disk, runtime, coordinator, inQueue, loop, faults>>

(* The process ends, by itself, by a failed start or by a shutdown.         *)
Crash ==
    /\ phase # "down" /\ Fault
    /\ phase' = "down"
    /\ jobs' = {} /\ timers' = {} /\ op' = Idle
    /\ listed' = {} /\ toReplay' = {} /\ queued' = {}
    /\ inQueue' = None
    /\ staged' = None /\ toComplete' = {} /\ stale' = FALSE
    /\ UNCHANGED <<history, disk>>

-----------------------------------------------------------------------------
(* The serialized mutations of ScheduleRuntime.  Each write is a step; the  *)
(* process may end, or the write fail, between any two.                     *)

(* schedule create and cancel are tools, so the loop is running.            *)
CreateStored(i) ==
    /\ phase = "running" /\ op = Idle
    /\ i \notin accepted /\ Cardinality(jobs) < MaxActive
    /\ active' = jobs \cup {i}
    /\ accepted' = accepted \cup {i}
    /\ op' = [step |-> "create", id |-> i]
    /\ UNCHANGED <<cancelled, due, occurrences, pending, committed, phase, jobs, timers,
                   coordinator, inQueue, loop, faults>>

CreateDone ==
    /\ op.step = "create"
    /\ jobs' = jobs \cup {op.id} /\ timers' = timers \cup {op.id}
    /\ op' = Idle
    /\ UNCHANGED <<history, disk, phase, coordinator, inQueue, loop, faults>>

CancelStored(i) ==
    /\ phase = "running" /\ op = Idle
    /\ i \in jobs
    /\ active' = jobs \ {i}
    /\ cancelled' = cancelled \cup {i}
    /\ op' = [step |-> "cancel", id |-> i]
    /\ UNCHANGED <<accepted, due, occurrences, pending, committed, phase, jobs, timers,
                   coordinator, inQueue, loop, faults>>

CancelDone ==
    /\ op.step = "cancel"
    /\ jobs' = jobs \ {op.id} /\ timers' = timers \ {op.id}
    /\ op' = Idle
    /\ UNCHANGED <<history, disk, phase, coordinator, inQueue, loop, faults>>

(* A timer went off and its processTimer runs.                              *)
FireTimer(i) ==
    /\ op = Idle
    /\ i \in timers /\ i \in jobs /\ i \in due
    /\ op' = [step |-> "record", id |-> i]
    /\ UNCHANGED <<history, disk, phase, jobs, timers, coordinator, inQueue, loop, faults>>

RecordOccurrence ==
    /\ op.step = "record"
    /\ occurrences' = occurrences \cup {op.id}
    /\ op' = [op EXCEPT !.step = "pending"]
    /\ UNCHANGED <<history, active, pending, committed, phase, jobs, timers, coordinator,
                   inQueue, loop, faults>>

(* Seeded fault: the active job is removed first.                           *)
RemovedBeforePending ==
    /\ op.step = "pending"
    /\ active' = active \ {op.id}
    /\ pending' = pending
    /\ op' = [op EXCEPT !.step = "replace"]
    /\ UNCHANGED <<history, occurrences, committed, phase, jobs, timers, coordinator,
                   inQueue, loop, faults>>
RecordPending ==
    /\ op.step = "pending"
    /\ pending' = pending \cup {op.id}
    /\ op' = [op EXCEPT !.step = "replace"]
    /\ UNCHANGED <<history, active, occurrences, committed, phase, jobs, timers, coordinator,
                   inQueue, loop, faults>>

RemoveJob ==
    /\ op.step = "replace"
    /\ active' = jobs \ {op.id}
    /\ op' = [op EXCEPT !.step = "enqueue"]
    /\ UNCHANGED <<history, occurrences, pending, committed, phase, jobs, timers, coordinator,
                   inQueue, loop, faults>>

EnqueueWake ==
    /\ op.step = "enqueue"
    /\ jobs' = jobs \ {op.id} /\ timers' = timers \ {op.id}
    /\ QueueWake(op.id)
    /\ op' = Idle
    /\ UNCHANGED <<history, disk, phase, listed, toReplay, loop, faults>>

(* Seeded fault: a firing that failed is not tried again.                   *)
FireGivenUp ==
    /\ op.step \in {"record", "pending", "replace"} /\ Fault
    /\ timers' = timers \ {op.id}
    /\ op' = Idle
    /\ UNCHANGED <<history, disk, phase, jobs, coordinator, inQueue, loop>>
(* A write failed: the job is kept and its timer armed again.               *)
FireFails ==
    /\ op.step \in {"record", "pending", "replace"} /\ Fault
    /\ op' = Idle
    /\ UNCHANGED <<history, disk, phase, jobs, timers, coordinator, inQueue, loop>>

-----------------------------------------------------------------------------
(* The loop: drain, commit, confirm.                                       *)

Drain ==
    /\ phase = "running" /\ staged = None /\ toComplete = {} /\ inQueue # None
    /\ staged' = inQueue /\ inQueue' = None
    /\ UNCHANGED <<history, disk, phase, runtime, coordinator, toComplete, stale, faults>>

AppendWakes == committed' = [i \in Ids |-> committed[i] + staged[i]]

CommitWakes ==
    /\ staged # None /\ ~stale
    /\ AppendWakes
    /\ staged' = None
    /\ toComplete' = {i \in Ids : staged[i] > 0}
    /\ UNCHANGED <<history, active, occurrences, pending, phase, runtime, coordinator, inQueue,
                   stale, faults>>

(* The drained events go back to the raw queue, past the coordinator.       *)
Requeue ==
    /\ inQueue' = [i \in Ids |-> inQueue[i] + staged[i]]
    /\ staged' = None

CommitFails ==
    /\ staged # None
    /\ IF stale THEN UNCHANGED faults ELSE Fault
    /\ Requeue
    /\ UNCHANGED <<history, disk, phase, runtime, coordinator, toComplete, stale>>

CommitUnacknowledged ==
    /\ staged # None /\ ~stale /\ Fault
    /\ AppendWakes /\ Requeue
    /\ stale' = TRUE
    /\ UNCHANGED <<history, active, occurrences, pending, phase, runtime, coordinator, toComplete>>

MarkCommitted(i) ==
    /\ i \in toComplete
    /\ pending' = pending \ {i} /\ queued' = queued \ {i}
    /\ toComplete' = toComplete \ {i}
    /\ UNCHANGED <<history, active, occurrences, committed, phase, runtime, listed, toReplay,
                   inQueue, staged, stale, faults>>

(* The hook's error is logged; what is left stays pending and queued.       *)
MarkFails ==
    /\ toComplete # {} /\ Fault
    /\ toComplete' = {}
    /\ UNCHANGED <<history, disk, phase, runtime, coordinator, inQueue, staged, stale>>

-----------------------------------------------------------------------------
Startup == Start \/ LoadPending \/ (\E i \in Ids : ReplayPending(i)) \/ StartAgent
Request == \E i \in Ids : CreateStored(i) \/ CancelStored(i)
Timer == \E i \in Ids : FireTimer(i)
Mutation == CreateDone \/ CancelDone \/ RecordOccurrence \/ RecordPending \/ RemoveJob \/ EnqueueWake
Loop == Drain \/ CommitWakes \/ (\E i \in Ids : MarkCommitted(i))
Failure == Crash \/ FireFails \/ CommitFails \/ CommitUnacknowledged \/ MarkFails

Next == Startup \/ Request \/ (\E i \in Ids : Tick(i)) \/ Timer \/ Mutation \/ Loop \/ Failure

Spec == Init /\ [][Next]_vars

(* Whoever operates the process starts it again, time passes, timers that   *)
(* are due go off, running mutations end, and the loop keeps draining.      *)
FairSpec ==
    Spec /\ WF_vars(Startup) /\ WF_vars(\E i \in Ids : Tick(i)) /\ WF_vars(Timer)
         /\ WF_vars(Mutation) /\ WF_vars(Loop)

-----------------------------------------------------------------------------
(* Properties.                                                             *)

Steps == {"none", "create", "cancel", "record", "pending", "replace", "enqueue"}

(* Every variable has its type.                                             *)
TypeOK ==
    /\ accepted \subseteq Ids /\ cancelled \subseteq accepted /\ due \subseteq accepted
    /\ active \subseteq Ids /\ occurrences \subseteq Ids /\ pending \subseteq Ids
    /\ committed \in [Ids -> Nat]
    /\ phase \in {"down", "loading", "replaying", "running"}
    /\ jobs \subseteq Ids /\ timers \subseteq Ids
    /\ op \in [step : Steps, id : Ids \cup {NoId}]
    /\ listed \subseteq Ids /\ toReplay \subseteq Ids /\ queued \subseteq Ids
    /\ inQueue \in [Ids -> Nat] /\ staged \in [Ids -> Nat]
    /\ toComplete \subseteq Ids /\ stale \in BOOLEAN
    /\ faults \in 0..MaxFaults

(* The wake of an accepted schedule cannot be lost: at every moment it is   *)
(* on disk as an active job or a pending delivery, or cancelled, or in the  *)
(* ledger, also between the writes of a firing and of a confirmation.       *)
NoWakeLost ==
    \A i \in accepted : i \in active \cup pending \cup cancelled \/ committed[i] > 0

(* A schedule wakes the Agent at most once: timers, retries, requeues, lost *)
(* acknowledgements and the replay at start never add a second notification. *)
WakeCommittedOnce == \A i \in Ids : committed[i] <= 1

(* Whoever reads a wake can open it: its occurrence was stored before the   *)
(* wake could be queued, replayed or committed.                             *)
WakeHasBody ==
    \A i \in Ids : inQueue[i] + staged[i] + committed[i] > 0 => i \in occurrences

(* The parts of the inductive invariant.  What a phase of the process       *)
(* implies: the loop does nothing before it is started, and every job of a  *)
(* starting process is among the ids the replay leaves to the timers.       *)
PhaseSound ==
    /\ phase # "running" => staged = None /\ toComplete = {} /\ ~stale
    /\ phase = "down" => jobs = {} /\ op.step = "none" /\ inQueue = None /\ queued = {}
    /\ phase \in {"loading", "replaying"} => active \cup jobs \subseteq listed
    /\ toComplete # {} => staged = None /\ ~stale

(* The stored jobs and those in memory differ by the running mutation only, *)
(* and what that mutation has written is there.                            *)
OpSound ==
    /\ op.step # "none" => op.id \in Ids
    /\ op.step \in {"cancel", "record", "pending", "replace", "enqueue"} => op.id \in jobs
    /\ op.step \in {"pending", "replace", "enqueue"} => op.id \in occurrences
    /\ op.step \in {"replace", "enqueue"} => op.id \in pending
    /\ phase # "down" =>
          active = CASE op.step = "create" -> jobs \cup {op.id}
                     [] op.step \in {"cancel", "enqueue"} -> jobs \ {op.id}
                     [] OTHER -> jobs

(* A wake waits in memory at most once, only under the coordinator's watch, *)
(* never for a job that is still active, and, unless the head is stale, not *)
(* when the ledger holds it already.                                       *)
WakeSound(i) ==
    /\ i \in active \cup jobs =>
          i \in accepted /\ i \notin queued /\ committed[i] = 0
    /\ inQueue[i] + staged[i] <= 1 /\ committed[i] <= 1
    /\ inQueue[i] + staged[i] > 0 => i \in queued /\ (stale \/ committed[i] = 0)
    /\ i \in toComplete => committed[i] > 0
    /\ i \in pending \cup queued \cup toReplay \/ committed[i] > 0 => i \in occurrences
    /\ i \in occurrences => i \in accepted

(* The inductive invariant.                                                *)
IndInv ==
    /\ TypeOK
    /\ PhaseSound
    /\ OpSound
    /\ \A i \in Ids : WakeSound(i)
    /\ NoWakeLost

(* Every accepted schedule is eventually cancelled or in the ledger, over   *)
(* restarts and failed writes, unless the loop is left with a stale head.   *)
EveryScheduleWakes ==
    \A i \in Ids : i \in accepted ~> (committed[i] > 0 \/ i \in cancelled \/ stale)

(* Cancelling clears the persistent state and the timer: a schedule that    *)
(* cancel() reported as cancelled is not queued as a wake afterwards.       *)
CancelledNeverWakes ==
    [][\A i \in cancelled : inQueue'[i] + staged'[i] <= inQueue[i] + staged[i]]_vars
=============================================================================
