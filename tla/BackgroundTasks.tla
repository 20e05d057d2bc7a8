--------------------------- MODULE BackgroundTasks ---------------------------
(***************************************************************************)
(* Work a tool leaves running after its call returned: the registry of     *)
(* background tasks with its file (agent/background-task-registry.ts), the *)
(* three kinds of work that register one (image generation, a delegated    *)
(* trading research, a page fetch on the task scheduler) and the notice    *)
(* that tells the Agent a task has ended.                                  *)
(*                                                                         *)
(* Event queue and workers live in the process, the registry's file and    *)
(* what the ledger was told survive it.  A rejected promise nobody handles *)
(* ends the process.                                                       *)
(***************************************************************************)
EXTENDS TaskScheduler

CONSTANTS
    MaxTasks,         \* bound: tasks ever registered
    MaxActiveTasks,   \* registry admission limit
    MaxWriteFailures, \* bound: failed writes of the registry's file
    MaxRestarts       \* bound: process restarts

ASSUME TaskLimitAssumption == MaxTasks \in Nat /\ MaxActiveTasks \in Nat \ {0}

(* Ids are made by the registry, a new one for every task.                 *)
Tasks == 1..MaxTasks

VARIABLES
    taskStatus,  \* the registry in memory; "none" not registered, "gone" dropped
    taskDisk,    \* the registry's file
    taskWorker,  \* what will settle a task of this process
    taskJob,     \* the fetch job whose promise a task awaits, 0 for none
    notices,     \* background_task_completed events not yet rendered
    told,        \* [Tasks -> the notices the ledger holds, by their ok flag]
    writeFailures, restarts

taskVars == <<taskStatus, taskDisk, taskWorker, taskJob, notices, told, writeFailures, restarts>>
backgroundVars == <<taskVars, schedulerVars>>

Terminal == {"completed", "failed", "interrupted"}
Statuses == Terminal \cup {"none", "running", "gone"}
Workers == {"none", "starting", "working", "fetching", "fetched", "fetch_failed"}
Notice == [task : Tasks, ok : BOOLEAN]

RunningTasks == {t \in Tasks : taskStatus[t] = "running"}
NoCount == [ok \in BOOLEAN |-> 0]

BackgroundInit ==
    /\ SchedulerInit
    /\ taskStatus = [t \in Tasks |-> "none"]
    /\ taskDisk = [t \in Tasks |-> "none"]
    /\ taskWorker = [t \in Tasks |-> "none"]
    /\ taskJob = [t \in Tasks |-> 0]
    /\ notices = {}
    /\ told = [t \in Tasks |-> NoCount]
    /\ writeFailures = 0 /\ restarts = 0

(* cleanup(): terminal tasks past their time to live leave the registry.   *)
Expired(status, old) == [t \in Tasks |-> IF t \in old THEN "gone" ELSE status[t]]
Old(status) == SUBSET {t \in Tasks : status[t] \in Terminal}

(* persistTasks writes the whole registry by rename, or throws.            *)
Persisted(status) == taskStatus' = status /\ taskDisk' = status /\ UNCHANGED writeFailures
PersistThrows(status) ==
    /\ writeFailures < MaxWriteFailures
    /\ writeFailures' = writeFailures + 1
    /\ taskStatus' = status
    /\ UNCHANGED taskDisk

(* tryRegisterBackgroundTask: the caller goes on with a worker unless the  *)
(* limit is reached.  When the write throws the tool call fails, but the   *)
(* record stays in memory, running.                                        *)
Admitted(t) ==
    /\ taskStatus[t] = "none" /\ \A u \in 1..(t - 1) : taskStatus[u] # "none"
    /\ Cardinality(RunningTasks) < MaxActiveTasks

RegisterTask(t, worker) ==
    /\ Admitted(t)
    /\ \E old \in Old(taskStatus) :
          Persisted(Expired([taskStatus EXCEPT ![t] = "running"], old))
    /\ taskWorker' = [taskWorker EXCEPT ![t] = worker]
    /\ UNCHANGED <<notices, told, restarts>>

RegisterThrows(t) ==
    /\ Admitted(t)
    /\ \E old \in Old(taskStatus) :
          PersistThrows(Expired([taskStatus EXCEPT ![t] = "running"], old))
    /\ UNCHANGED <<taskWorker, taskJob, notices, told, restarts, schedulerVars>>

(* generate_image starts its work at once; trading_agent first opens a     *)
(* session and sends the prompt.                                           *)
StartWork(t, worker) ==
    /\ RegisterTask(t, worker)
    /\ UNCHANGED <<taskJob, schedulerVars>>

ResearchStarted(t) ==
    /\ taskWorker[t] = "starting"
    /\ taskWorker' = [taskWorker EXCEPT ![t] = "working"]
    /\ UNCHANGED <<taskStatus, taskDisk, taskJob, notices, told, writeFailures, restarts, schedulerVars>>

(* The session call failed: the tool's own result says so, no notice does. *)
ResearchNotStarted(t) ==
    /\ taskWorker[t] = "starting"
    /\ taskWorker' = [taskWorker EXCEPT ![t] = "none"]
    /\ \E old \in Old(taskStatus) :
          LET status == Expired([taskStatus EXCEPT ![t] = "failed"], old)
          IN  Persisted(status) \/ PersistThrows(status)
    /\ UNCHANGED <<taskJob, notices, told, restarts, schedulerVars>>

(* fetch_content in the background: pages of the same url and hint share   *)
(* one job of the network lane, each with a task of its own.               *)
FetchOptions(page) == [lane |-> 1, resource |-> NoKey, key |-> page]
StartFetch(t, page) ==
    /\ RegisterTask(t, "fetching")
    /\ \/ /\ Joins(page)
          /\ taskJob' = [taskJob EXCEPT ![t] = deduped[page]]
          /\ UNCHANGED schedulerVars
       \/ /\ ScheduleJob(FetchOptions(page))
          /\ taskJob' = [taskJob EXCEPT ![t] = lastJob + 1]

SettleFetch(j, ok) ==
    /\ SettleJob(j)
    /\ taskWorker' =
         [t \in Tasks |-> IF taskWorker[t] = "fetching" /\ taskJob[t] = j
                          THEN (IF ok THEN "fetched" ELSE "fetch_failed")
                          ELSE taskWorker[t]]
    /\ UNCHANGED <<taskStatus, taskDisk, taskJob, notices, told, writeFailures, restarts>>

-----------------------------------------------------------------------------
(* transitionTerminal: a task that is not running is left as it is.        *)
Succeeds(t) == taskWorker[t] \in {"working", "fetched"}
Fails(t) == taskWorker[t] \in {"working", "fetch_failed"}

Enqueue(t, ok) ==
    /\ notices' = notices \cup {[task |-> t, ok |-> ok]}
    /\ taskWorker' = [taskWorker EXCEPT ![t] = "none"]
    /\ UNCHANGED <<taskJob, told, restarts, schedulerVars>>

CompleteTask(t) ==
    /\ Succeeds(t)
    /\ \E old \in Old(taskStatus) :
          Persisted(Expired([taskStatus EXCEPT ![t] = "completed"], old))
    /\ Enqueue(t, TRUE)

(* Seeded fault: the notice does not wait for the write.                   *)
NoticeBeforeWrite(t) == Enqueue(t, TRUE)
(* complete() throws on its write: the handler's fail() is ignored, since  *)
(* the record is completed by now, and the notice says failed.             *)
AfterFailedWrite(t) == Enqueue(t, FALSE)

CompleteThrows(t) ==
    /\ Succeeds(t)
    /\ \E old \in Old(taskStatus) :
          PersistThrows(Expired([taskStatus EXCEPT ![t] = "completed"], old))
    /\ AfterFailedWrite(t)

FailTask(t) ==
    /\ Fails(t)
    /\ \E old \in Old(taskStatus) :
          Persisted(Expired([taskStatus EXCEPT ![t] = "failed"], old))
    /\ Enqueue(t, FALSE)

(* The Agent drains its queue; the rendered notice is committed.           *)
Tell(n) ==
    /\ n \in notices
    /\ notices' = notices \ {n}
    /\ told' = [told EXCEPT ![n.task][n.ok] = @ + 1]
    /\ UNCHANGED <<taskStatus, taskDisk, taskWorker, taskJob, writeFailures, restarts, schedulerVars>>

(* Seeded fault: only tasks of the running process are told.               *)
RestartsSilently(status) == {}
(* createPersistentTaskRegistry and main(): what the file calls running was *)
(* interrupted, and is announced.                                          *)
RestartNotices(status) == {[task |-> t, ok |-> FALSE] : t \in {u \in Tasks : status[u] = "running"}}

(* The process ends, also because fail() threw in a handler, and starts    *)
(* again from the file.                                                    *)
RestartProcess ==
    /\ restarts < MaxRestarts
    /\ restarts' = restarts + 1
    /\ LET status == [t \in Tasks |->
                CASE taskDisk[t] = "running" -> "interrupted"
                  [] taskDisk[t] = "none" /\ taskStatus[t] # "none" -> "gone"
                  [] OTHER -> taskDisk[t]]
       IN  taskStatus' = status /\ taskDisk' = status
    /\ notices' = RestartNotices(taskDisk)
    /\ taskWorker' = [t \in Tasks |-> "none"]
    /\ taskJob' = [t \in Tasks |-> 0]
    /\ queuedJobs' = {} /\ runningJobs' = {} /\ busy' = {} /\ drains' = 0
    /\ deduped' = [k \in DedupeKeys |-> 0]
    /\ UNCHANGED <<told, writeFailures, lastJob, jobOf>>

BackgroundNext ==
    \/ \E t \in Tasks :
          \/ \E worker \in {"starting", "working"} : StartWork(t, worker)
          \/ RegisterThrows(t)
          \/ ResearchStarted(t)
          \/ ResearchNotStarted(t)
          \/ \E page \in DedupeKeys : StartFetch(t, page)
          \/ CompleteTask(t)
          \/ CompleteThrows(t)
          \/ FailTask(t)
    \/ \E j \in JobIds, ok \in BOOLEAN : SettleFetch(j, ok)
    \/ \E n \in Notice : Tell(n)
    \/ RestartProcess

TasksSpec == BackgroundInit /\ [][BackgroundNext]_backgroundVars

(* Work ends, with a result, an error or its timeout, and the Agent loop   *)
(* drains its queue.                                                       *)
WorkEnds(t) == ResearchStarted(t) \/ ResearchNotStarted(t) \/ CompleteTask(t) \/ FailTask(t)

-----------------------------------------------------------------------------
(* Properties.                                                             *)

Announced(t, ok) == told[t][ok] + Cardinality({n \in notices : n.task = t /\ n.ok = ok})

(* A notice of success is only ever given for a result that a restart      *)
(* finds again, and is the only notice of its task; without a failed write *)
(* no task is announced twice, however many restarts there are.            *)
NoticesAreTrue ==
    \A t \in Tasks :
        /\ Announced(t, TRUE) > 0 =>
              /\ taskDisk[t] \in {"completed", "gone"}
              /\ Announced(t, TRUE) + Announced(t, FALSE) = 1
        /\ writeFailures = 0 => Announced(t, TRUE) + Announced(t, FALSE) <= 1

(* An admission slot is held by work that will end: a task counted as      *)
(* running has a worker in this process, unless its registration could not *)
(* be written; the number of tasks with a worker never passes the limit,   *)
(* and each page's tasks wait for a job the scheduler still has.           *)
SlotsAreHeldByWork ==
    /\ \A t \in RunningTasks : taskWorker[t] = "none" => writeFailures > 0
    /\ \A t \in Tasks : taskWorker[t] # "none" => taskStatus[t] = "running"
    /\ Cardinality(RunningTasks) <= MaxActiveTasks
    /\ \A t \in Tasks : taskWorker[t] = "fetching" => taskJob[t] \in queuedJobs \cup runningJobs

(* The registry's slots are held by work, and its notices are true.        *)
BackgroundInv == SlotsAreHeldByWork /\ NoticesAreTrue

(* A task whose work runs in a process that goes on is told to the Agent,  *)
(* unless a write fails, and so is one that the last restart interrupted.  *)
EveryTaskIsTold ==
    \A t \in Tasks :
        /\ taskWorker[t] \in {"working", "fetching"} /\ restarts = MaxRestarts
              ~> writeFailures > 0 \/ told[t][TRUE] + told[t][FALSE] > 0
        /\ taskStatus[t] = "interrupted" /\ restarts = MaxRestarts
              ~> told[t][TRUE] + told[t][FALSE] > 0
=============================================================================
