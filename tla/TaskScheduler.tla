---------------------------- MODULE TaskScheduler ----------------------------
(***************************************************************************)
(* The in-process scheduler of background work (agent/task-scheduler.ts):  *)
(* named lanes with a concurrency, resource keys that exclude one another  *)
(* across lanes, and dedupe keys whose callers share one promise.          *)
(*                                                                         *)
(* A job is its arrival number, so a lane's queue is the set of its queued *)
(* jobs in number order; lanes are numbered in the order of the lane map,  *)
(* which is the order pumpAll visits them.  NoKey is an absent key.        *)
(***************************************************************************)
EXTENDS Integers, FiniteSets

CONSTANTS
    LaneCount,    \* lanes are 1..LaneCount
    Concurrency,  \* [1..LaneCount -> positive numbers]
    Resources, DedupeKeys,
    NoKey,
    MaxJobs       \* bound: jobs ever queued

Lanes == 1..LaneCount
JobIds == 1..MaxJobs

ASSUME LaneAssumption ==
    /\ LaneCount \in Nat \ {0}
    /\ Concurrency \in [Lanes -> Nat \ {0}]
ASSUME KeyAssumption == NoKey \notin Resources /\ NoKey \notin DedupeKeys
ASSUME JobAssumption == MaxJobs \in Nat

VARIABLES
    lastJob,   \* number of jobs queued so far
    jobOf,     \* [JobIds -> the options of a job]
    queuedJobs,  \* jobs waiting in their lane
    runningJobs, \* jobs running
    busy,      \* activeResources
    deduped,   \* [DedupeKeys -> the job whose promise is shared, 0 for none]
    drains     \* number of drain() calls not resolved

schedulerVars == <<lastJob, jobOf, queuedJobs, runningJobs, busy, deduped, drains>>

Options == [lane : Lanes, resource : Resources \cup {NoKey}, key : DedupeKeys \cup {NoKey}]


(* The order in which pumpAll considers jobs with options o: lane by lane, *)
(* the oldest of a lane first.                                             *)
Before(o, i, j) ==
    \/ o[i].lane < o[j].lane
    \/ o[i].lane = o[j].lane /\ i < j

ResourcesOf(o, js) == {o[j].resource : j \in js} \ {NoKey}

SchedulerInit ==
    /\ lastJob = 0
    /\ jobOf = [j \in JobIds |-> [lane |-> 1, resource |-> NoKey, key |-> NoKey]]
    /\ queuedJobs = {} /\ runningJobs = {} /\ busy = {}
    /\ deduped = [k \in DedupeKeys |-> 0]
    /\ drains = 0

(* pumpLane starts the first job of the queue whose resource is free while *)
(* the lane has room.  Resources are only taken during a pump, so a job is *)
(* started exactly when room and resource remain after the jobs started    *)
(* before it.                                                              *)
Admits(o, started, running, taken, job) ==
    LET earlier == {i \in started : Before(o, i, job)}
    IN  /\ Cardinality({i \in running \cup earlier : o[i].lane = o[job].lane})
               < Concurrency[o[job].lane]
        /\ o[job].resource \notin taken \cup ResourcesOf(o, earlier)

(* pumpAll over the jobs waiting, beside those running: start what can     *)
(* start, then resolve every drain if nothing is left.                     *)
PumpAll(o, waiting, running, taken) ==
    \E started \in SUBSET waiting :
        /\ \A j \in waiting : j \in started <=> Admits(o, started, running, taken, j)
        /\ queuedJobs' = waiting \ started
        /\ runningJobs' = running \cup started
        /\ busy' = taken \cup ResourcesOf(o, started)
        /\ drains' = IF waiting = {} /\ running = {} THEN 0 ELSE drains

(* Seeded fault: only the lane of the settled job is pumped.               *)
PumpOwnLane(o, waiting, running, taken, lane) ==
    \E started \in SUBSET waiting :
        /\ \A j \in waiting :
              j \in started <=> Admits(o, started, running, taken, j) /\ o[j].lane = lane
        /\ queuedJobs' = waiting \ started
        /\ runningJobs' = running \cup started
        /\ busy' = taken \cup ResourcesOf(o, started)
        /\ drains' = IF waiting = {} /\ running = {} THEN 0 ELSE drains
PumpAfter(o, waiting, running, taken, lane) == PumpAll(o, waiting, running, taken)

(* A call with the key of a queued or running job shares that job's        *)
(* promise and queues nothing.                                             *)
Joins(key) == key # NoKey /\ deduped[key] # 0

(* schedule() in a lane that exists; one that does not is only rejected.   *)
ScheduleJob(options) ==
    /\ lastJob < MaxJobs
    /\ ~Joins(options.key)
    /\ lastJob' = lastJob + 1
    /\ jobOf' = [jobOf EXCEPT ![lastJob + 1] = options]
    /\ deduped' = IF options.key = NoKey THEN deduped
                  ELSE [deduped EXCEPT ![options.key] = lastJob + 1]
    /\ PumpAll(jobOf', queuedJobs \cup {lastJob + 1}, runningJobs, busy)

(* A job settles, resolved or rejected: its slot, resource and key are     *)
(* given back before every lane is pumped again.                           *)
SettleJob(j) ==
    /\ j \in runningJobs
    /\ deduped' = IF jobOf[j].key = NoKey THEN deduped
                  ELSE [deduped EXCEPT ![jobOf[j].key] = 0]
    /\ PumpAfter(jobOf, queuedJobs, runningJobs \ {j}, busy \ {jobOf[j].resource}, jobOf[j].lane)
    /\ UNCHANGED <<lastJob, jobOf>>

(* drain(): resolved at once when idle.                                    *)
DrainJobs ==
    /\ queuedJobs \cup runningJobs # {}
    /\ drains = 0
    /\ drains' = 1
    /\ UNCHANGED <<lastJob, jobOf, queuedJobs, runningJobs, busy, deduped>>

SchedulerNext ==
    \/ \E options \in Options : ScheduleJob(options)
    \/ \E j \in JobIds : SettleJob(j)
    \/ DrainJobs

SchedulerSpec == SchedulerInit /\ [][SchedulerNext]_schedulerVars

-----------------------------------------------------------------------------
(* Properties.                                                             *)

SchedulerTypeOK ==
    /\ lastJob \in 0..MaxJobs
    /\ jobOf \in [JobIds -> Options]
    /\ queuedJobs \subseteq 1..lastJob /\ runningJobs \subseteq 1..lastJob
    /\ queuedJobs \cap runningJobs = {}
    /\ busy \subseteq Resources
    /\ deduped \in [DedupeKeys -> 0..lastJob]
    /\ drains \in {0, 1}

(* A resource is busy exactly while one running job holds it, in whatever  *)
(* lane, and a lane never runs more jobs than it allows.                   *)
ResourcesExcluded ==
    /\ busy = ResourcesOf(jobOf, runningJobs)
    /\ \A i, j \in runningJobs :
          i # j /\ jobOf[i].resource # NoKey => jobOf[i].resource # jobOf[j].resource
    /\ \A l \in Lanes : Cardinality({j \in runningJobs : jobOf[j].lane = l}) <= Concurrency[l]

(* A key leads to the one job that has it, and to none once that settled:  *)
(* no caller is handed the promise of work that is over, no work is done   *)
(* twice at a time.                                                        *)
DedupeExact ==
    \A j \in JobIds : \A k \in DedupeKeys :
        deduped[k] = j <=> j \in queuedJobs \cup runningJobs /\ jobOf[j].key = k

(* No job waits that could run: its lane is full or its resource is taken. *)
(* A resource freed by a job of another lane counts too.                   *)
NothingWaitsInVain ==
    \A j \in queuedJobs :
        \/ Cardinality({i \in runningJobs : jobOf[i].lane = jobOf[j].lane})
               = Concurrency[jobOf[j].lane]
        \/ jobOf[j].resource \in busy

(* A drain is open only while there is work to wait for.                   *)
DrainsHaveWork == drains # 0 => queuedJobs \cup runningJobs # {}

SchedulerInv ==
    /\ SchedulerTypeOK
    /\ ResourcesExcluded
    /\ DedupeExact
    /\ NothingWaitsInVain
    /\ DrainsHaveWork
=============================================================================
