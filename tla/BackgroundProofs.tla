-------------------------- MODULE BackgroundProofs --------------------------
(***************************************************************************)
(* Proofs about what runs beside the rounds: the task scheduler for any    *)
(* lanes, concurrencies, resources and keys, the background tasks that use *)
(* it, the resets of the Agent's state, the supervisor, and the scheduled   *)
(* wakes.                                                                  *)
(***************************************************************************)
EXTENDS MCBackground, FiniteSetTheorems, SequenceTheorems, WellFoundedInduction, TLAPS

-----------------------------------------------------------------------------
(* The inductive invariants; SchedulerInv is one as it stands.              *)

(* What the registry and its notices hold.                                  *)
TaskTypeOK ==
    /\ taskStatus \in [Tasks -> Statuses] /\ taskDisk \in [Tasks -> Statuses]
    /\ taskWorker \in [Tasks -> Workers] /\ taskJob \in [Tasks -> Nat]
    /\ notices \subseteq Notice /\ told \in [Tasks -> [BOOLEAN -> Nat]]
    /\ writeFailures \in Nat

(* The notices of a task in the queue and in the ledger.                    *)
Yes(t) == [task |-> t, ok |-> TRUE]
No(t) == [task |-> t, ok |-> FALSE]
One(ns, n) == IF n \in ns THEN 1 ELSE 0
Successes(t) == told[t][TRUE] + One(notices, Yes(t))
Failures(t) == told[t][FALSE] + One(notices, No(t))

(* A task is announced only after it ended, and as a success only where it   *)
(* is recorded as one; without a failed write the file is the registry.     *)
NoticesFollowRegistry ==
    /\ \A t \in Tasks :
          /\ taskStatus[t] \in {"none", "running"} => Successes(t) = 0 /\ Failures(t) = 0
          /\ Successes(t) > 0 => /\ taskStatus[t] \in {"completed", "gone"}
                                /\ taskDisk[t] \in {"completed", "gone"}
                                /\ Failures(t) = 0 /\ Successes(t) = 1
          /\ writeFailures = 0 => Successes(t) + Failures(t) <= 1
    /\ writeFailures = 0 => taskDisk = taskStatus

TasksInd ==
    /\ TaskTypeOK /\ SlotsAreHeldByWork /\ NoticesFollowRegistry

(* The reset's variables.                                                  *)
Materials == [scope : ResetScopes, rows : Nat, files : SUBSET Entries]
Taken == [rows : Nat, files : SUBSET Entries]
States == [active : Runs \cup {NoRun}, recent : Seq(Runs)]
ActivePlaces == {"queued", "starting", "check", "guard"} \cup BehindGuard
RunPlaces == ActivePlaces \cup Final \cup {"succeeding", "failing"}
RunRecords ==
    [at : RunPlaces, preview : Nat, confirmed : Materials, listed : SUBSET Entries,
     took : Taken, writes : States, raced : BOOLEAN]
RequestRecords == [at : {"idle", "guard", "material", "submit"}, preview : Nat, confirmed : Materials]

ResetTypeOK ==
    /\ adminPid \in Nat /\ lastPid \in Nat /\ coreUp \in BOOLEAN
    /\ rows \in Nat /\ cursor \in Nat /\ delivered \in Nat /\ generated \subseteq Entries
    /\ previews \subseteq [id : Nat, material : Materials, expired : BOOLEAN] /\ made \in Nat
    /\ request \in [StartRequests -> RequestRecords]
    /\ activeRun \in Runs \cup {NoRun} /\ recent \in Seq(Runs)
    /\ runOf \in [Runs -> RunRecords]
    /\ stateFile \in States /\ audit \subseteq Runs

(* The places of a run before it removes anything.                          *)
Untouched == {"none", "queued", "starting", "check", "guard", "material", "assert", "progress",
              "listing", "deleting"}

(* A run is the active one until it is over, and serves a living process;   *)
(* once its first state is written it is on record.                        *)
RunIsActive(i) ==
    /\ runOf[i].at \in ActivePlaces => activeRun = i
    /\ adminPid = 0 => runOf[i].at \in Final
    /\ runOf[i].at \in ActivePlaces \ {"queued"} => i \in audit
    /\ runOf[i].took # Nothing => i \in audit
    /\ runOf[i].writes.active \in {NoRun, i}
    /\ adminPid # 0 /\ runOf[i].at = "lost" => stateFile.active # i

(* While no Core was started behind its guard, what a run still has to      *)
(* remove and what it removed are together what was confirmed.              *)
RunIsConfirmed(i) ==
    /\ runOf[i].at \in Untouched => runOf[i].took = Nothing
    /\ ~runOf[i].raced =>
          /\ runOf[i].at \in BehindGuard => ~coreUp
          /\ runOf[i].at \in {"assert", "progress", "listing"} =>
                Material(ScopeOf(i)) = runOf[i].confirmed
          /\ runOf[i].at = "deleting" => rows = runOf[i].confirmed.rows
          /\ runOf[i].at = "removing" => runOf[i].took.rows = runOf[i].confirmed.rows
          /\ runOf[i].at \in {"deleting", "removing"} =>
                /\ runOf[i].listed \subseteq generated
                /\ runOf[i].listed \cup runOf[i].took.files = runOf[i].confirmed.files
          /\ runOf[i].took.rows \in {0, runOf[i].confirmed.rows}
          /\ runOf[i].took.files \subseteq runOf[i].confirmed.files
          /\ runOf[i].at \in {"succeeding", "succeeded"} =>
                /\ runOf[i].took.rows = runOf[i].confirmed.rows
                /\ runOf[i].took.files = runOf[i].confirmed.files

ResetInd ==
    /\ ResetTypeOK /\ cursor = delivered
    /\ \A r \in StartRequests : request[r].at # "idle" => adminPid # 0
    /\ \A i \in Runs : RunIsActive(i) /\ RunIsConfirmed(i)

(* The Core is alive only beside sidecars that were all healthy, and the    *)
(* supervisor has gone only when nothing was left.                          *)
PlatformInd ==
    /\ service \in [Services -> Living \cup {"off", "dead"}]
    /\ gone \subseteq {s \in Services : service[s] = "dead"}
    /\ sawHealthy \subseteq Sidecars /\ stopping \in BOOLEAN
    /\ \A s \in Sidecars : service[s] # "off"
    /\ coreTurn => service[AgentCore] = "off"
    /\ done => stopping
    /\ exited => done
    /\ PlatformInv

-----------------------------------------------------------------------------
(* Sets of numbers.                                                        *)

(* A set of natural numbers has a least element.                            *)
LEMMA Least ==
    ASSUME NEW T, T \subseteq Nat, T # {}
    PROVE  \E n \in T : \A m \in T : n <= m
<1> DEFINE R == OpToRel(<, Nat)
<1>1. PICK x \in T : \A y \in T : <<y, x>> \notin R
  <2>1. IsWellFoundedOn(R, Nat)
    BY NatLessThanWellFounded
  <2> HIDE DEF R
  <2> QED  BY <2>1, WFMin, Zenon
<1>2. \A y \in T : ~(y < x)
  BY <1>1 DEF OpToRel
<1> QED  BY <1>2

(* A bounded one has a greatest element.                                    *)
LEMMA Greatest ==
    ASSUME NEW T, NEW N \in Nat, T \subseteq 0..N, T # {}
    PROVE  \E n \in T : \A m \in T : m <= n
<1> DEFINE U == {k \in Nat : \A m \in T : m <= k}
<1>1. N \in U
  OBVIOUS
<1>2. PICK n \in U : \A m \in U : n <= m
  <2>1. U \subseteq Nat /\ U # {}
    BY <1>1
  <2> HIDE DEF U
  <2> QED  BY <2>1, Least
<1>3. n \in T
  <2> SUFFICES ASSUME n \notin T PROVE FALSE
    OBVIOUS
  <2>1. \A m \in T : m <= n - 1
    BY <1>2
  <2>2. n - 1 \in Nat
    <3>1. PICK m \in T : TRUE
      OBVIOUS
    <3> QED  BY <2>1, <3>1, <1>2
  <2> QED  BY <2>1, <2>2, <1>2
<1> QED  BY <1>2, <1>3

(* A set of jobs is finite.                                                 *)
LEMMA JobsAreFinite ==
    ASSUME NEW S, S \subseteq JobIds
    PROVE  IsFiniteSet(S) /\ Cardinality(S) \in Nat
<1>1. IsFiniteSet(JobIds)
  BY FS_Interval, JobAssumption DEF JobIds
<1>2. IsFiniteSet(S)
  BY <1>1, FS_Subset
<1> QED  BY <1>2, FS_CardinalityType

-----------------------------------------------------------------------------
(* The scheduler's pump.                                                   *)

InLane(o, js, l) == {j \in js : o[j].lane = l}

(* Of the jobs js no two hold one resource, and no lane has too many.       *)
Exclusive(o, js) ==
    \A i, j \in js : i # j /\ o[i].resource # NoKey => o[i].resource # o[j].resource
Fits(o, js) == \A l \in Lanes : Cardinality(InLane(o, js, l)) <= Concurrency[l]

(* Of a lane's started jobs all but the last were considered before it.     *)
LEMMA LastOfLane ==
    ASSUME NEW o, NEW started, started \subseteq JobIds, NEW l, InLane(o, started, l) # {}
    PROVE  \E job \in started :
              /\ o[job].lane = l
              /\ InLane(o, started, l) \ {job} \subseteq {i \in started : Before(o, i, job)}
<1> DEFINE S == InLane(o, started, l)
<1>1. S \subseteq 0..MaxJobs /\ S # {}
  <2>1. JobIds \subseteq 0..MaxJobs
    BY JobAssumption DEF JobIds
  <2> QED  BY <2>1 DEF InLane
<1> HIDE DEF S
<1>2. PICK job \in S : \A m \in S : m <= job
  BY <1>1, Greatest, JobAssumption
<1>3. S = InLane(o, started, l)
  BY DEF S
<1>4. job \in started /\ o[job].lane = l
  BY <1>2, <1>3 DEF InLane
<1>5. ASSUME NEW i \in S, i # job PROVE i \in started /\ Before(o, i, job)
  <2>1. i < job
    BY <1>1, <1>2, <1>5
  <2> QED  BY <1>3, <1>4, <1>5, <2>1 DEF InLane, Before
<1> QED  BY <1>3, <1>4, <1>5

(* The pump keeps resources exclusive and lanes within their limits, loses   *)
(* no job, and leaves none waiting that could run.                          *)
LEMMA PumpSound ==
    ASSUME NEW o \in [JobIds -> Options],
           NEW waiting, waiting \subseteq JobIds, NEW running, running \subseteq JobIds,
           waiting \cap running = {},
           NEW taken, taken = ResourcesOf(o, running), Exclusive(o, running), Fits(o, running),
           PumpAll(o, waiting, running, taken)
    PROVE  /\ queuedJobs' \subseteq waiting /\ runningJobs' \subseteq waiting \cup running
           /\ queuedJobs' \cup runningJobs' = waiting \cup running
           /\ queuedJobs' \cap runningJobs' = {}
           /\ busy' = ResourcesOf(o, runningJobs')
           /\ Exclusive(o, runningJobs') /\ Fits(o, runningJobs')
           /\ \A j \in queuedJobs' :
                 \/ Cardinality(InLane(o, runningJobs', o[j].lane)) = Concurrency[o[j].lane]
                 \/ o[j].resource \in busy'
           /\ drains' = IF waiting = {} /\ running = {} THEN 0 ELSE drains
<1>1. PICK started \in SUBSET waiting :
        /\ \A j \in waiting : j \in started <=> Admits(o, started, running, taken, j)
        /\ queuedJobs' = waiting \ started
        /\ runningJobs' = running \cup started
        /\ busy' = taken \cup ResourcesOf(o, started)
        /\ drains' = IF waiting = {} /\ running = {} THEN 0 ELSE drains
  BY Zenon DEF PumpAll
<1> DEFINE earlier(job) == {i \in started : Before(o, i, job)}
<1>2. ASSUME NEW j \in waiting
      PROVE  j \in started <=>
                /\ Cardinality(InLane(o, running \cup earlier(j), o[j].lane)) < Concurrency[o[j].lane]
                /\ o[j].resource \notin taken \cup ResourcesOf(o, earlier(j))
  BY <1>1 DEF Admits, InLane
<1>3. \A j \in waiting : o[j].lane \in Lanes /\ Concurrency[o[j].lane] \in Nat
  BY LaneAssumption DEF Options
<1>4. Exclusive(o, running \cup started)
  <2> SUFFICES ASSUME NEW i \in running \cup started, NEW j \in running \cup started,
                      i # j, o[i].resource # NoKey, o[i].resource = o[j].resource
               PROVE  FALSE
    BY DEF Exclusive
  <2>1. CASE i \in running /\ j \in running
    BY <2>1 DEF Exclusive
  <2>2. ASSUME NEW a \in started, NEW b \in running, o[a].resource # NoKey,
               o[a].resource = o[b].resource
        PROVE  FALSE
    <3>1. o[a].resource \in taken
      BY <2>2 DEF ResourcesOf
    <3> QED  BY <1>1, <1>2, <3>1
  <2>3. ASSUME NEW a \in started, NEW b \in started, Before(o, a, b), o[a].resource # NoKey,
               o[a].resource = o[b].resource
        PROVE  FALSE
    <3>1. o[b].resource \in ResourcesOf(o, earlier(b))
      BY <2>3 DEF ResourcesOf
    <3> QED  BY <1>1, <1>2, <3>1
  <2>4. CASE i \in started /\ j \in started
    <3>1. i \in Nat /\ j \in Nat /\ o[i].lane \in Nat /\ o[j].lane \in Nat
      BY <1>1, <1>3, <2>4, LaneAssumption DEF JobIds, Lanes
    <3>2. Before(o, i, j) \/ Before(o, j, i)
      BY <3>1 DEF Before
    <3> QED  BY <2>3, <2>4, <3>2
  <2> QED  BY <2>1, <2>2, <2>4
<1>5. Fits(o, running \cup started)
  <2> SUFFICES ASSUME NEW l \in Lanes
               PROVE  Cardinality(InLane(o, running \cup started, l)) <= Concurrency[l]
    BY DEF Fits
  <2>1. CASE InLane(o, started, l) = {}
    <3>1. InLane(o, running \cup started, l) = InLane(o, running, l)
      BY <2>1 DEF InLane
    <3> QED  BY <3>1 DEF Fits
  <2>2. CASE InLane(o, started, l) # {}
    <3>1. PICK job \in started :
             /\ o[job].lane = l
             /\ InLane(o, started, l) \ {job} \subseteq {i \in started : Before(o, i, job)}
      <4>1. started \subseteq JobIds
        BY <1>1
      <4> QED  BY <2>2, <4>1, LastOfLane
    <3> DEFINE before == InLane(o, running \cup earlier(job), l)
    <3>2. Cardinality(before) < Concurrency[l]
      BY <1>1, <1>2, <3>1
    <3>3. InLane(o, running \cup started, l) \subseteq before \cup {job}
      BY <3>1 DEF InLane
    <3>4. IsFiniteSet(before) /\ Cardinality(before) \in Nat
      <4>1. before \subseteq JobIds
        BY <1>1 DEF InLane
      <4> QED  BY <4>1, JobsAreFinite
    <3>5. /\ IsFiniteSet(before \cup {job})
          /\ Cardinality(before \cup {job}) <= Cardinality(before) + 1
      <4> HIDE DEF before
      <4>1. /\ IsFiniteSet(before \cup {job})
            /\ Cardinality(before \cup {job}) =
                  IF job \in before THEN Cardinality(before) ELSE Cardinality(before) + 1
        BY <3>4, FS_AddElement
      <4> QED  BY <3>4, <4>1
    <3>6. Cardinality(InLane(o, running \cup started, l)) <= Cardinality(before \cup {job})
      <4> HIDE DEF before
      <4> QED  BY <3>3, <3>5, FS_Subset
    <3>7. Cardinality(InLane(o, running \cup started, l)) \in Nat
      <4>1. InLane(o, running \cup started, l) \subseteq JobIds
        BY <1>1 DEF InLane
      <4> QED  BY <4>1, JobsAreFinite
    <3>8. Cardinality(before \cup {job}) \in Nat /\ Concurrency[l] \in Nat
      <4> HIDE DEF before
      <4> QED  BY <3>5, FS_CardinalityType, LaneAssumption
    <3> HIDE DEF before
    <3> QED  BY <3>2, <3>4, <3>5, <3>6, <3>7, <3>8
  <2> QED  BY <2>1, <2>2
<1>6. busy' = ResourcesOf(o, running \cup started)
  BY <1>1 DEF ResourcesOf
<1>7. ASSUME NEW j \in waiting \ started
      PROVE  \/ Cardinality(InLane(o, running \cup started, o[j].lane)) = Concurrency[o[j].lane]
             \/ o[j].resource \in busy'
  <2>1. CASE o[j].resource \in taken \cup ResourcesOf(o, earlier(j))
    BY <1>1, <2>1 DEF ResourcesOf
  <2>2. CASE ~(Cardinality(InLane(o, running \cup earlier(j), o[j].lane)) < Concurrency[o[j].lane])
    <3> DEFINE part0 == InLane(o, running \cup earlier(j), o[j].lane)
               whole == InLane(o, running \cup started, o[j].lane)
    <3>1. part0 \subseteq whole /\ whole \subseteq JobIds /\ part0 \subseteq JobIds
      BY <1>1 DEF InLane
    <3>2. ~(Cardinality(part0) < Concurrency[o[j].lane])
      BY <2>2
    <3>3. Cardinality(whole) <= Concurrency[o[j].lane]
      BY <1>3, <1>5 DEF Fits
    <3> HIDE DEF part0, whole
    <3>4. Cardinality(part0) <= Cardinality(whole)
      BY <3>1, JobsAreFinite, FS_Subset
    <3>5. Cardinality(part0) \in Nat /\ Cardinality(whole) \in Nat
      BY <3>1, JobsAreFinite
    <3>6. Cardinality(whole) = Concurrency[o[j].lane]
      BY <1>3, <3>2, <3>3, <3>4, <3>5
    <3> QED  BY <3>6 DEF whole
  <2> QED  BY <1>2, <2>1, <2>2
<1> QED  BY <1>1, <1>4, <1>5, <1>6, <1>7

-----------------------------------------------------------------------------
(* The scheduler.                                                          *)

(* The invariant, with its lanes told apart from its keys.                  *)
LEMMA SchedulerInvIs ==
    SchedulerInv <=>
        /\ SchedulerTypeOK /\ DedupeExact /\ DrainsHaveWork
        /\ busy = ResourcesOf(jobOf, runningJobs)
        /\ Exclusive(jobOf, runningJobs) /\ Fits(jobOf, runningJobs)
        /\ \A j \in queuedJobs :
              \/ Cardinality(InLane(jobOf, runningJobs, jobOf[j].lane)) = Concurrency[jobOf[j].lane]
              \/ jobOf[j].resource \in busy
  BY DEF SchedulerInv, ResourcesExcluded, NothingWaitsInVain, Exclusive, Fits, InLane

(* Jobs beside a changed one keep what they hold.                           *)
LEMMA OtherJobs ==
    ASSUME NEW o \in [JobIds -> Options], NEW n \in JobIds, NEW options \in Options,
           NEW js, js \subseteq JobIds, n \notin js
    PROVE  LET p == [o EXCEPT ![n] = options]
           IN /\ p \in [JobIds -> Options] /\ p[n] = options
              /\ \A j \in js : p[j] = o[j]
              /\ ResourcesOf(p, js) = ResourcesOf(o, js)
              /\ \A l \in Lanes : InLane(p, js, l) = InLane(o, js, l)
              /\ Exclusive(o, js) => Exclusive(p, js)
              /\ Fits(o, js) => Fits(p, js)
<1> DEFINE p == [o EXCEPT ![n] = options]
<1>1. p \in [JobIds -> Options] /\ p[n] = options
  OBVIOUS
<1>2. \A j \in js : p[j] = o[j]
  OBVIOUS
<1> HIDE DEF p
<1>3. ResourcesOf(p, js) = ResourcesOf(o, js)
  BY <1>2 DEF ResourcesOf
<1>4. \A l \in Lanes : InLane(p, js, l) = InLane(o, js, l)
  BY <1>2 DEF InLane
<1>5. /\ Exclusive(o, js) => Exclusive(p, js)
      /\ Fits(o, js) => Fits(p, js)
  BY <1>2, <1>4 DEF Exclusive, Fits
<1> QED  BY <1>1, <1>2, <1>3, <1>4, <1>5 DEF p

(* The scheduler starts idle.                                               *)
LEMMA SchedulerStarts == SchedulerInit => SchedulerInv
<1> SUFFICES ASSUME SchedulerInit PROVE SchedulerInv
  OBVIOUS
<1>1. SchedulerTypeOK
  <2>1. 0 \in 0..MaxJobs
    BY JobAssumption
  <2>2. 1 \in Lanes
    BY LaneAssumption DEF Lanes
  <2>3. jobOf \in [JobIds -> Options]
    BY <2>2 DEF SchedulerInit, Options
  <2> QED  BY <2>1, <2>3 DEF SchedulerInit, SchedulerTypeOK
<1>2. DedupeExact /\ DrainsHaveWork
  BY JobAssumption DEF SchedulerInit, DedupeExact, DrainsHaveWork, JobIds
<1>3. ResourcesOf(jobOf, runningJobs) = {} /\ Exclusive(jobOf, runningJobs)
  BY DEF SchedulerInit, ResourcesOf, Exclusive
<1>4. Fits(jobOf, runningJobs)
  <2>1. \A l \in Lanes : InLane(jobOf, runningJobs, l) = {}
    BY DEF SchedulerInit, InLane
  <2> QED  BY <2>1, FS_EmptySet, LaneAssumption DEF Fits
<1> QED  BY <1>1, <1>2, <1>3, <1>4, SchedulerInvIs DEF SchedulerInit

(* schedule(): a new job is queued, no live one has its key, and the pump    *)
(* runs.                                                                   *)
LEMMA ScheduleKeeps ==
    ASSUME SchedulerInv, NEW options \in Options, ScheduleJob(options)
    PROVE  /\ SchedulerInv' /\ lastJob' = lastJob + 1
           /\ queuedJobs' \cup runningJobs' = queuedJobs \cup runningJobs \cup {lastJob + 1}
<1> DEFINE n == lastJob + 1
           key == options.key
<1>0. /\ SchedulerTypeOK /\ DedupeExact
      /\ busy = ResourcesOf(jobOf, runningJobs)
      /\ Exclusive(jobOf, runningJobs) /\ Fits(jobOf, runningJobs)
  BY SchedulerInvIs
<1>1. /\ lastJob < MaxJobs /\ ~Joins(key) /\ lastJob' = n
      /\ jobOf' = [jobOf EXCEPT ![n] = options]
      /\ deduped' = IF key = NoKey THEN deduped ELSE [deduped EXCEPT ![key] = n]
      /\ PumpAll(jobOf', queuedJobs \cup {n}, runningJobs, busy)
  BY DEF ScheduleJob
<1>2. /\ lastJob \in Nat /\ n \in JobIds /\ n \notin 0..lastJob
      /\ queuedJobs \subseteq JobIds /\ runningJobs \subseteq JobIds
      /\ queuedJobs \cap runningJobs = {} /\ n \notin queuedJobs \cup runningJobs
      /\ jobOf \in [JobIds -> Options] /\ deduped \in [DedupeKeys -> 0..lastJob]
  BY <1>0, <1>1, JobAssumption DEF SchedulerTypeOK, JobIds
<1>3. key \in DedupeKeys \cup {NoKey}
  BY DEF Options
<1> HIDE DEF n, key
<1>4. /\ jobOf' \in [JobIds -> Options] /\ jobOf'[n] = options
      /\ \A j \in queuedJobs \cup runningJobs : jobOf'[j] = jobOf[j]
      /\ busy = ResourcesOf(jobOf', runningJobs)
      /\ Exclusive(jobOf', runningJobs) /\ Fits(jobOf', runningJobs)
  <2> DEFINE p == [jobOf EXCEPT ![n] = options]
  <2>1. runningJobs \subseteq JobIds /\ n \notin runningJobs
    BY <1>2
  <2>2. /\ ResourcesOf(p, runningJobs) = ResourcesOf(jobOf, runningJobs)
        /\ Exclusive(p, runningJobs) /\ Fits(p, runningJobs)
    BY <1>0, <1>2, <2>1, OtherJobs, ZenonT(40)
  <2>3. /\ jobOf' \in [JobIds -> Options] /\ jobOf'[n] = options
        /\ \A j \in queuedJobs \cup runningJobs : jobOf'[j] = jobOf[j]
    BY <1>1, <1>2
  <2>4. jobOf' = p
    BY <1>1
  <2> HIDE DEF p
  <2> QED  BY <1>0, <2>2, <2>3, <2>4
<1>5. /\ queuedJobs' \subseteq queuedJobs \cup {n}
      /\ runningJobs' \subseteq queuedJobs \cup {n} \cup runningJobs
      /\ queuedJobs' \cup runningJobs' = queuedJobs \cup {n} \cup runningJobs
      /\ queuedJobs' \cap runningJobs' = {}
      /\ busy' = ResourcesOf(jobOf', runningJobs')
      /\ Exclusive(jobOf', runningJobs') /\ Fits(jobOf', runningJobs')
      /\ \A j \in queuedJobs' :
            \/ Cardinality(InLane(jobOf', runningJobs', jobOf'[j].lane)) = Concurrency[jobOf'[j].lane]
            \/ jobOf'[j].resource \in busy'
      /\ drains' = IF queuedJobs \cup {n} = {} /\ runningJobs = {} THEN 0 ELSE drains
  <2> DEFINE waiting == queuedJobs \cup {n}
  <2>1. waiting \subseteq JobIds /\ waiting \cap runningJobs = {}
    BY <1>2
  <2>2. PumpAll(jobOf', waiting, runningJobs, busy)
    BY <1>1
  <2> HIDE DEF waiting
  <2>o. PICK o \in [JobIds -> Options] : o = jobOf'
    BY <1>4
  <2>p. /\ busy = ResourcesOf(o, runningJobs) /\ Exclusive(o, runningJobs) /\ Fits(o, runningJobs)
        /\ PumpAll(o, waiting, runningJobs, busy)
    BY <1>4, <2>2, <2>o
  <2>3. /\ queuedJobs' \subseteq waiting /\ runningJobs' \subseteq waiting \cup runningJobs
        /\ queuedJobs' \cup runningJobs' = waiting \cup runningJobs
        /\ queuedJobs' \cap runningJobs' = {}
        /\ busy' = ResourcesOf(jobOf', runningJobs')
        /\ Exclusive(jobOf', runningJobs') /\ Fits(jobOf', runningJobs')
        /\ \A j \in queuedJobs' :
              \/ Cardinality(InLane(jobOf', runningJobs', jobOf'[j].lane)) = Concurrency[jobOf'[j].lane]
              \/ jobOf'[j].resource \in busy'
        /\ drains' = IF waiting = {} /\ runningJobs = {} THEN 0 ELSE drains
    <3>1. /\ queuedJobs' \subseteq waiting /\ runningJobs' \subseteq waiting \cup runningJobs
          /\ queuedJobs' \cup runningJobs' = waiting \cup runningJobs
          /\ queuedJobs' \cap runningJobs' = {}
          /\ busy' = ResourcesOf(o, runningJobs')
          /\ Exclusive(o, runningJobs') /\ Fits(o, runningJobs')
          /\ \A j \in queuedJobs' :
                \/ Cardinality(InLane(o, runningJobs', o[j].lane)) = Concurrency[o[j].lane]
                \/ o[j].resource \in busy'
          /\ drains' = IF waiting = {} /\ runningJobs = {} THEN 0 ELSE drains
      BY <1>2, <2>1, <2>p, PumpSound, Zenon
    <3> QED  BY <2>o, <3>1
  <2> QED  BY <2>3 DEF waiting
<1>6. SchedulerTypeOK'
  <2>1. lastJob' \in 0..MaxJobs /\ queuedJobs' \subseteq 1..lastJob' /\ runningJobs' \subseteq 1..lastJob'
    <3>1. queuedJobs \subseteq 1..lastJob /\ runningJobs \subseteq 1..lastJob
      BY <1>0 DEF SchedulerTypeOK
    <3>2. n = lastJob + 1
      BY DEF n
    <3>3. lastJob' = n /\ n \in Nat /\ n <= MaxJobs
      BY <1>1, <1>2, <3>2, JobAssumption
    <3>4. \A j \in 1..lastJob : j \in 1..n
      BY <1>2, <3>2
    <3>5. n \in 1..n
      BY <1>2, <3>2
    <3>6. queuedJobs' \subseteq 1..n /\ runningJobs' \subseteq 1..n
      <4>1. queuedJobs \cup {n} \cup runningJobs \subseteq 1..n
        BY <3>1, <3>4, <3>5
      <4> QED  BY <1>5, <4>1
    <3>7. lastJob' \in 0..MaxJobs
      BY <3>3, JobAssumption
    <3> QED  BY <3>3, <3>6, <3>7
  <2>2. busy' \subseteq Resources
    BY <1>2, <1>4, <1>5 DEF ResourcesOf, Options
  <2>3. deduped' \in [DedupeKeys -> 0..lastJob']
    <3>1. n = lastJob + 1
      BY DEF n
    <3> QED  BY <1>1, <1>2, <1>3, <3>1
  <2>4. drains' \in {0, 1}
    BY <1>0, <1>5 DEF SchedulerTypeOK
  <2> QED  BY <1>4, <1>5, <2>1, <2>2, <2>3, <2>4 DEF SchedulerTypeOK
<1>7. DedupeExact'
  <2> SUFFICES ASSUME NEW j \in JobIds, NEW k \in DedupeKeys
               PROVE  deduped'[k] = j <=> j \in queuedJobs' \cup runningJobs' /\ jobOf'[j].key = k
    BY DEF DedupeExact
  <2>1. deduped[k] = j <=> j \in queuedJobs \cup runningJobs /\ jobOf[j].key = k
    BY <1>0 DEF DedupeExact
  <2>2. deduped[k] # n
    BY <1>2
  <2>3. k # NoKey /\ key = jobOf'[n].key
    BY <1>4, KeyAssumption DEF key
  <2>4. key # NoKey => deduped[key] = 0
    BY <1>1 DEF Joins
  <2>5. j # 0
    BY JobAssumption DEF JobIds
  <2>6. CASE j = n
    BY <1>1, <1>2, <1>3, <1>5, <2>2, <2>3, <2>6
  <2>7. CASE j # n
    <3>1. deduped'[k] = j <=> deduped[k] = j /\ k # key
      BY <1>1, <1>2, <1>3, <2>3, <2>4, <2>5, <2>7
    <3>2. j \in queuedJobs' \cup runningJobs' <=> j \in queuedJobs \cup runningJobs
      BY <1>5, <2>7
    <3>3. deduped[k] = j => k # key
      BY <2>3, <2>4, <2>5
    <3> QED  BY <1>4, <2>1, <3>1, <3>2, <3>3
  <2> QED  BY <2>6, <2>7
<1>8. DrainsHaveWork'
  BY <1>5 DEF DrainsHaveWork
<1>9. lastJob' = lastJob + 1
  BY <1>1 DEF n
<1>10. ResourcesExcluded' /\ NothingWaitsInVain'
  BY <1>5 DEF ResourcesExcluded, NothingWaitsInVain, Exclusive, Fits, InLane
<1>11. queuedJobs' \cup runningJobs' = queuedJobs \cup runningJobs \cup {lastJob + 1}
  BY <1>5 DEF n
<1> QED
  BY <1>6, <1>7, <1>8, <1>9, <1>10, <1>11 DEF SchedulerInv

(* A job that settles gives back its slot, its resource and its key, and    *)
(* every lane is pumped.                                                   *)
LEMMA SettleKeeps ==
    ASSUME SchedulerInv, NEW n \in JobIds, SettleJob(n)
    PROVE  /\ SchedulerInv' /\ lastJob' = lastJob
           /\ queuedJobs' \cup runningJobs' = (queuedJobs \cup runningJobs) \ {n}
<1> DEFINE key == jobOf[n].key
           rest == runningJobs \ {n}
<1>0. /\ SchedulerTypeOK /\ DedupeExact
      /\ busy = ResourcesOf(jobOf, runningJobs)
      /\ Exclusive(jobOf, runningJobs) /\ Fits(jobOf, runningJobs)
  BY SchedulerInvIs
<1>1. /\ n \in runningJobs /\ UNCHANGED <<lastJob, jobOf>>
      /\ deduped' = IF key = NoKey THEN deduped ELSE [deduped EXCEPT ![key] = 0]
      /\ PumpAll(jobOf, queuedJobs, rest, busy \ {jobOf[n].resource})
  BY DEF SettleJob, PumpAfter
<1>2. /\ lastJob \in Nat
      /\ queuedJobs \subseteq JobIds /\ runningJobs \subseteq JobIds /\ rest \subseteq JobIds
      /\ queuedJobs \cap runningJobs = {} /\ queuedJobs \cap rest = {}
      /\ jobOf \in [JobIds -> Options] /\ deduped \in [DedupeKeys -> 0..lastJob]
  BY <1>0, JobAssumption DEF SchedulerTypeOK, JobIds
<1>3. key \in DedupeKeys \cup {NoKey}
  BY <1>2 DEF Options
<1>4. busy \ {jobOf[n].resource} = ResourcesOf(jobOf, rest)
  BY <1>0, <1>1 DEF ResourcesOf, Exclusive
<1>5. Exclusive(jobOf, rest)
  BY <1>0 DEF Exclusive
<1>6. Fits(jobOf, rest)
  <2> SUFFICES ASSUME NEW l \in Lanes
               PROVE  Cardinality(InLane(jobOf, rest, l)) <= Concurrency[l]
    BY DEF Fits
  <2> DEFINE A == InLane(jobOf, rest, l)
             B == InLane(jobOf, runningJobs, l)
  <2>1. A \subseteq B /\ A \subseteq JobIds /\ B \subseteq JobIds /\ Cardinality(B) <= Concurrency[l]
    BY <1>0, <1>2 DEF InLane, Fits
  <2> HIDE DEF A, B
  <2>2. IsFiniteSet(B) /\ Cardinality(B) \in Nat /\ Cardinality(A) \in Nat
    BY <2>1, JobsAreFinite
  <2>3. Cardinality(A) <= Cardinality(B)
    BY <2>1, <2>2, FS_Subset
  <2>4. Cardinality(A) <= Concurrency[l]
    BY <2>1, <2>2, <2>3, LaneAssumption
  <2> QED  BY <2>4 DEF A
<1> HIDE DEF key
<1>7. /\ queuedJobs' \subseteq queuedJobs /\ runningJobs' \subseteq queuedJobs \cup rest
      /\ queuedJobs' \cup runningJobs' = queuedJobs \cup rest
      /\ queuedJobs' \cap runningJobs' = {}
      /\ busy' = ResourcesOf(jobOf, runningJobs')
      /\ Exclusive(jobOf, runningJobs') /\ Fits(jobOf, runningJobs')
      /\ \A j \in queuedJobs' :
            \/ Cardinality(InLane(jobOf, runningJobs', jobOf[j].lane)) = Concurrency[jobOf[j].lane]
            \/ jobOf[j].resource \in busy'
      /\ drains' = IF queuedJobs = {} /\ rest = {} THEN 0 ELSE drains
  <2> DEFINE taken == busy \ {jobOf[n].resource}
  <2>1. PumpAll(jobOf, queuedJobs, rest, taken) /\ taken = ResourcesOf(jobOf, rest)
    BY <1>1, <1>4
  <2> HIDE DEF rest, taken
  <2> QED  BY <1>2, <1>5, <1>6, <2>1, PumpSound, Zenon
<1>8. queuedJobs' \cup runningJobs' = (queuedJobs \cup runningJobs) \ {n}
  BY <1>1, <1>2, <1>7
<1>9. SchedulerTypeOK'
  <2>1. queuedJobs' \subseteq 1..lastJob /\ runningJobs' \subseteq 1..lastJob
    <3>1. queuedJobs \subseteq 1..lastJob /\ runningJobs \subseteq 1..lastJob
      BY <1>0 DEF SchedulerTypeOK
    <3> QED  BY <1>7, <3>1
  <2>2. busy' \subseteq Resources
    <3>1. \A j \in runningJobs' : jobOf[j] \in Options
      BY <1>2, <1>7
    <3> QED  BY <1>7, <3>1 DEF ResourcesOf, Options
  <2>3. deduped' \in [DedupeKeys -> 0..lastJob]
    BY <1>1, <1>2, <1>3
  <2>4. drains' \in {0, 1}
    BY <1>0, <1>7 DEF SchedulerTypeOK
  <2> QED  BY <1>0, <1>1, <1>7, <2>1, <2>2, <2>3, <2>4 DEF SchedulerTypeOK
<1>10. DedupeExact'
  <2> SUFFICES ASSUME NEW j \in JobIds, NEW k \in DedupeKeys
               PROVE  deduped'[k] = j <=> j \in queuedJobs' \cup runningJobs' /\ jobOf[j].key = k
    BY <1>1 DEF DedupeExact
  <2>1. deduped[k] = j <=> j \in queuedJobs \cup runningJobs /\ jobOf[j].key = k
    BY <1>0 DEF DedupeExact
  <2>2. k # NoKey /\ j # 0
    BY KeyAssumption, JobAssumption DEF JobIds
  <2>3. CASE k = key
    <3>1. deduped'[k] = 0 /\ deduped[k] = n
      BY <1>0, <1>1, <1>2, <2>2, <2>3 DEF DedupeExact, key
    <3> QED  BY <1>8, <2>1, <2>2, <3>1
  <2>4. CASE k # key
    <3>1. deduped'[k] = deduped[k] /\ jobOf[n].key # k
      BY <1>1, <1>2, <1>3, <2>4 DEF key
    <3> QED  BY <1>8, <2>1, <3>1
  <2> QED  BY <2>3, <2>4
<1>11. DrainsHaveWork'
  BY <1>7 DEF DrainsHaveWork
<1>12. ResourcesExcluded' /\ NothingWaitsInVain'
  BY <1>1, <1>7 DEF ResourcesExcluded, NothingWaitsInVain, Exclusive, Fits, InLane
<1> QED
  BY <1>1, <1>8, <1>9, <1>10, <1>11, <1>12 DEF SchedulerInv

(* The scheduler keeps its invariant.                                       *)
LEMMA SchedulerKeeps ==
    ASSUME SchedulerInv, [SchedulerNext]_schedulerVars
    PROVE  SchedulerInv'
<1>1. CASE \E options \in Options : ScheduleJob(options)
  BY <1>1, ScheduleKeeps
<1>2. CASE \E j \in JobIds : SettleJob(j)
  BY <1>2, SettleKeeps
<1>3. CASE DrainJobs
  <2>1. /\ UNCHANGED <<lastJob, jobOf, queuedJobs, runningJobs, busy, deduped>> /\ drains' = 1
        /\ queuedJobs \cup runningJobs # {}
    BY <1>3 DEF DrainJobs
  <2>2. SchedulerTypeOK' /\ DedupeExact' /\ DrainsHaveWork'
    BY <2>1 DEF SchedulerInv, SchedulerTypeOK, DedupeExact, DrainsHaveWork
  <2> QED  BY <2>1, <2>2 DEF SchedulerInv, ResourcesExcluded, NothingWaitsInVain
<1>4. CASE UNCHANGED schedulerVars
  BY <1>4 DEF schedulerVars, SchedulerInv, SchedulerTypeOK, ResourcesExcluded, DedupeExact,
              NothingWaitsInVain, DrainsHaveWork
<1> QED  BY <1>1, <1>2, <1>3, <1>4 DEF SchedulerNext

(* SchedulerInv: over any lanes, resources and keys the scheduler keeps      *)
(* exclusive work apart, never starves a job that could run, shares only     *)
(* the promise of live work, and resolves every drain.                      *)
THEOREM SchedulerIsSound == SchedulerSpec => []SchedulerInv
  BY SchedulerStarts, SchedulerKeeps, PTL DEF SchedulerSpec

-----------------------------------------------------------------------------
(* Background tasks: what is announced of a task.                          *)

(* Of a task and a flag the event queue holds at most one notice.           *)
LEMMA OneNotice ==
    ASSUME NEW ns, ns \subseteq Notice, NEW t \in Tasks, NEW ok \in BOOLEAN
    PROVE  Cardinality({n \in ns : n.task = t /\ n.ok = ok}) = One(ns, [task |-> t, ok |-> ok])
<1> DEFINE S == {n \in ns : n.task = t /\ n.ok = ok}
           r == [task |-> t, ok |-> ok]
<1>1. \A n \in ns : n.task = t /\ n.ok = ok => n = r
  BY DEF Notice
<1>2. CASE r \in ns
  <2>1. S = {r}
    BY <1>1, <1>2
  <2>2. Cardinality({r}) = 1
    BY FS_Singleton
  <2> QED  BY <1>2, <2>1, <2>2 DEF One
<1>3. CASE r \notin ns
  <2>1. S = {}
    BY <1>1, <1>3
  <2> QED  BY <1>3, <2>1, FS_EmptySet DEF One
<1> QED  BY <1>2, <1>3

(* NoticesAreTrue follows from the registry.                                *)
LEMMA NoticesAreAsTheFile ==
    ASSUME TasksInd
    PROVE  NoticesAreTrue
<1> SUFFICES ASSUME NEW t \in Tasks
             PROVE  /\ Announced(t, TRUE) > 0 =>
                          /\ taskDisk[t] \in {"completed", "gone"}
                          /\ Announced(t, TRUE) + Announced(t, FALSE) = 1
                    /\ writeFailures = 0 => Announced(t, TRUE) + Announced(t, FALSE) <= 1
  BY DEF NoticesAreTrue
<1>1. notices \subseteq Notice /\ told[t][TRUE] \in Nat /\ told[t][FALSE] \in Nat
  BY DEF TasksInd, TaskTypeOK
<1> DEFINE yes == Announced(t, TRUE)
           no == Announced(t, FALSE)
<1>2. yes = Successes(t)
  BY <1>1, OneNotice DEF Announced, Successes, Yes
<1>3. no = Failures(t)
  BY <1>1, OneNotice DEF Announced, Failures, No
<1>4. /\ Successes(t) > 0 => /\ taskDisk[t] \in {"completed", "gone"}
                             /\ Failures(t) = 0 /\ Successes(t) = 1
      /\ writeFailures = 0 => Successes(t) + Failures(t) <= 1
  BY DEF TasksInd, NoticesFollowRegistry
<1> HIDE DEF yes, no
<1>5. /\ yes > 0 => taskDisk[t] \in {"completed", "gone"} /\ yes + no = 1
      /\ writeFailures = 0 => yes + no <= 1
  BY <1>2, <1>3, <1>4
<1> QED  BY <1>5 DEF yes, no

(* A change of one task's state that is written to the registry's file, or   *)
(* whose write fails; finished tasks may expire.                            *)
Changes(t, s, old) ==
    /\ taskStatus' = Expired([taskStatus EXCEPT ![t] = s], old)
    /\ \/ taskDisk' = taskStatus' /\ writeFailures' = writeFailures
       \/ taskDisk' = taskDisk /\ writeFailures' = writeFailures + 1

(* A change leaves the other tasks as they are, but for those that expire.   *)
LEMMA ChangesAre ==
    ASSUME TaskTypeOK, NEW t \in Tasks, NEW s \in Statuses, NEW old \in Old(taskStatus),
           taskStatus[t] \in {"none", "running"}, Changes(t, s, old)
    PROVE  /\ taskStatus' \in [Tasks -> Statuses] /\ taskDisk' \in [Tasks -> Statuses]
           /\ writeFailures' \in Nat
           /\ taskStatus'[t] = s
           /\ \A u \in Tasks \ {t} :
                 \/ taskStatus'[u] = taskStatus[u]
                 \/ taskStatus[u] \in Terminal /\ taskStatus'[u] = "gone"
<1>1. /\ taskStatus \in [Tasks -> Statuses] /\ taskDisk \in [Tasks -> Statuses] /\ writeFailures \in Nat
      /\ old \subseteq {u \in Tasks : taskStatus[u] \in Terminal}
  BY DEF TaskTypeOK, Old
<1>2. taskStatus' = [u \in Tasks |-> IF u \in old THEN "gone" ELSE IF u = t THEN s ELSE taskStatus[u]]
  BY <1>1 DEF Changes, Expired
<1>3. taskStatus' \in [Tasks -> Statuses]
  BY <1>1, <1>2 DEF Statuses
<1>4. t \notin old
  BY <1>1 DEF Terminal
<1>5. taskDisk' \in [Tasks -> Statuses] /\ writeFailures' \in Nat
  <2>1. CASE taskDisk' = taskStatus' /\ writeFailures' = writeFailures
    <3>1. taskDisk' \in [Tasks -> Statuses]
      BY <1>3, <2>1, Zenon
    <3> QED  BY <1>1, <2>1, <3>1
  <2>2. CASE taskDisk' = taskDisk /\ writeFailures' = writeFailures + 1
    <3>1. taskDisk' \in [Tasks -> Statuses]
      BY <1>1, <2>2, Zenon
    <3> QED  BY <1>1, <2>2, <3>1
  <2> QED  BY <2>1, <2>2 DEF Changes
<1>6. taskStatus'[t] = s
  BY <1>2, <1>4
<1>7. ASSUME NEW u \in Tasks \ {t}
      PROVE  \/ taskStatus'[u] = taskStatus[u]
             \/ taskStatus[u] \in Terminal /\ taskStatus'[u] = "gone"
  BY <1>1, <1>2
<1> QED  BY <1>3, <1>5, <1>6, <1>7

(* A task that is registered, or ends with or without a notice, is announced *)
(* at most as the file says.                                               *)
LEMMA NoticesKeep ==
    ASSUME TaskTypeOK, NoticesFollowRegistry,
           NEW t \in Tasks, NEW s \in Terminal \cup {"running"}, NEW old \in Old(taskStatus),
           Changes(t, s, old), told' = told,
           \/ s = "running" /\ taskStatus[t] = "none" /\ notices' = notices
           \/ s # "running" /\ taskStatus[t] = "running" /\ notices' = notices
           \/ /\ s = "completed" /\ taskStatus[t] = "running" /\ taskDisk' = taskStatus'
              /\ notices' = notices \cup {Yes(t)}
           \/ /\ s # "running" /\ taskStatus[t] = "running" /\ notices' = notices \cup {No(t)}
    PROVE  NoticesFollowRegistry' /\ notices' \subseteq Notice
<1>0. /\ notices \subseteq Notice
      /\ \A u \in Tasks : told[u][TRUE] \in Nat /\ told[u][FALSE] \in Nat
  BY DEF TaskTypeOK
<1>1. /\ taskStatus' \in [Tasks -> Statuses] /\ taskDisk' \in [Tasks -> Statuses] /\ writeFailures' \in Nat
      /\ taskStatus'[t] = s
      /\ \A u \in Tasks \ {t} :
            \/ taskStatus'[u] = taskStatus[u]
            \/ taskStatus[u] \in Terminal /\ taskStatus'[u] = "gone"
  <2>1. s \in Statuses /\ taskStatus[t] \in {"none", "running"}
    BY DEF Statuses
  <2> QED  BY <2>1, ChangesAre
<1>2. notices' \subseteq Notice
  <2>1. Yes(t) \in Notice /\ No(t) \in Notice
    BY DEF Notice, Yes, No
  <2> QED  BY <1>0, <2>1
<1>3. \A u \in Tasks \ {t} : {Yes(u), No(u)} \cap {Yes(t), No(t)} = {}
  BY DEF Yes, No
<1>4. Yes(t) # No(t)
  BY DEF Yes, No
<1>5. ASSUME NEW u \in Tasks \ {t}
      PROVE  Successes(u)' = Successes(u) /\ Failures(u)' = Failures(u)
  <2>1. /\ Yes(u) \in notices' <=> Yes(u) \in notices
        /\ No(u) \in notices' <=> No(u) \in notices
    BY <1>3
  <2> QED  BY <2>1 DEF Successes, Failures, One, Yes, No
<1>6. /\ told[t][TRUE] = 0 /\ told[t][FALSE] = 0 /\ Yes(t) \notin notices /\ No(t) \notin notices
  <2>1. Successes(t) = 0 /\ Failures(t) = 0
    BY DEF NoticesFollowRegistry
  <2>2. told[t][TRUE] \in Nat /\ told[t][FALSE] \in Nat
    BY <1>0
  <2>3. /\ told[t][TRUE] + One(notices, Yes(t)) = 0
        /\ told[t][FALSE] + One(notices, No(t)) = 0
    BY <2>1 DEF Successes, Failures
  <2>4. One(notices, Yes(t)) \in {0, 1} /\ One(notices, No(t)) \in {0, 1}
    BY DEF One
  <2>5. \A a \in Nat, b \in {0, 1} : a + b = 0 => a = 0 /\ b = 0
    OBVIOUS
  <2>6. /\ told[t][TRUE] = 0 /\ told[t][FALSE] = 0
        /\ One(notices, Yes(t)) = 0 /\ One(notices, No(t)) = 0
    BY <2>2, <2>3, <2>4, <2>5
  <2> QED  BY <2>6 DEF One
<1>7. \/ notices' = notices /\ Successes(t)' = 0 /\ Failures(t)' = 0
      \/ s = "completed" /\ taskDisk' = taskStatus' /\ Successes(t)' = 1 /\ Failures(t)' = 0
      \/ s # "running" /\ Successes(t)' = 0 /\ Failures(t)' = 1
  <2>1. /\ Successes(t)' = IF Yes(t) \in notices' THEN 1 ELSE 0
        /\ Failures(t)' = IF No(t) \in notices' THEN 1 ELSE 0
    BY <1>6 DEF Successes, Failures, One, Yes, No
  <2> QED  BY <1>4, <1>6, <2>1
<1>8. writeFailures' = 0 => writeFailures = 0 /\ taskDisk' = taskStatus'
  BY DEF Changes, TaskTypeOK
<1>9. ASSUME NEW u \in Tasks
      PROVE  /\ taskStatus'[u] \in {"none", "running"} => Successes(u)' = 0 /\ Failures(u)' = 0
             /\ Successes(u)' > 0 => /\ taskStatus'[u] \in {"completed", "gone"}
                                    /\ taskDisk'[u] \in {"completed", "gone"}
                                    /\ Failures(u)' = 0 /\ Successes(u)' = 1
             /\ writeFailures' = 0 => Successes(u)' + Failures(u)' <= 1
  <2>1. CASE u = t
    <3>1. /\ s \in {"none", "running"} => notices' = notices
      BY DEF Terminal
    <3>2. s \in {"none", "running"} => Successes(t)' = 0 /\ Failures(t)' = 0
      <4>1. notices' = notices => Successes(t)' = 0 /\ Failures(t)' = 0
        BY <1>6 DEF Successes, Failures, One, Yes, No
      <4> QED  BY <3>1, <4>1
    <3> QED  BY <1>1, <1>7, <2>1, <3>2
  <2>2. CASE u # t
    <3>1. Successes(u)' = Successes(u) /\ Failures(u)' = Failures(u)
      BY <1>5, <2>2
    <3>2. /\ taskStatus[u] \in {"none", "running"} => Successes(u) = 0 /\ Failures(u) = 0
          /\ Successes(u) > 0 => /\ taskStatus[u] \in {"completed", "gone"}
                                /\ taskDisk[u] \in {"completed", "gone"}
                                /\ Failures(u) = 0 /\ Successes(u) = 1
          /\ writeFailures = 0 => Successes(u) + Failures(u) <= 1
      BY DEF NoticesFollowRegistry
    <3>3. \/ taskStatus'[u] = taskStatus[u]
          \/ taskStatus[u] \in Terminal /\ taskStatus'[u] = "gone"
      BY <1>1, <2>2
    <3>4. taskDisk'[u] \in {taskDisk[u], taskStatus'[u]}
      BY DEF Changes
    <3> QED  BY <1>8, <3>1, <3>2, <3>3, <3>4
  <2> QED  BY <2>1, <2>2
<1> QED  BY <1>2, <1>8, <1>9 DEF NoticesFollowRegistry

-----------------------------------------------------------------------------
(* Background tasks: the slots.                                            *)

(* A set of tasks is finite.                                                *)
LEMMA TasksAreFinite ==
    ASSUME NEW S, S \subseteq Tasks
    PROVE  IsFiniteSet(S) /\ Cardinality(S) \in Nat
<1>1. IsFiniteSet(Tasks)
  BY FS_Interval, TaskLimitAssumption DEF Tasks
<1> QED  BY <1>1, FS_Subset, FS_CardinalityType

(* Admission counts the new task; a task that ends gives its slot back.     *)
LEMMA SlotsCount ==
    ASSUME TaskTypeOK, Cardinality(RunningTasks) <= MaxActiveTasks,
           NEW t \in Tasks, NEW s \in Terminal \cup {"running"}, NEW old \in Old(taskStatus),
           Changes(t, s, old), taskStatus[t] \in {"none", "running"},
           s = "running" => taskStatus[t] = "none" /\ Cardinality(RunningTasks) < MaxActiveTasks
    PROVE  /\ Cardinality(RunningTasks') <= MaxActiveTasks
           /\ \A u \in Tasks \ {t} : u \in RunningTasks' <=> u \in RunningTasks
           /\ t \in RunningTasks' <=> s = "running"
<1>1. /\ taskStatus'[t] = s
      /\ \A u \in Tasks \ {t} :
            \/ taskStatus'[u] = taskStatus[u]
            \/ taskStatus[u] \in Terminal /\ taskStatus'[u] = "gone"
  <2>1. s \in Statuses
    BY DEF Statuses
  <2> QED  BY <2>1, ChangesAre
<1>2. /\ \A u \in Tasks \ {t} : u \in RunningTasks' <=> u \in RunningTasks
      /\ t \in RunningTasks' <=> s = "running"
  BY <1>1 DEF RunningTasks, Terminal
<1>3. RunningTasks \subseteq Tasks /\ RunningTasks' \subseteq Tasks
  BY DEF RunningTasks
<1>4. IsFiniteSet(RunningTasks) /\ Cardinality(RunningTasks) \in Nat /\ Cardinality(RunningTasks') \in Nat
  BY <1>3, TasksAreFinite
<1>5. CASE s = "running"
  <2>1. RunningTasks' = RunningTasks \cup {t}
    BY <1>2, <1>3, <1>5
  <2>2. Cardinality(RunningTasks \cup {t})
           = IF t \in RunningTasks THEN Cardinality(RunningTasks) ELSE Cardinality(RunningTasks) + 1
    BY <1>4, FS_AddElement
  <2> QED  BY <1>2, <1>4, <1>5, <2>1, <2>2, TaskLimitAssumption
<1>6. CASE s # "running"
  <2>1. RunningTasks' \subseteq RunningTasks
    BY <1>2, <1>3, <1>6
  <2>2. Cardinality(RunningTasks') <= Cardinality(RunningTasks)
    BY <1>4, <2>1, FS_Subset
  <2> QED  BY <1>2, <1>4, <2>2, TaskLimitAssumption
<1> QED  BY <1>5, <1>6

-----------------------------------------------------------------------------
(* Background tasks: the steps.                                            *)

(* The registry starts empty.                                               *)
LEMMA TasksStart == BackgroundInit => TasksInd
<1> SUFFICES ASSUME BackgroundInit PROVE TasksInd
  OBVIOUS
<1>1. TaskTypeOK
  BY DEF BackgroundInit, TaskTypeOK, Statuses, Workers, NoCount
<1>2. RunningTasks = {} /\ Cardinality(RunningTasks) = 0
  BY FS_EmptySet DEF BackgroundInit, RunningTasks
<1>3. SlotsAreHeldByWork
  BY <1>2, TaskLimitAssumption DEF BackgroundInit, SlotsAreHeldByWork
<1>4. \A t \in Tasks : Successes(t) = 0 /\ Failures(t) = 0
  BY DEF BackgroundInit, NoCount, Successes, Failures, One
<1>5. NoticesFollowRegistry
  BY <1>4 DEF BackgroundInit, NoticesFollowRegistry
<1> QED  BY <1>1, <1>3, <1>5 DEF TasksInd

(* A registered task holds a slot with its worker, or its write failed.     *)
LEMMA RegisterKeeps ==
    ASSUME TasksInd, NEW t \in Tasks, NEW old \in Old(taskStatus), Admitted(t),
           Changes(t, "running", old), UNCHANGED <<notices, told>>,
           queuedJobs \cup runningJobs \subseteq queuedJobs' \cup runningJobs',
           taskJob' \in [Tasks -> Nat], \A u \in Tasks \ {t} : taskJob'[u] = taskJob[u],
           NEW worker \in Workers, taskWorker' = [taskWorker EXCEPT ![t] = worker],
           worker = "none" => writeFailures' = writeFailures + 1,
           worker = "fetching" => taskJob'[t] \in queuedJobs' \cup runningJobs'
    PROVE  TasksInd'
<1>0. /\ TaskTypeOK /\ SlotsAreHeldByWork /\ NoticesFollowRegistry
      /\ taskStatus[t] = "none" /\ Cardinality(RunningTasks) < MaxActiveTasks
      /\ taskWorker \in [Tasks -> Workers]
  BY DEF TasksInd, Admitted, TaskTypeOK
<1>1. NoticesFollowRegistry' /\ notices' \subseteq Notice
  BY <1>0, NoticesKeep
<1>2. /\ taskStatus' \in [Tasks -> Statuses] /\ taskDisk' \in [Tasks -> Statuses]
      /\ writeFailures' \in Nat /\ taskStatus'[t] = "running"
  BY <1>0, ChangesAre DEF Statuses
<1>3. taskWorker' \in [Tasks -> Workers] /\ taskWorker'[t] = worker
      /\ \A u \in Tasks \ {t} : taskWorker'[u] = taskWorker[u]
  BY <1>0
<1>4. TaskTypeOK'
  BY <1>0, <1>1, <1>2, <1>3 DEF TaskTypeOK
<1>5. /\ Cardinality(RunningTasks') <= MaxActiveTasks
      /\ \A u \in Tasks \ {t} : u \in RunningTasks' <=> u \in RunningTasks
  <2>1. "running" \in Terminal \cup {"running"} /\ Cardinality(RunningTasks) <= MaxActiveTasks
    BY <1>0 DEF SlotsAreHeldByWork
  <2> QED  BY <1>0, <2>1, SlotsCount
<1>6. writeFailures' >= writeFailures /\ writeFailures \in Nat
  BY <1>0 DEF Changes, TaskTypeOK
<1>7. SlotsAreHeldByWork'
  <2>1. ASSUME NEW u \in RunningTasks', taskWorker'[u] = "none" PROVE writeFailures' > 0
    <3>1. CASE u = t
      BY <1>3, <1>6, <2>1, <3>1
    <3>2. CASE u # t
      <4>1. u \in Tasks \ {t}
        BY <2>1, <3>2 DEF RunningTasks
      <4>2. u \in RunningTasks /\ taskWorker[u] = "none"
        BY <1>3, <1>5, <2>1, <4>1
      <4>3. writeFailures > 0
        BY <1>0, <4>2 DEF SlotsAreHeldByWork
      <4> QED  BY <1>6, <1>2, <4>3
    <3> QED  BY <3>1, <3>2
  <2>2. ASSUME NEW u \in Tasks, taskWorker'[u] # "none" PROVE taskStatus'[u] = "running"
    <3>1. CASE u = t
      BY <1>2, <3>1
    <3>2. CASE u # t
      BY <1>0, <1>3, <1>5, <2>2, <3>2 DEF SlotsAreHeldByWork, RunningTasks
    <3> QED  BY <3>1, <3>2
  <2>3. ASSUME NEW u \in Tasks, taskWorker'[u] = "fetching"
        PROVE  taskJob'[u] \in queuedJobs' \cup runningJobs'
    BY <1>0, <1>3, <2>3 DEF SlotsAreHeldByWork
  <2> QED  BY <1>5, <2>1, <2>2, <2>3 DEF SlotsAreHeldByWork
<1> QED  BY <1>1, <1>4, <1>7 DEF TasksInd

(* A task that ends is no longer held, and is told of at most once.         *)
LEMMA EndKeeps ==
    ASSUME TasksInd, NEW t \in Tasks, NEW s \in Terminal, NEW old \in Old(taskStatus),
           taskWorker[t] # "none", Changes(t, s, old), told' = told,
           taskWorker' = [taskWorker EXCEPT ![t] = "none"],
           UNCHANGED <<taskJob, queuedJobs, runningJobs>>,
           \/ notices' = notices
           \/ s = "completed" /\ taskDisk' = taskStatus' /\ notices' = notices \cup {Yes(t)}
           \/ notices' = notices \cup {No(t)}
    PROVE  TasksInd'
<1>0. /\ TaskTypeOK /\ SlotsAreHeldByWork /\ NoticesFollowRegistry
      /\ taskStatus[t] = "running" /\ taskWorker \in [Tasks -> Workers]
      /\ s # "running" /\ s \in Terminal \cup {"running"}
  BY DEF TasksInd, TaskTypeOK, SlotsAreHeldByWork, Terminal
<1>1. NoticesFollowRegistry' /\ notices' \subseteq Notice
  BY <1>0, NoticesKeep
<1>2. /\ taskStatus' \in [Tasks -> Statuses] /\ taskDisk' \in [Tasks -> Statuses]
      /\ writeFailures' \in Nat
  <2>1. s \in Statuses
    BY DEF Statuses
  <2> QED  BY <1>0, <2>1, ChangesAre
<1>3. taskWorker' \in [Tasks -> Workers] /\ taskWorker'[t] = "none"
      /\ \A u \in Tasks \ {t} : taskWorker'[u] = taskWorker[u]
  BY <1>0 DEF Workers
<1>4. TaskTypeOK'
  BY <1>0, <1>1, <1>2, <1>3 DEF TaskTypeOK
<1>5. /\ Cardinality(RunningTasks') <= MaxActiveTasks
      /\ \A u \in Tasks \ {t} : u \in RunningTasks' <=> u \in RunningTasks
      /\ t \notin RunningTasks'
  <2>1. Cardinality(RunningTasks) <= MaxActiveTasks
    BY <1>0 DEF SlotsAreHeldByWork
  <2> QED  BY <1>0, <2>1, SlotsCount
<1>6. writeFailures' >= writeFailures /\ writeFailures \in Nat
  BY <1>0 DEF Changes, TaskTypeOK
<1>7. SlotsAreHeldByWork'
  <2>1. ASSUME NEW u \in RunningTasks', taskWorker'[u] = "none" PROVE writeFailures' > 0
    <3>1. u \in Tasks \ {t}
      BY <1>5 DEF RunningTasks
    <3>2. u \in RunningTasks /\ taskWorker[u] = "none"
      BY <1>3, <1>5, <2>1, <3>1
    <3>3. writeFailures > 0
      BY <1>0, <3>2 DEF SlotsAreHeldByWork
    <3> QED  BY <1>2, <1>6, <3>3
  <2>2. ASSUME NEW u \in Tasks, taskWorker'[u] # "none" PROVE taskStatus'[u] = "running"
    BY <1>0, <1>3, <1>5, <2>2 DEF SlotsAreHeldByWork, RunningTasks
  <2>3. ASSUME NEW u \in Tasks, taskWorker'[u] = "fetching"
        PROVE  taskJob'[u] \in queuedJobs' \cup runningJobs'
    BY <1>0, <1>3, <2>3 DEF SlotsAreHeldByWork
  <2> QED  BY <1>5, <2>1, <2>2, <2>3 DEF SlotsAreHeldByWork
<1> QED  BY <1>1, <1>4, <1>7 DEF TasksInd

(* A fetch that settles has its tasks done, and takes the job from no other. *)
LEMMA SettleFetchKeeps ==
    ASSUME SchedulerInv, TasksInd, NEW j \in JobIds, NEW ok \in BOOLEAN, SettleFetch(j, ok)
    PROVE  SchedulerInv' /\ TasksInd'
<1>1. SettleJob(j)
  BY DEF SettleFetch
<1>2. SchedulerInv' /\ queuedJobs' \cup runningJobs' = (queuedJobs \cup runningJobs) \ {j}
  BY <1>1, SettleKeeps
<1>3. /\ TaskTypeOK /\ SlotsAreHeldByWork /\ NoticesFollowRegistry
      /\ taskWorker \in [Tasks -> Workers]
  BY DEF TasksInd, TaskTypeOK
<1>4. /\ UNCHANGED <<taskStatus, taskDisk, taskJob, notices, told, writeFailures>>
      /\ taskWorker' =
           [t \in Tasks |-> IF taskWorker[t] = "fetching" /\ taskJob[t] = j
                            THEN (IF ok THEN "fetched" ELSE "fetch_failed")
                            ELSE taskWorker[t]]
  BY DEF SettleFetch
<1>5. taskWorker' \in [Tasks -> Workers]
      /\ \A t \in Tasks :
            \/ taskWorker'[t] = taskWorker[t] /\ ~(taskWorker[t] = "fetching" /\ taskJob[t] = j)
            \/ taskWorker[t] = "fetching" /\ taskWorker'[t] \in {"fetched", "fetch_failed"}
  BY <1>3, <1>4 DEF Workers
<1>6. TaskTypeOK'
  BY <1>3, <1>4, <1>5 DEF TaskTypeOK
<1>7. SlotsAreHeldByWork'
  <2>1. RunningTasks' = RunningTasks
    BY <1>4 DEF RunningTasks
  <2>2. ASSUME NEW t \in RunningTasks, taskWorker'[t] = "none" PROVE writeFailures' > 0
    <3>1. taskWorker[t] = "none"
      BY <1>5, <2>2 DEF RunningTasks
    <3> QED  BY <1>3, <1>4, <2>2, <3>1 DEF SlotsAreHeldByWork
  <2>3. \A t \in Tasks : taskWorker'[t] # "none" => taskStatus'[t] = "running"
    BY <1>3, <1>4, <1>5 DEF SlotsAreHeldByWork
  <2>4. ASSUME NEW t \in Tasks, taskWorker'[t] = "fetching"
        PROVE  taskJob'[t] \in queuedJobs' \cup runningJobs'
    <3>1. taskWorker[t] = "fetching" /\ taskJob[t] # j
      BY <1>5, <2>4
    <3> QED  BY <1>2, <1>3, <1>4, <3>1 DEF SlotsAreHeldByWork
  <2> QED  BY <1>3, <2>1, <2>2, <2>3, <2>4 DEF SlotsAreHeldByWork
<1>8. NoticesFollowRegistry'
  BY <1>3, <1>4 DEF NoticesFollowRegistry, Successes, Failures
<1> QED  BY <1>2, <1>6, <1>7, <1>8 DEF TasksInd

(* What a task was announced is committed, no more and no less.             *)
LEMMA TellKeeps ==
    ASSUME TasksInd, NEW n \in Notice, Tell(n)
    PROVE  TasksInd'
<1>0. /\ TaskTypeOK /\ SlotsAreHeldByWork /\ NoticesFollowRegistry
      /\ told \in [Tasks -> [BOOLEAN -> Nat]] /\ notices \subseteq Notice
  BY DEF TasksInd, TaskTypeOK
<1>1. /\ n \in notices /\ notices' = notices \ {n}
      /\ told' = [told EXCEPT ![n.task][n.ok] = @ + 1]
      /\ UNCHANGED <<taskStatus, taskDisk, taskWorker, taskJob, writeFailures, schedulerVars>>
  BY DEF Tell
<1>2. n.task \in Tasks /\ n.ok \in BOOLEAN /\ n = [task |-> n.task, ok |-> n.ok]
  BY DEF Notice
<1>3. told' \in [Tasks -> [BOOLEAN -> Nat]]
  BY <1>0, <1>1, <1>2
<1>4. TaskTypeOK'
  BY <1>0, <1>1, <1>3 DEF TaskTypeOK
<1>5. SlotsAreHeldByWork'
  BY <1>0, <1>1 DEF SlotsAreHeldByWork, RunningTasks, schedulerVars
<1>6. ASSUME NEW t \in Tasks
      PROVE  Successes(t)' = Successes(t) /\ Failures(t)' = Failures(t)
  <2>0. told[t][TRUE] \in Nat /\ told[t][FALSE] \in Nat
    BY <1>0
  <2>1. /\ Yes(t).task = t /\ Yes(t).ok = TRUE /\ No(t).task = t /\ No(t).ok = FALSE
    BY DEF Yes, No
  <2>2. CASE n.task # t
    <3>1. told'[t] = told[t]
      BY <1>0, <1>1, <1>2, <2>2
    <3>2. n # Yes(t) /\ n # No(t)
      BY <2>1, <2>2
    <3> QED  BY <1>1, <3>1, <3>2 DEF Successes, Failures, One, Yes, No
  <2>3. CASE n.task = t /\ n.ok = TRUE
    <3>1. told'[t][TRUE] = told[t][TRUE] + 1 /\ told'[t][FALSE] = told[t][FALSE]
      BY <1>0, <1>1, <1>2, <2>3
    <3>2. n = Yes(t) /\ n # No(t)
      BY <1>2, <2>1, <2>3 DEF Yes
    <3>3. One(notices, Yes(t)) = 1 /\ One(notices', Yes(t)) = 0
          /\ One(notices', No(t)) = One(notices, No(t))
      BY <1>1, <3>2 DEF One
    <3>4. /\ Successes(t)' = told'[t][TRUE] + One(notices', Yes(t))
          /\ Failures(t)' = told'[t][FALSE] + One(notices', No(t))
      BY Zenon DEF Successes, Failures, Yes, No
    <3>5. /\ Successes(t) = told[t][TRUE] + One(notices, Yes(t))
          /\ Failures(t) = told[t][FALSE] + One(notices, No(t))
      BY Zenon DEF Successes, Failures
    <3> DEFINE yes == told[t][TRUE]
               no == told[t][FALSE]
               yesNow == told'[t][TRUE]
               noNow == told'[t][FALSE]
    <3>6. yes \in Nat /\ no \in Nat
      BY <2>0
    <3> HIDE DEF yes, no, yesNow, noNow
    <3>7. /\ Successes(t)' = yesNow + One(notices', Yes(t)) /\ Successes(t) = yes + One(notices, Yes(t))
          /\ Failures(t)' = noNow + One(notices', No(t)) /\ Failures(t) = no + One(notices, No(t))
          /\ yesNow = yes + 1 /\ noNow = no
      BY <3>1, <3>4, <3>5, Zenon DEF yes, no, yesNow, noNow
    <3>8. One(notices, No(t)) \in {0, 1}
      BY DEF One
    <3> QED  BY <3>3, <3>6, <3>7, <3>8
  <2>4. CASE n.task = t /\ n.ok = FALSE
    <3>1. told'[t][FALSE] = told[t][FALSE] + 1 /\ told'[t][TRUE] = told[t][TRUE]
      BY <1>0, <1>1, <1>2, <2>4
    <3>2. n = No(t) /\ n # Yes(t)
      BY <1>2, <2>1, <2>4 DEF No
    <3>3. One(notices, No(t)) = 1 /\ One(notices', No(t)) = 0
          /\ One(notices', Yes(t)) = One(notices, Yes(t))
      BY <1>1, <3>2 DEF One
    <3>4. /\ Successes(t)' = told'[t][TRUE] + One(notices', Yes(t))
          /\ Failures(t)' = told'[t][FALSE] + One(notices', No(t))
      BY Zenon DEF Successes, Failures, Yes, No
    <3>5. /\ Successes(t) = told[t][TRUE] + One(notices, Yes(t))
          /\ Failures(t) = told[t][FALSE] + One(notices, No(t))
      BY Zenon DEF Successes, Failures
    <3> DEFINE yes == told[t][TRUE]
               no == told[t][FALSE]
               yesNow == told'[t][TRUE]
               noNow == told'[t][FALSE]
    <3>6. yes \in Nat /\ no \in Nat
      BY <2>0
    <3> HIDE DEF yes, no, yesNow, noNow
    <3>7. /\ Successes(t)' = yesNow + One(notices', Yes(t)) /\ Successes(t) = yes + One(notices, Yes(t))
          /\ Failures(t)' = noNow + One(notices', No(t)) /\ Failures(t) = no + One(notices, No(t))
          /\ yesNow = yes /\ noNow = no + 1
      BY <3>1, <3>4, <3>5, Zenon DEF yes, no, yesNow, noNow
    <3>8. One(notices, Yes(t)) \in {0, 1}
      BY DEF One
    <3> QED  BY <3>3, <3>6, <3>7, <3>8
  <2> QED  BY <1>2, <2>2, <2>3, <2>4
<1>7. NoticesFollowRegistry'
  BY <1>0, <1>1, <1>6 DEF NoticesFollowRegistry
<1> QED  BY <1>4, <1>5, <1>7 DEF TasksInd

(* After a restart nothing is held, and exactly what the file calls running  *)
(* is announced anew.                                                       *)
LEMMA RestartKeeps ==
    ASSUME SchedulerInv, TasksInd, RestartProcess
    PROVE  SchedulerInv' /\ TasksInd'
<1>0. /\ TaskTypeOK /\ SlotsAreHeldByWork /\ NoticesFollowRegistry
      /\ taskStatus \in [Tasks -> Statuses] /\ taskDisk \in [Tasks -> Statuses]
      /\ told \in [Tasks -> [BOOLEAN -> Nat]] /\ notices \subseteq Notice /\ writeFailures \in Nat
  BY DEF TasksInd, TaskTypeOK
<1> DEFINE new(t) == CASE taskDisk[t] = "running" -> "interrupted"
                       [] taskDisk[t] = "none" /\ taskStatus[t] # "none" -> "gone"
                       [] OTHER -> taskDisk[t]
<1>1. /\ taskStatus' = [t \in Tasks |-> new(t)] /\ taskDisk' = [t \in Tasks |-> new(t)]
      /\ notices' = RestartNotices(taskDisk)
      /\ taskWorker' = [t \in Tasks |-> "none"] /\ taskJob' = [t \in Tasks |-> 0]
      /\ queuedJobs' = {} /\ runningJobs' = {} /\ busy' = {} /\ drains' = 0
      /\ deduped' = [k \in DedupeKeys |-> 0]
      /\ UNCHANGED <<told, writeFailures, lastJob, jobOf>>
  BY DEF RestartProcess
<1>2. ASSUME NEW t \in Tasks
      PROVE  /\ new(t) \in Statuses \ {"running"}
             /\ taskDisk[t] = "running" => new(t) = "interrupted"
             /\ taskDisk[t] \notin {"none", "running"} => new(t) = taskDisk[t]
             /\ new(t) = "none" => taskDisk[t] = "none" /\ taskStatus[t] = "none"
  <2>1. taskDisk[t] \in Statuses
    BY <1>0
  <2> QED  BY <2>1 DEF Statuses, Terminal
<1> HIDE DEF new
<1>3. SchedulerInv'
  <2>1. SchedulerTypeOK
    BY DEF SchedulerInv
  <2>2. SchedulerTypeOK'
    <3>1. lastJob \in Nat
      BY <2>1, JobAssumption DEF SchedulerTypeOK
    <3>2. 0 \in 0..lastJob
      BY <3>1
    <3> QED  BY <1>1, <2>1, <3>2 DEF SchedulerTypeOK
  <2>3. ResourcesExcluded'
    <3>1. ResourcesOf(jobOf', {}) = {}
      BY DEF ResourcesOf
    <3>2. \A l \in Lanes : {j \in runningJobs' : jobOf'[j].lane = l} = {}
      BY <1>1
    <3>3. \A l \in Lanes : Concurrency[l] \in Nat /\ Cardinality({}) <= Concurrency[l]
      BY FS_EmptySet, LaneAssumption
    <3> QED  BY <1>1, <3>1, <3>2, <3>3 DEF ResourcesExcluded
  <2>4. DedupeExact' /\ NothingWaitsInVain' /\ DrainsHaveWork'
    <3>1. \A j \in JobIds : j # 0
      BY DEF JobIds
    <3> QED  BY <1>1, <3>1 DEF DedupeExact, NothingWaitsInVain, DrainsHaveWork
  <2> QED  BY <2>2, <2>3, <2>4 DEF SchedulerInv
<1>4. notices' \subseteq Notice
  <2> SUFFICES ASSUME NEW n \in RestartNotices(taskDisk) PROVE n \in Notice
    BY <1>1
  <2>1. PICK t \in Tasks : n = [task |-> t, ok |-> FALSE]
    BY DEF RestartNotices
  <2> QED  BY <2>1 DEF Notice
<1>5. TaskTypeOK'
  <2>1. taskStatus' \in [Tasks -> Statuses] /\ taskDisk' \in [Tasks -> Statuses]
    BY <1>1, <1>2
  <2>2. taskWorker' \in [Tasks -> Workers] /\ taskJob' \in [Tasks -> Nat]
    BY <1>1 DEF Workers
  <2> QED  BY <1>0, <1>1, <1>4, <2>1, <2>2 DEF TaskTypeOK
<1>6. SlotsAreHeldByWork'
  <2>1. RunningTasks' = {} /\ Cardinality(RunningTasks') <= MaxActiveTasks
    <3>1. RunningTasks' = {}
      BY <1>1, <1>2 DEF RunningTasks
    <3> QED  BY <3>1, FS_EmptySet, TaskLimitAssumption
  <2> QED  BY <1>1, <2>1 DEF SlotsAreHeldByWork
<1>7. ASSUME NEW t \in Tasks
      PROVE  /\ taskStatus'[t] \in {"none", "running"} => Successes(t)' = 0 /\ Failures(t)' = 0
             /\ Successes(t)' > 0 => /\ taskStatus'[t] \in {"completed", "gone"}
                                    /\ taskDisk'[t] \in {"completed", "gone"}
                                    /\ Failures(t)' = 0 /\ Successes(t)' = 1
             /\ writeFailures' = 0 => Successes(t)' + Failures(t)' <= 1
  <2>1. Yes(t) \notin notices' /\ (No(t) \in notices' <=> taskDisk[t] = "running")
    BY <1>1 DEF Yes, No, RestartNotices
  <2>2. told[t][TRUE] \in Nat /\ told[t][FALSE] \in Nat
    BY <1>0
  <2> DEFINE yes == Successes(t)
             no == Failures(t)
             yesTold == told[t][TRUE]
             noTold == told[t][FALSE]
  <2> DEFINE newYes == Successes(t)'
             newNo == Failures(t)'
  <2>3. /\ newYes = yesTold
        /\ newNo = IF taskDisk[t] = "running" THEN noTold + 1 ELSE noTold
    <3>1. /\ One(notices', Yes(t)) = 0
          /\ One(notices', No(t)) = IF taskDisk[t] = "running" THEN 1 ELSE 0
      BY <2>1 DEF One
    <3>2. /\ newYes = yesTold + One(notices', Yes(t))
          /\ newNo = noTold + One(notices', No(t))
      BY <1>1, Zenon DEF Successes, Failures, Yes, No
    <3>3. yesTold \in Nat /\ noTold \in Nat
      BY <2>2
    <3> HIDE DEF yesTold, noTold, newYes, newNo
    <3> QED  BY <3>1, <3>2, <3>3
  <2>4. /\ yes \in Nat /\ yesTold <= yes /\ no \in Nat /\ noTold <= no
    <3>1. /\ One(notices, Yes(t)) \in {0, 1} /\ One(notices, No(t)) \in {0, 1}
      BY DEF One
    <3>2. yes = told[t][TRUE] + One(notices, Yes(t)) /\ no = told[t][FALSE] + One(notices, No(t))
      BY DEF Successes, Failures
    <3>3. \A a \in Nat, b \in {0, 1} : a + b \in Nat /\ a <= a + b
      OBVIOUS
    <3> QED  BY <2>2, <3>1, <3>2, <3>3
  <2>5. /\ taskStatus[t] \in {"none", "running"} => yes = 0 /\ no = 0
        /\ yes > 0 => taskDisk[t] \in {"completed", "gone"} /\ no = 0 /\ yes = 1
        /\ writeFailures = 0 => yes + no <= 1
        /\ writeFailures = 0 => taskDisk = taskStatus
    BY <1>0 DEF NoticesFollowRegistry
  <2>6. taskStatus'[t] = new(t) /\ taskDisk'[t] = new(t) /\ writeFailures' = writeFailures
    BY <1>1
  <2>a. /\ yesTold \in Nat /\ noTold \in Nat
        /\ newYes = yesTold
        /\ newNo = IF taskDisk[t] = "running" THEN noTold + 1 ELSE noTold
    BY <2>2, <2>3
  <2> HIDE DEF yes, no, yesTold, noTold, newYes, newNo
  <2>7. ASSUME taskStatus'[t] \in {"none", "running"} PROVE newYes = 0 /\ newNo = 0
    BY <1>2, <2>a, <2>4, <2>5, <2>6, <2>7
  <2>8. ASSUME newYes > 0
        PROVE  /\ taskStatus'[t] \in {"completed", "gone"} /\ taskDisk'[t] \in {"completed", "gone"}
               /\ newNo = 0 /\ newYes = 1
    <3>1. taskDisk[t] \in {"completed", "gone"} /\ no = 0 /\ yes = 1
      BY <2>a, <2>4, <2>5, <2>8
    <3>2. newNo = 0 /\ newYes = 1
      BY <2>a, <2>4, <2>8, <3>1
    <3> QED  BY <1>2, <2>6, <3>1, <3>2
  <2>9. ASSUME writeFailures' = 0 PROVE newYes + newNo <= 1
    <3>1. CASE taskDisk[t] = "running"
      <4>1. yes = 0 /\ no = 0
        BY <2>5, <2>6, <2>9, <3>1
      <4> QED  BY <2>a, <2>4, <3>1, <4>1
    <3>2. CASE taskDisk[t] # "running"
      BY <2>a, <2>4, <2>5, <2>6, <2>9, <3>2
    <3> QED  BY <3>1, <3>2
  <2> QED  BY <2>7, <2>8, <2>9 DEF newYes, newNo
<1>8. NoticesFollowRegistry'
  BY <1>1, <1>7 DEF NoticesFollowRegistry
<1> QED  BY <1>3, <1>5, <1>6, <1>8 DEF TasksInd

(* Every step of the registry and the scheduler keeps both invariants.      *)
LEMMA TasksKeep ==
    ASSUME SchedulerInv, TasksInd, [BackgroundNext]_backgroundVars
    PROVE  SchedulerInv' /\ TasksInd'
<1>0. /\ TaskTypeOK /\ SlotsAreHeldByWork /\ SchedulerTypeOK /\ DedupeExact
      /\ taskWorker \in [Tasks -> Workers] /\ taskJob \in [Tasks -> Nat] /\ lastJob \in Nat
  BY JobAssumption DEF TasksInd, TaskTypeOK, SchedulerInv, SchedulerTypeOK
<1>1. UNCHANGED schedulerVars => SchedulerInv'
  BY SchedulerKeeps
<1>2. ASSUME NEW t \in Tasks, NEW worker \in {"starting", "working"}, StartWork(t, worker)
      PROVE  SchedulerInv' /\ TasksInd'
  <2>1. PICK old \in Old(taskStatus) : Changes(t, "running", old)
    BY <1>2 DEF StartWork, RegisterTask, Persisted, Changes
  <2>2. /\ Admitted(t) /\ UNCHANGED <<notices, told, taskJob, schedulerVars>>
        /\ taskWorker' = [taskWorker EXCEPT ![t] = worker] /\ worker \in Workers
    BY <1>2 DEF StartWork, RegisterTask, Workers
  <2>3. queuedJobs' = queuedJobs /\ runningJobs' = runningJobs
    BY <2>2 DEF schedulerVars
  <2>4. TasksInd'
    BY <1>0, <2>1, <2>2, <2>3, RegisterKeeps
  <2> QED  BY <1>1, <2>2, <2>4
<1>3. ASSUME NEW t \in Tasks, RegisterThrows(t)
      PROVE  SchedulerInv' /\ TasksInd'
  <2>1. PICK old \in Old(taskStatus) :
          Changes(t, "running", old) /\ writeFailures' = writeFailures + 1
    BY <1>3 DEF RegisterThrows, PersistThrows, Changes
  <2>2. /\ Admitted(t) /\ UNCHANGED <<notices, told, taskJob, taskWorker, schedulerVars>>
    BY <1>3 DEF RegisterThrows
  <2>3. queuedJobs' = queuedJobs /\ runningJobs' = runningJobs
    BY <2>2 DEF schedulerVars
  <2>4. taskWorker[t] = "none"
    BY <1>0, <2>2 DEF Admitted, SlotsAreHeldByWork
  <2>5. taskWorker' = [taskWorker EXCEPT ![t] = "none"] /\ "none" \in Workers
    BY <1>0, <2>2, <2>4 DEF Workers
  <2>6. TasksInd'
    BY <1>0, <2>1, <2>2, <2>3, <2>5, RegisterKeeps
  <2> QED  BY <1>1, <2>2, <2>6
<1>4. ASSUME NEW t \in Tasks, ResearchStarted(t)
      PROVE  SchedulerInv' /\ TasksInd'
  <2>1. /\ taskWorker[t] = "starting" /\ taskWorker' = [taskWorker EXCEPT ![t] = "working"]
        /\ UNCHANGED <<taskStatus, taskDisk, taskJob, notices, told, writeFailures, schedulerVars>>
    BY <1>4 DEF ResearchStarted
  <2>2. /\ taskWorker' \in [Tasks -> Workers] /\ taskWorker'[t] = "working"
        /\ \A u \in Tasks \ {t} : taskWorker'[u] = taskWorker[u]
    BY <1>0, <2>1 DEF Workers
  <2>3. TaskTypeOK'
    BY <1>0, <2>1, <2>2 DEF TaskTypeOK
  <2>4. SlotsAreHeldByWork'
    <3>1. RunningTasks' = RunningTasks /\ RunningTasks \subseteq Tasks
      BY <2>1 DEF RunningTasks
    <3>2. \A u \in Tasks : taskWorker'[u] = "none" => taskWorker[u] = "none"
      BY <2>2
    <3>3. \A u \in Tasks : taskWorker'[u] = "fetching" => taskWorker[u] = "fetching"
      BY <2>2
    <3>4. \A u \in Tasks : taskWorker'[u] # "none" => taskWorker[u] # "none"
      BY <2>1, <2>2
    <3> QED  BY <1>0, <2>1, <3>1, <3>2, <3>3, <3>4 DEF SlotsAreHeldByWork, schedulerVars
  <2>5. NoticesFollowRegistry'
    BY <2>1 DEF TasksInd, NoticesFollowRegistry, Successes, Failures
  <2> QED  BY <1>1, <2>1, <2>3, <2>4, <2>5 DEF TasksInd
<1>5. ASSUME NEW t \in Tasks, ResearchNotStarted(t)
      PROVE  SchedulerInv' /\ TasksInd'
  <2>1. PICK old \in Old(taskStatus) : Changes(t, "failed", old)
    BY <1>5 DEF ResearchNotStarted, Persisted, PersistThrows, Changes
  <2>2. /\ taskWorker[t] # "none" /\ UNCHANGED <<notices, told, taskJob, schedulerVars>>
        /\ taskWorker' = [taskWorker EXCEPT ![t] = "none"] /\ "failed" \in Terminal
    BY <1>5 DEF ResearchNotStarted, Terminal
  <2>3. queuedJobs' = queuedJobs /\ runningJobs' = runningJobs
    BY <2>2 DEF schedulerVars
  <2>4. TasksInd'
    BY <2>1, <2>2, <2>3, EndKeeps
  <2> QED  BY <1>1, <2>2, <2>4
<1>6. ASSUME NEW t \in Tasks, NEW page \in DedupeKeys, StartFetch(t, page)
      PROVE  SchedulerInv' /\ TasksInd'
  <2>1. PICK old \in Old(taskStatus) : Changes(t, "running", old)
    BY <1>6 DEF StartFetch, RegisterTask, Persisted, Changes
  <2>2. /\ Admitted(t) /\ UNCHANGED <<notices, told>> /\ "fetching" \in Workers
        /\ taskWorker' = [taskWorker EXCEPT ![t] = "fetching"]
    BY <1>6 DEF StartFetch, RegisterTask, Workers
  <2>3. CASE Joins(page) /\ taskJob' = [taskJob EXCEPT ![t] = deduped[page]] /\ UNCHANGED schedulerVars
    <3>1. queuedJobs' = queuedJobs /\ runningJobs' = runningJobs
      BY <2>3 DEF schedulerVars
    <3>2. deduped[page] \in JobIds /\ deduped[page] \in Nat
      <4>1. deduped[page] \in 0..lastJob /\ deduped[page] # 0 /\ lastJob \in 0..MaxJobs
        BY <1>0, <2>3 DEF SchedulerTypeOK, Joins
      <4> QED  BY <4>1, JobAssumption DEF JobIds
    <3>3. deduped[page] \in queuedJobs \cup runningJobs
      BY <1>0, <3>2 DEF DedupeExact
    <3>4. /\ taskJob' \in [Tasks -> Nat] /\ taskJob'[t] = deduped[page]
          /\ \A u \in Tasks \ {t} : taskJob'[u] = taskJob[u]
      BY <1>0, <2>3, <3>2
    <3>5. TasksInd'
      BY <2>1, <2>2, <3>1, <3>3, <3>4, RegisterKeeps
    <3> QED  BY <1>1, <2>3, <3>5
  <2>4. CASE ScheduleJob(FetchOptions(page)) /\ taskJob' = [taskJob EXCEPT ![t] = lastJob + 1]
    <3>1. FetchOptions(page) \in Options
      <4>1. 1 \in Lanes
        BY LaneAssumption DEF Lanes
      <4> QED  BY <4>1 DEF FetchOptions, Options
    <3>2. /\ SchedulerInv'
          /\ queuedJobs' \cup runningJobs' = queuedJobs \cup runningJobs \cup {lastJob + 1}
      BY <2>4, <3>1, ScheduleKeeps
    <3>3. /\ taskJob' \in [Tasks -> Nat] /\ taskJob'[t] = lastJob + 1
          /\ \A u \in Tasks \ {t} : taskJob'[u] = taskJob[u]
      BY <1>0, <2>4
    <3>4. queuedJobs \cup runningJobs \subseteq queuedJobs' \cup runningJobs'
          /\ taskJob'[t] \in queuedJobs' \cup runningJobs'
      BY <3>2, <3>3
    <3>5. TasksInd'
      BY <2>1, <2>2, <3>3, <3>4, RegisterKeeps
    <3> QED  BY <3>2, <3>5
  <2> QED  BY <1>6, <2>3, <2>4 DEF StartFetch
<1>7. ASSUME NEW t \in Tasks, CompleteTask(t)
      PROVE  SchedulerInv' /\ TasksInd'
  <2>1. PICK old \in Old(taskStatus) : Changes(t, "completed", old) /\ taskDisk' = taskStatus'
    BY <1>7 DEF CompleteTask, Persisted, Changes
  <2>2. /\ taskWorker[t] # "none" /\ UNCHANGED <<told, taskJob, schedulerVars>>
        /\ taskWorker' = [taskWorker EXCEPT ![t] = "none"] /\ "completed" \in Terminal
        /\ notices' = notices \cup {Yes(t)}
    BY <1>7 DEF CompleteTask, Succeeds, Enqueue, Terminal, Yes
  <2>3. queuedJobs' = queuedJobs /\ runningJobs' = runningJobs
    BY <2>2 DEF schedulerVars
  <2>4. TasksInd'
    BY <2>1, <2>2, <2>3, EndKeeps
  <2> QED  BY <1>1, <2>2, <2>4
<1>8. ASSUME NEW t \in Tasks, CompleteThrows(t) \/ FailTask(t)
      PROVE  SchedulerInv' /\ TasksInd'
  <2>1. PICK s \in Terminal, old \in Old(taskStatus) : Changes(t, s, old)
    BY <1>8 DEF CompleteThrows, FailTask, Persisted, PersistThrows, Changes, Terminal
  <2>2. /\ taskWorker[t] # "none" /\ UNCHANGED <<told, taskJob, schedulerVars>>
        /\ taskWorker' = [taskWorker EXCEPT ![t] = "none"]
        /\ notices' = notices \cup {No(t)}
    BY <1>8 DEF CompleteThrows, AfterFailedWrite, FailTask, Succeeds, Fails, Enqueue, No
  <2>3. queuedJobs' = queuedJobs /\ runningJobs' = runningJobs
    BY <2>2 DEF schedulerVars
  <2>4. TasksInd'
    BY <2>1, <2>2, <2>3, EndKeeps
  <2> QED  BY <1>1, <2>2, <2>4
<1>9. ASSUME NEW n \in Notice, Tell(n)
      PROVE  SchedulerInv' /\ TasksInd'
  <2>1. UNCHANGED schedulerVars
    BY <1>9 DEF Tell
  <2> QED  BY <1>1, <1>9, <2>1, TellKeeps
<1>10. CASE UNCHANGED backgroundVars
  <2>1. UNCHANGED schedulerVars
         /\ UNCHANGED <<taskStatus, taskDisk, taskWorker, taskJob, notices, told, writeFailures>>
    BY <1>10 DEF backgroundVars, taskVars
  <2>2. TaskTypeOK' /\ SlotsAreHeldByWork'
    BY <1>0, <2>1 DEF TaskTypeOK, SlotsAreHeldByWork, RunningTasks, schedulerVars
  <2>3. NoticesFollowRegistry'
    BY <2>1 DEF TasksInd, NoticesFollowRegistry, Successes, Failures
  <2> QED  BY <1>1, <2>1, <2>2, <2>3 DEF TasksInd
<1>11. CASE BackgroundNext
  BY <1>2, <1>3, <1>4, <1>5, <1>6, <1>7, <1>8, <1>9, <1>11, SettleFetchKeeps, RestartKeeps
     DEF BackgroundNext
<1> QED  BY <1>10, <1>11

(* BackgroundInv: however many tasks, limits, failed writes and restarts, a  *)
(* slot of the registry is held only by work that will end or whose write    *)
(* failed, and a notice of success is only given for a recorded result.     *)
THEOREM TasksAreSound == TasksSpec => []BackgroundInv
<1>1. BackgroundInit => SchedulerInv /\ TasksInd
  BY SchedulerStarts, TasksStart DEF BackgroundInit
<1>2. SchedulerInv /\ TasksInd /\ [BackgroundNext]_backgroundVars => (SchedulerInv /\ TasksInd)'
  BY TasksKeep
<1>3. SchedulerInv /\ TasksInd => BackgroundInv
  BY NoticesAreAsTheFile DEF TasksInd, BackgroundInv
<1> QED  BY <1>1, <1>2, <1>3, PTL DEF TasksSpec

-----------------------------------------------------------------------------
(* The supervisor.                                                         *)

(* The facts about one process that a step may change.                      *)
ServiceOK(s) ==
    /\ service[s] \in Living \cup {"off", "dead"}
    /\ s \in gone => service[s] = "dead"
    /\ s \in Sidecars => service[s] # "off"
    /\ stopping => service[s] \notin {"starting", "healthy"}
    /\ exited => service[s] \in {"off", "dead"}
    /\ s = AgentCore => /\ coreTurn => service[s] = "off"
                        /\ service[s] \in {"starting", "healthy"} => sawHealthy = Sidecars

(* The facts that are about no process alone.                               *)
EndingOK ==
    /\ gone \subseteq Services /\ sawHealthy \subseteq Sidecars /\ stopping \in BOOLEAN
    /\ (done => stopping) /\ (exited => done)
    /\ service = [s \in Services |-> service[s]]

(* PlatformInd is those facts, for every process.                           *)
LEMMA PlatformIndIs == PlatformInd <=> EndingOK /\ \A s \in Services : ServiceOK(s)
<1>1. AgentCore \in Services /\ Sidecars \subseteq Services
  BY DEF Services
<1>2. ASSUME PlatformInd PROVE EndingOK /\ \A s \in Services : ServiceOK(s)
  <2>1. service = [s \in Services |-> service[s]]
    BY <1>2 DEF PlatformInd
  <2>2. EndingOK
    BY <1>2, <2>1 DEF PlatformInd, EndingOK
  <2>3. ASSUME NEW s \in Services PROVE ServiceOK(s)
    BY <1>1, <1>2 DEF PlatformInd, PlatformInv, NothingStartsLate, NoServiceLeft, ServiceOK
  <2> QED  BY <2>2, <2>3
<1>3. ASSUME EndingOK, \A s \in Services : ServiceOK(s) PROVE PlatformInd
  <2>1. service \in [Services -> Living \cup {"off", "dead"}]
    BY <1>3 DEF EndingOK, ServiceOK
  <2>2. gone \subseteq {s \in Services : service[s] = "dead"} /\ \A s \in Sidecars : service[s] # "off"
    BY <1>1, <1>3 DEF EndingOK, ServiceOK
  <2>3. PlatformInv /\ (coreTurn => service[AgentCore] = "off")
    BY <1>1, <1>3 DEF ServiceOK, PlatformInv, NothingStartsLate, NoServiceLeft
  <2> QED  BY <1>3, <2>1, <2>2, <2>3 DEF EndingOK, PlatformInd
<1> QED  BY <1>2, <1>3

(* The platform starts with its sidecars alone.                             *)
LEMMA PlatformStarts == PlatformInit => PlatformInd
<1> SUFFICES ASSUME PlatformInit PROVE PlatformInd
  OBVIOUS
<1>1. AgentCore \in Services /\ Sidecars \subseteq Services /\ AgentCore \notin Sidecars
  BY PlatformAssumption DEF Services
<1>2. service = [s \in Services |-> IF s \in Sidecars THEN "starting" ELSE "off"]
  BY DEF PlatformInit
<1>3. service \in [Services -> Living \cup {"off", "dead"}]
  BY <1>2 DEF Living
<1>4. PlatformInv
  BY <1>1, <1>2 DEF PlatformInit, PlatformInv, NothingStartsLate, NoServiceLeft
<1> QED  BY <1>1, <1>2, <1>3, <1>4 DEF PlatformInit, PlatformInd

(* Every step of the supervisor and of its processes keeps them.            *)
LEMMA PlatformKeeps ==
    ASSUME PlatformInd, [PlatformNext]_platformVars
    PROVE  PlatformInd'
<1>0. /\ service \in [Services -> Living \cup {"off", "dead"}]
      /\ gone \subseteq Services /\ sawHealthy \subseteq Sidecars /\ stopping \in BOOLEAN
      /\ (done => stopping) /\ (exited => done)
      /\ \A s \in Services : ServiceOK(s)
      /\ AgentCore \in Services /\ Sidecars \subseteq Services /\ AgentCore \notin Sidecars
  <2>1. EndingOK /\ \A s \in Services : ServiceOK(s)
    BY PlatformIndIs
  <2>2. service \in [Services -> Living \cup {"off", "dead"}]
    BY DEF PlatformInd
  <2>3. AgentCore \in Services /\ Sidecars \subseteq Services /\ AgentCore \notin Sidecars
    BY PlatformAssumption DEF Services
  <2> QED  BY <2>1, <2>2, <2>3 DEF EndingOK
<1>a. ASSUME EndingOK', \A s \in Services : ServiceOK(s)' PROVE PlatformInd'
  <2>1. service' \in [Services -> Living \cup {"off", "dead"}]
    BY <1>a DEF EndingOK, ServiceOK
  <2>2. gone' \subseteq {s \in Services : service'[s] = "dead"} /\ \A s \in Sidecars : service'[s] # "off"
    BY <1>0, <1>a DEF EndingOK, ServiceOK
  <2>3. PlatformInv' /\ (coreTurn' => service'[AgentCore] = "off")
    BY <1>0, <1>a DEF ServiceOK, PlatformInv, NothingStartsLate, NoServiceLeft
  <2> QED  BY <1>a, <2>1, <2>2, <2>3 DEF EndingOK, PlatformInd
<1>1. ASSUME NEW s \in Services, ServiceComesUp(s) \/ ServiceDies(s) PROVE PlatformInd'
  <2>1. PICK v \in {"healthy", "dead"} :
          /\ service' = [service EXCEPT ![s] = v] /\ UNCHANGED <<gone, sawHealthy, coreTurn, ending>>
          /\ v = "healthy" => service[s] = "starting"
          /\ service[s] \in Living
    BY <1>1 DEF ServiceComesUp, ServiceDies, Living
  <2>2. EndingOK'
    <3>1. service' = [t \in Services |-> IF t = s THEN v ELSE service[t]]
      BY <1>0, <2>1
    <3>2. service' = [t \in Services |-> service'[t]]
      BY <3>1
    <3> QED  BY <1>0, <2>1, <3>2 DEF EndingOK, ending
  <2>3. ASSUME NEW t \in Services PROVE ServiceOK(t)'
    <3>1. ServiceOK(t) /\ ServiceOK(s)
      BY <1>0
    <3>2. service'[t] = IF t = s THEN v ELSE service[t]
      BY <1>0, <2>1
    <3> QED  BY <1>0, <2>1, <3>1, <3>2 DEF ServiceOK, ending, Living
  <2> QED  BY <1>a, <2>2, <2>3
<1>2. ASSUME NEW s \in Services, ExitEvent(s) PROVE PlatformInd'
  <2>1. /\ ~exited /\ service[s] = "dead" /\ gone' = gone \cup {s} /\ stopping' = TRUE
        /\ UNCHANGED <<sawHealthy, coreTurn, done, exited>>
        /\ \/ service' = service /\ stopping
           \/ service' = [t \in Services |-> IF service[t] \in {"starting", "healthy"} THEN "told" ELSE service[t]]
    BY <1>2 DEF ExitEvent
  <2>2. service' = [t \in Services |-> service'[t]]
    BY <1>0, <2>1
  <2>3. EndingOK'
    BY <1>0, <2>1, <2>2 DEF EndingOK
  <2>4. ASSUME NEW t \in Services PROVE ServiceOK(t)'
    <3>1. ServiceOK(t)
      BY <1>0
    <3>2. \/ service'[t] = service[t]
          \/ service[t] \in {"starting", "healthy"} /\ service'[t] = "told"
      BY <2>1
    <3>3. stopping' => service'[t] \notin {"starting", "healthy"}
      BY <2>1, <3>1 DEF ServiceOK
    <3> QED  BY <2>1, <3>1, <3>2, <3>3 DEF ServiceOK, Living
  <2> QED  BY <1>a, <2>3, <2>4
<1>3. ASSUME NEW s \in Services, KillsAfterWait(s) PROVE PlatformInd'
  <2>1. /\ ~exited /\ UNCHANGED <<gone, sawHealthy, coreTurn, stopping, done, exited>>
        /\ service' = IF service[s] = "told" THEN [service EXCEPT ![s] = "killed"] ELSE service
    BY <1>3 DEF KillsAfterWait
  <2>2. service' = [t \in Services |-> service'[t]]
    BY <1>0, <2>1
  <2>3. EndingOK'
    BY <1>0, <2>1, <2>2 DEF EndingOK
  <2>4. ASSUME NEW t \in Services PROVE ServiceOK(t)'
    <3>1. ServiceOK(t)
      BY <1>0
    <3>2. \/ service'[t] = service[t]
          \/ service[t] = "told" /\ service'[t] = "killed"
      BY <1>0, <2>1
    <3> QED  BY <2>1, <3>1, <3>2 DEF ServiceOK, Living
  <2> QED  BY <1>a, <2>3, <2>4
<1>4. ASSUME NEW s \in Sidecars, SeesHealth(s) PROVE PlatformInd'
  <2>1. /\ ~exited /\ sawHealthy' = sawHealthy \cup {s}
        /\ UNCHANGED <<service, gone, coreTurn, ending>>
    BY <1>4 DEF SeesHealth
  <2>2. service' = [t \in Services |-> service'[t]]
    BY <1>0, <2>1
  <2>3. EndingOK'
    BY <1>0, <2>1, <2>2 DEF EndingOK, ending
  <2>4. ASSUME NEW t \in Services PROVE ServiceOK(t)'
    <3>1. ServiceOK(t) /\ sawHealthy \subseteq Sidecars
      BY <1>0
    <3> QED  BY <2>1, <3>1 DEF ServiceOK, ending
  <2> QED  BY <1>a, <2>3, <2>4
<1>5. ASSUME \/ \E s \in Sidecars : HealthTimesOut(s)
             \/ \E sig \in {"SIGINT", "SIGTERM"} : PlatformSignal(sig)
      PROVE  PlatformInd'
  <2>1. /\ ~exited /\ UNCHANGED <<gone, sawHealthy, coreTurn, exited>>
        /\ \/ stopping /\ stopping' = stopping /\ service' = service
           \/ /\ ~stopping /\ stopping' = TRUE /\ done' = done
              /\ service' = [t \in Services |-> IF service[t] \in {"starting", "healthy"} THEN "told" ELSE service[t]]
    BY <1>5 DEF HealthTimesOut, PlatformSignal, Shutdown
  <2>2. service' = [t \in Services |-> service'[t]]
    BY <1>0, <2>1
  <2>a. stopping' = TRUE
    BY <2>1
  <2>3. EndingOK'
    BY <1>0, <2>1, <2>2, <2>a DEF EndingOK
  <2>4. ASSUME NEW t \in Services PROVE ServiceOK(t)'
    <3>1. ServiceOK(t)
      BY <1>0
    <3>2. \/ service'[t] = service[t]
          \/ service[t] \in {"starting", "healthy"} /\ service'[t] = "told"
      BY <2>1
    <3>3. stopping' => service'[t] \notin {"starting", "healthy"}
      BY <2>1, <3>1 DEF ServiceOK
    <3> QED  BY <2>1, <3>1, <3>2, <3>3 DEF ServiceOK, Living
  <2> QED  BY <1>a, <2>3, <2>4
<1>6. ASSUME StartCore PROVE PlatformInd'
  <2>1. /\ ~exited /\ coreTurn /\ ~coreTurn' /\ UNCHANGED <<gone, sawHealthy, ending>>
        /\ ~stopping => sawHealthy = Sidecars
        /\ service' = IF ~stopping THEN [service EXCEPT ![AgentCore] = "starting"] ELSE service
    BY <1>0, <1>6 DEF StartCore, MayStartCore
  <2>2. service' = [t \in Services |-> service'[t]]
    BY <1>0, <2>1
  <2>3. EndingOK'
    BY <1>0, <2>1, <2>2 DEF EndingOK, ending
  <2>4. ASSUME NEW t \in Services PROVE ServiceOK(t)'
    <3>1. ServiceOK(t) /\ stopping \in BOOLEAN
      BY <1>0
    <3>2. service'[t] = IF ~stopping /\ t = AgentCore THEN "starting" ELSE service[t]
      BY <1>0, <2>1
    <3> QED  BY <1>0, <2>1, <3>1, <3>2 DEF ServiceOK, ending, Living
  <2> QED  BY <1>a, <2>3, <2>4
<1>7. ASSUME ShutdownEnds \/ PlatformExits PROVE PlatformInd'
  <2>1. /\ ~exited /\ UNCHANGED <<service, gone, sawHealthy, coreTurn, stopping>>
        /\ \/ stopping /\ done' = TRUE /\ exited' = exited
           \/ done /\ done' = done /\ exited' = TRUE /\ Children = {}
    BY <1>7 DEF ShutdownEnds, PlatformExits, LoopIsEmpty
  <2>2. service' = [t \in Services |-> service'[t]]
    BY <1>0, <2>1
  <2>3. EndingOK'
    BY <1>0, <2>1, <2>2 DEF EndingOK
  <2>4. ASSUME NEW t \in Services PROVE ServiceOK(t)'
    <3>1. ServiceOK(t)
      BY <1>0
    <3>2. exited' => service[t] \in {"off", "dead"}
      BY <1>0, <2>1, <3>1 DEF Children, ServiceOK
    <3> QED  BY <2>1, <3>1, <3>2 DEF ServiceOK
  <2> QED  BY <1>a, <2>3, <2>4
<1>8. ASSUME UNCHANGED platformVars PROVE PlatformInd'
  BY <1>8 DEF platformVars, PlatformInd, PlatformInv, NothingStartsLate, NoServiceLeft
<1> QED  BY <1>1, <1>2, <1>3, <1>4, <1>5, <1>6, <1>7, <1>8 DEF PlatformNext

(* PlatformInv: for any sidecars the supervisor starts nothing once it stops, *)
(* leaves no service behind and runs a Core only beside healthy sidecars.    *)
THEOREM PlatformIsSound == PlatformSpec => []PlatformInv
<1>1. PlatformInd => PlatformInv
  BY DEF PlatformInd
<1> QED  BY <1>1, PlatformStarts, PlatformKeeps, PTL DEF PlatformSpec

-----------------------------------------------------------------------------
(* Resets: helpers.                                                        *)

(* A part of a list of runs is one.                                         *)
LEMMA FrontOfRuns ==
    ASSUME NEW s \in Seq(Runs), NEW n \in 0..Len(s)
    PROVE  SubSeq(s, 1, n) \in Seq(Runs)
<1>1. Len(s) \in Nat
  BY LenProperties
<1>2. n \in Int /\ 1 \in Int /\ 1..n \subseteq 1..Len(s)
  BY <1>1
<1>3. \A k \in 1..n : s[k] \in Runs
  BY <1>2, ElementOfSeq
<1> HIDE DEF Runs
<1> QED  BY <1>2, <1>3, SubSeqProperties

(* What the runner keeps of its finished runs are runs.                     *)
LEMMA RecentIsRuns ==
    ASSUME NEW s \in Seq(Runs), NEW left \in Seq(Runs)
    PROVE  /\ left \o s \in Seq(Runs)
           /\ SubSeq(left \o s, 1, IF Len(left \o s) < RecentLimit THEN Len(left \o s) ELSE RecentLimit)
                 \in Seq(Runs)
<1> DEFINE t == left \o s
           n == IF Len(t) < RecentLimit THEN Len(t) ELSE RecentLimit
<1>0. t \in Seq(Runs)
  BY ConcatProperties
<1>1. t \in Seq(Runs) /\ Len(t) \in Nat
  BY <1>0, LenProperties
<1>2. n \in 0..Len(t)
  BY <1>1, ResetAssumption
<1> HIDE DEF t, n
<1>3. SubSeq(t, 1, n) \in Seq(Runs)
  BY <1>1, <1>2, FrontOfRuns
<1> QED  BY <1>1, <1>3 DEF t, n

(* A run that completes is put before those finished earlier.               *)
LEMMA CompletesIsRuns ==
    ASSUME NEW i \in Runs, NEW at, recent \in Seq(Runs), Completes(i, at)
    PROVE  recent' \in Seq(Runs)
<1> DEFINE left == <<i>>
           t == left \o recent
<1>1. left \in Seq(Runs) /\ Len(left) = 1 /\ Len(recent) \in Nat
  BY LenProperties
<1> HIDE DEF left
<1>2. t \in Seq(Runs) /\ Len(t) = Len(recent) + 1
  <2>1. t \in Seq(Runs) /\ Len(t) = Len(left) + Len(recent)
    BY <1>1, ConcatProperties
  <2> HIDE DEF t
  <2> QED  BY <1>1, <2>1
<1> DEFINE n == IF Len(recent) < RecentLimit THEN Len(recent) + 1 ELSE RecentLimit
<1>3. n \in 0..Len(t)
  BY <1>1, <1>2, ResetAssumption
<1>4. recent' = SubSeq(t, 1, n)
  BY DEF Completes, left
<1> HIDE DEF t, n
<1> QED  BY <1>2, <1>3, <1>4, FrontOfRuns

(* What a preview counts is a material.                                     *)
LEMMA MaterialIs ==
    ASSUME ResetTypeOK, NEW scope \in ResetScopes
    PROVE  Material(scope) \in Materials
  BY DEF ResetTypeOK, Material, Materials

(* A run that keeps its record keeps what is known of it.                   *)
LEMMA RunStays ==
    ASSUME NEW j \in Runs, RunIsActive(j), RunIsConfirmed(j),
           runOf'[j] = runOf[j], adminPid' = adminPid, audit \subseteq audit',
           runOf[j].at \in ActivePlaces => activeRun' = j,
           stateFile' = stateFile \/ stateFile'.active # j,
           runOf[j].at \in BehindGuard /\ ~runOf[j].raced =>
              rows' = rows /\ generated' = generated /\ coreUp' = coreUp
    PROVE  RunIsActive(j)' /\ RunIsConfirmed(j)'
<1>1. RunIsActive(j)'
  BY DEF RunIsActive
<1>2. RunIsConfirmed(j)'
  <2>1. CASE runOf[j].raced
    BY <2>1 DEF RunIsConfirmed
  <2>2. CASE ~runOf[j].raced /\ runOf[j].at \in BehindGuard
    <3>1. rows' = rows /\ generated' = generated /\ coreUp' = coreUp
      BY <2>2
    <3>2. Material(ScopeOf(j))' = Material(ScopeOf(j))
      BY <3>1 DEF Material, ScopeOf
    <3> QED  BY <2>2, <3>1, <3>2 DEF RunIsConfirmed
  <2>3. CASE ~runOf[j].raced /\ runOf[j].at \notin BehindGuard
    BY <2>3 DEF RunIsConfirmed, BehindGuard
  <2> QED  BY <2>1, <2>2, <2>3
<1> QED  BY <1>1, <1>2

(* One run acts, the only active one if it touches what the others rely on. *)
LEMMA RunActs ==
    ASSUME ResetInd, NEW i \in Runs, NEW r \in RunRecords, runOf' = [runOf EXCEPT ![i] = r],
           UNCHANGED <<adminPid, lastPid, coreUp, cursor, delivered, made>>,
           rows' \in Nat, generated' \subseteq Entries, previews' \subseteq previews,
           request' \in [StartRequests -> RequestRecords],
           \A q \in StartRequests : request'[q].at # "idle" => request[q].at # "idle",
           activeRun' \in {activeRun, NoRun, i}, recent' \in Seq(Runs),
           stateFile' \in {stateFile, runOf[i].writes}, audit' \in {audit, audit \cup {i}},
           runOf[i].at \in ActivePlaces \/ activeRun = NoRun \/ activeRun' = activeRun,
           runOf[i].at \in ActivePlaces \/ (rows' = rows /\ generated' = generated),
           RunIsActive(i)', RunIsConfirmed(i)'
    PROVE  ResetInd'
<1>0. /\ ResetTypeOK /\ cursor = delivered /\ runOf \in [Runs -> RunRecords]
      /\ \A q \in StartRequests : request[q].at # "idle" => adminPid # 0
      /\ \A j \in Runs : RunIsActive(j) /\ RunIsConfirmed(j)
  BY DEF ResetInd, ResetTypeOK
<1>1. runOf' \in [Runs -> RunRecords] /\ \A j \in Runs \ {i} : runOf'[j] = runOf[j]
  BY <1>0
<1>2. runOf[i].writes \in States /\ runOf[i].writes.active \in {NoRun, i}
  BY <1>0 DEF RunRecords, RunIsActive
<1>3. ResetTypeOK'
  BY <1>0, <1>1, <1>2 DEF ResetTypeOK
<1>4. ASSUME NEW j \in Runs \ {i} PROVE RunIsActive(j)' /\ RunIsConfirmed(j)'
  <2>0. RunIsActive(j) /\ RunIsConfirmed(j) /\ RunIsActive(i) /\ j # NoRun /\ i # NoRun
    BY <1>0 DEF Runs, NoRun
  <2>1. runOf[j].at \in ActivePlaces => activeRun = j
    BY <2>0 DEF RunIsActive
  <2>2. runOf[i].at \in ActivePlaces => activeRun = i
    BY <2>0 DEF RunIsActive
  <2>3. runOf[j].at \in ActivePlaces => activeRun' = j
    BY <2>0, <2>1, <2>2
  <2>4. runOf[j].at \in BehindGuard => rows' = rows /\ generated' = generated
    BY <2>1, <2>2 DEF ActivePlaces
  <2>5. stateFile' = stateFile \/ stateFile'.active # j
    BY <1>2, <2>0
  <2> QED  BY <1>1, <2>0, <2>3, <2>4, <2>5, RunStays
<1>5. cursor' = delivered' /\ \A q \in StartRequests : request'[q].at # "idle" => adminPid' # 0
  BY <1>0
<1> QED  BY <1>3, <1>4, <1>5 DEF ResetInd

-----------------------------------------------------------------------------
(* Resets: the steps.                                                      *)

(* WebAdmin starts with no run.                                             *)
LEMMA ResetStarts == ResetInit => ResetInd
<1> SUFFICES ASSUME ResetInit PROVE ResetInd
  OBVIOUS
<1>1. NoMaterial \in Materials /\ Nothing \in Taken
  BY DEF NoMaterial, Materials, ResetScopes, Nothing, Taken
<1>2. NoState \in States
  BY EmptySeq DEF NoState, States
<1>3. NewRun \in RunRecords /\ NoRequest \in RequestRecords
  BY <1>1, <1>2 DEF NewRun, RunRecords, RunPlaces, Final, NoRequest, RequestRecords
<1>4. recent \in Seq(Runs)
  BY EmptySeq DEF ResetInit
<1>5. ResetTypeOK
  BY <1>2, <1>3, <1>4 DEF ResetInit, ResetTypeOK
<1>6. ASSUME NEW i \in Runs PROVE RunIsActive(i) /\ RunIsConfirmed(i)
  <2>1. runOf[i] = NewRun
    BY DEF ResetInit
  <2>2. /\ NewRun.at = "none" /\ NewRun.took = Nothing /\ NewRun.writes.active = NoRun
        /\ NewRun.confirmed.rows = 0 /\ NewRun.confirmed.files = {}
    BY DEF NewRun, NoState, NoMaterial
  <2>3. RunIsActive(i)
    BY <2>1, <2>2 DEF RunIsActive, ActivePlaces, BehindGuard, Final
  <2>4. RunIsConfirmed(i)
    BY <2>1, <2>2 DEF RunIsConfirmed, BehindGuard, Nothing
  <2> QED  BY <2>3, <2>4
<1>7. cursor = delivered /\ \A q \in StartRequests : request[q].at = "idle"
  BY DEF ResetInit, NoRequest
<1> QED  BY <1>5, <1>6, <1>7 DEF ResetInd

(* What every step on a run relies on.                                      *)
LEMMA RunFacts ==
    ASSUME ResetInd, NEW i \in Runs
    PROVE  /\ ResetTypeOK /\ runOf \in [Runs -> RunRecords] /\ runOf[i] \in RunRecords
           /\ RunIsActive(i) /\ RunIsConfirmed(i) /\ i # NoRun
           /\ recent \in Seq(Runs) /\ stateFile \in States /\ rows \in Nat /\ generated \subseteq Entries
           /\ request \in [StartRequests -> RequestRecords]
           /\ runOf[i].at \notin Final => adminPid # 0
  BY DEF ResetInd, ResetTypeOK, RunIsActive, Runs, NoRun

(* A run that fails at work has its record closed; nothing of what it        *)
(* removed is forgotten.                                                    *)
LEMMA FailKeeps ==
    ASSUME ResetInd, NEW i \in Runs, FailRun(i), runOf[i].at \in ActivePlaces,
           UNCHANGED <<processVars, dataVars, made, request>>, previews' \subseteq previews,
           stateFile' \in {stateFile, runOf[i].writes}, audit' = audit
    PROVE  ResetInd'
<1>0. /\ ResetTypeOK /\ runOf \in [Runs -> RunRecords] /\ runOf[i] \in RunRecords
      /\ RunIsActive(i) /\ RunIsConfirmed(i) /\ i # NoRun /\ recent \in Seq(Runs)
  BY RunFacts
<1>1. recent' \in Seq(Runs)
  BY <1>0, CompletesIsRuns DEF FailRun
<1> DEFINE r == Over(i, "failing", [active |-> NoRun, recent |-> recent'])
<1>2. runOf' = [runOf EXCEPT ![i] = r] /\ activeRun' = NoRun
  BY DEF FailRun, Completes
<1>3. /\ r.at = "failing" /\ r.took = runOf[i].took /\ r.confirmed = runOf[i].confirmed
      /\ r.writes = [active |-> NoRun, recent |-> recent'] /\ r.raced = runOf[i].raced
      /\ r \in RunRecords
  <2>1. [active |-> NoRun, recent |-> recent'] \in States
    BY <1>1 DEF States
  <2> QED  BY <1>0, <2>1 DEF Over, RunRecords, RunPlaces
<1> HIDE DEF r
<1>4. runOf'[i] = r
  BY <1>0, <1>2
<1>5. RunIsActive(i)'
  <2>1. r.at \notin ActivePlaces /\ r.at # "lost" /\ r.writes.active = NoRun /\ adminPid' = adminPid
    BY <1>3 DEF ActivePlaces, BehindGuard, processVars
  <2>2. adminPid # 0
    BY <1>0 DEF RunIsActive, ActivePlaces, BehindGuard, Final
  <2> QED  BY <1>0, <1>3, <1>4, <2>1, <2>2 DEF RunIsActive
<1>6. RunIsConfirmed(i)'
  BY <1>0, <1>3, <1>4 DEF RunIsConfirmed, Untouched, BehindGuard
<1> QED
  BY <1>0, <1>1, <1>2, <1>3, <1>5, <1>6, RunActs
     DEF processVars, dataVars, ResetInd, ResetTypeOK

(* A run that goes from one of its places to the next by itself.            *)
LEMMA RunProceeds ==
    ASSUME ResetInd, NEW i \in Runs, NEW at \in RunPlaces \ {"lost"}, NEW entries \in SUBSET Entries,
           runOf' = [runOf EXCEPT ![i].at = at, ![i].listed = entries],
           runOf[i].at \in ActivePlaces, at \in ActivePlaces,
           UNCHANGED <<processVars, dataVars, made, request, activeRun, recent>>,
           previews' \subseteq previews,
           stateFile' \in {stateFile, runOf[i].writes}, audit' \in {audit, audit \cup {i}},
           at # "queued" => i \in audit', RunIsConfirmed(i)'
    PROVE  ResetInd'
<1>0. /\ ResetTypeOK /\ runOf \in [Runs -> RunRecords] /\ runOf[i] \in RunRecords
      /\ RunIsActive(i) /\ i # NoRun /\ recent \in Seq(Runs)
  BY RunFacts
<1> DEFINE r == [runOf[i] EXCEPT !.at = at, !.listed = entries]
<1>1. runOf' = [runOf EXCEPT ![i] = r]
  BY <1>0
<1>2. r \in RunRecords /\ r.at = at /\ r.took = runOf[i].took /\ r.writes = runOf[i].writes
  BY <1>0 DEF RunRecords
<1> HIDE DEF r
<1>3. runOf'[i] = r
  BY <1>0, <1>1
<1>4. activeRun = i /\ adminPid # 0
  BY <1>0 DEF RunIsActive, ActivePlaces, BehindGuard, Final
<1>5. RunIsActive(i)'
  BY <1>0, <1>2, <1>3, <1>4 DEF RunIsActive, processVars
<1> QED
  BY <1>0, <1>1, <1>2, <1>4, <1>5, RunActs DEF processVars, dataVars, ResetInd, ResetTypeOK

(* The checks of a run let it go on only while what was confirmed is there.  *)
LEMMA RunChecksKeep ==
    ASSUME ResetInd, NEW i \in Runs,
           RunChecks(i) \/ RunGuards(i) \/ RunReads(i) \/ RunAsserts(i) \/ ListEntries(i)
    PROVE  ResetInd'
<1>0. /\ ResetTypeOK /\ runOf \in [Runs -> RunRecords] /\ runOf[i] \in RunRecords
      /\ RunIsActive(i) /\ RunIsConfirmed(i) /\ i # NoRun /\ generated \subseteq Entries
  BY RunFacts
<1>1. runOf[i].listed \subseteq Entries /\ runOf[i].confirmed.scope \in ResetScopes
  BY <1>0 DEF RunRecords, Materials
<1>2. CleanedUp(runOf[i].preview) \subseteq previews
  BY DEF CleanedUp
<1>3. PICK at \in {"guard", "material", "assert", "progress", "deleting", "removing"},
           entries \in SUBSET Entries :
        /\ runOf[i].at \in ActivePlaces \ {"queued"}
        /\ UNCHANGED <<processVars, dataVars, made, request, recordVars>>
        /\ previews' \subseteq previews
        /\ \/ FailRun(i)
           \/ /\ runOf' = [runOf EXCEPT ![i].at = at, ![i].listed = entries]
              /\ UNCHANGED <<activeRun, recent>>
              /\ \/ runOf[i].at = "check" /\ at = "guard" /\ entries = runOf[i].listed
                 \/ runOf[i].at = "guard" /\ at = "material" /\ ~coreUp /\ entries = runOf[i].listed
                 \/ /\ runOf[i].at = "material" /\ at = "assert" /\ entries = runOf[i].listed
                    /\ Material(ScopeOf(i)) = runOf[i].confirmed
                 \/ runOf[i].at = "assert" /\ at = "progress" /\ ~coreUp /\ entries = runOf[i].listed
                 \/ /\ runOf[i].at = "listing" /\ entries = Material(ScopeOf(i)).files
                    /\ at = IF ScopeOf(i) = "knowledge" THEN "removing" ELSE "deleting"
  <2>1. ASSUME NEW at, runOf' = [runOf EXCEPT ![i].at = at]
        PROVE  runOf' = [runOf EXCEPT ![i].at = at, ![i].listed = runOf[i].listed]
    BY <1>0, <2>1 DEF RunRecords
  <2>2. CASE RunChecks(i)
    BY <1>1, <1>2, <2>1, <2>2 DEF RunChecks, RunGoesTo, ActivePlaces
  <2>3. CASE RunGuards(i)
    BY <1>1, <2>1, <2>3 DEF RunGuards, RunGoesTo, ActivePlaces, RunsOnly, requestVars
  <2>4. CASE RunReads(i)
    BY <1>1, <2>1, <2>4
       DEF RunReads, RunGoesTo, ActivePlaces, BehindGuard, RunsOnly, requestVars, StillConfirmed, ScopeOf
  <2>5. CASE RunAsserts(i)
    BY <1>1, <2>1, <2>5 DEF RunAsserts, RunGoesTo, ActivePlaces, BehindGuard, RunsOnly, requestVars
  <2>6. CASE ListEntries(i)
    <3>1. Material(ScopeOf(i)).files \subseteq Entries
      BY <1>0 DEF Material
    <3> QED  BY <2>6, <3>1 DEF ListEntries, ActivePlaces, BehindGuard, RunsOnly, requestVars
  <2> QED  BY <2>2, <2>3, <2>4, <2>5, <2>6
<1>4. stateFile' = stateFile /\ audit' = audit
  BY <1>3 DEF recordVars
<1>5. CASE FailRun(i)
  BY <1>3, <1>4, <1>5, FailKeeps
<1>6. CASE ~FailRun(i)
  <2>1. i \in audit
    BY <1>0, <1>3 DEF RunIsActive
  <2>2. at \in RunPlaces \ {"lost"} /\ at \in ActivePlaces
    BY DEF RunPlaces, ActivePlaces, BehindGuard
  <2>3. /\ runOf'[i].at = at /\ runOf'[i].listed = entries /\ runOf'[i].took = runOf[i].took
        /\ runOf'[i].confirmed = runOf[i].confirmed /\ runOf'[i].raced = runOf[i].raced
    BY <1>0, <1>3, <1>6 DEF RunRecords
  <2>4. rows' = rows /\ generated' = generated /\ coreUp' = coreUp
    BY <1>3 DEF processVars, dataVars
  <2>5. RunIsConfirmed(i)'
    <3>1. runOf[i].at \in Untouched /\ runOf[i].took = Nothing
      BY <1>0, <1>3, <1>6 DEF Untouched, RunIsConfirmed
    <3>2. /\ Nothing.rows = 0 /\ Nothing.files = {}
      BY DEF Nothing
    <3>3. CASE runOf[i].at = "listing"
      <4>1. /\ Material(ScopeOf(i)).files \subseteq generated
            /\ ScopeOf(i) # "knowledge" => Material(ScopeOf(i)).rows = rows
            /\ ScopeOf(i) = "knowledge" => Material(ScopeOf(i)).rows = 0
        BY DEF Material
      <4>2. ~runOf[i].raced => Material(ScopeOf(i)) = runOf[i].confirmed /\ ~coreUp
        BY <1>0, <3>3 DEF RunIsConfirmed, BehindGuard
      <4> QED
        BY <1>3, <1>6, <2>3, <2>4, <3>1, <3>2, <3>3, <4>1, <4>2
           DEF RunIsConfirmed, Untouched, BehindGuard
    <3>4. CASE runOf[i].at # "listing"
      <4>1. /\ at \in {"guard", "material", "assert", "progress"}
            /\ ~runOf[i].raced /\ at # "guard" => ~coreUp
            /\ ~runOf[i].raced /\ at \in {"assert", "progress"} => Material(ScopeOf(i)) = runOf[i].confirmed
        BY <1>0, <1>3, <1>6, <3>4 DEF RunIsConfirmed, BehindGuard
      <4>2. Material(ScopeOf(i))' = Material(ScopeOf(i))
        BY <2>3, <2>4 DEF Material, ScopeOf
      <4> QED
        BY <2>3, <2>4, <3>1, <3>2, <4>1, <4>2 DEF RunIsConfirmed, Untouched, BehindGuard
    <3> QED  BY <3>3, <3>4
  <2> QED  BY <1>3, <1>4, <1>6, <2>1, <2>2, <2>5, RunProceeds
<1> QED  BY <1>5, <1>6

(* A write of the state file puts a run on record and moves it on.          *)
LEMMA PersistKeeps ==
    ASSUME ResetInd, NEW i \in Runs, PersistRun(i)
    PROVE  ResetInd'
<1>0. /\ ResetTypeOK /\ runOf \in [Runs -> RunRecords] /\ runOf[i] \in RunRecords
      /\ RunIsActive(i) /\ RunIsConfirmed(i) /\ i # NoRun /\ recent \in Seq(Runs)
      /\ request \in [StartRequests -> RequestRecords] /\ rows \in Nat /\ generated \subseteq Entries
  BY RunFacts
<1> DEFINE now == runOf[i].at
           r == [runOf[i] EXCEPT !.at = AfterWrite[now],
                                 !.writes = IF now \in {"succeeding", "failing"} THEN NoState ELSE @]
<1>1. /\ now \in Awaiting
      /\ stateFile' = runOf[i].writes /\ audit' = audit \cup {i}
      /\ runOf' = [runOf EXCEPT ![i] = r]
      /\ UNCHANGED <<processVars, dataVars, requestVars, activeRun, recent>>
  BY <1>0 DEF PersistRun, Written, WriteEnds
<1>2. AfterWrite[now] = CASE now = "queued" -> "starting" [] now = "starting" -> "check"
                          [] now = "progress" -> "listing" [] now = "succeeding" -> "succeeded"
                          [] now = "failing" -> "failed"
  BY <1>1 DEF AfterWrite, Awaiting
<1>3. NoState \in States /\ NoState.active = NoRun
  BY EmptySeq DEF NoState, States
<1>4. /\ r \in RunRecords /\ r.at = AfterWrite[now] /\ r.took = runOf[i].took /\ r.raced = runOf[i].raced
      /\ r.confirmed = runOf[i].confirmed /\ r.listed = runOf[i].listed
      /\ r.writes \in {runOf[i].writes, NoState}
  <2>1. AfterWrite[now] \in RunPlaces
    BY <1>1, <1>2 DEF Awaiting, RunPlaces, ActivePlaces, BehindGuard, Final
  <2> HIDE DEF now
  <2> QED  BY <1>0, <1>3, <2>1 DEF RunRecords
<1> HIDE DEF r
<1>5. runOf'[i] = r
  BY <1>0, <1>1
<1>6. /\ rows' = rows /\ generated' = generated /\ coreUp' = coreUp /\ adminPid' = adminPid
      /\ cursor' = cursor /\ delivered' = delivered /\ lastPid' = lastPid
      /\ previews' = previews /\ made' = made /\ request' = request
  BY <1>1 DEF processVars, dataVars, requestVars
<1>7. now \notin Final
  BY <1>1 DEF Awaiting, Final
<1>8. RunIsActive(i)'
  <2>1. /\ r.at \in ActivePlaces => now \in ActivePlaces
        /\ r.at # "lost"
    BY <1>1, <1>2, <1>4 DEF Awaiting, ActivePlaces, BehindGuard
  <2>2. activeRun' = activeRun /\ adminPid # 0 /\ r.writes.active \in {NoRun, i}
    BY <1>0, <1>1, <1>3, <1>4, <1>7 DEF RunIsActive
  <2> QED  BY <1>0, <1>1, <1>4, <1>5, <1>6, <2>1, <2>2 DEF RunIsActive
<1>9. RunIsConfirmed(i)'
  <2>1. /\ r.at \in Untouched => now \in Untouched
        /\ r.at \in BehindGuard => r.at = "listing" /\ now = "progress"
        /\ r.at \in {"succeeding", "succeeded"} => now = "succeeding"
    BY <1>1, <1>2, <1>4 DEF Awaiting, Untouched, BehindGuard
  <2>2. r.at \in {"assert", "progress", "listing", "deleting", "removing"} => r.at \in BehindGuard
    BY DEF BehindGuard
  <2>3. Material(ScopeOf(i))' = Material(ScopeOf(i))
    BY <1>4, <1>5, <1>6 DEF Material, ScopeOf
  <2>4. now = "progress" => now \in BehindGuard
    BY DEF BehindGuard
  <2> QED  BY <1>0, <1>4, <1>5, <1>6, <2>1, <2>2, <2>3, <2>4 DEF RunIsConfirmed
<1> QED  BY <1>0, <1>1, <1>4, <1>6, <1>8, <1>9, RunActs DEF ResetInd, ResetTypeOK

(* A write that fails does not lose what was removed either: the run is on   *)
(* record before it removes anything.                                       *)
LEMMA PersistFailsKeep ==
    ASSUME ResetInd, NEW i \in Runs, PersistFails(i)
    PROVE  ResetInd'
<1>0. /\ ResetTypeOK /\ runOf \in [Runs -> RunRecords] /\ runOf[i] \in RunRecords
      /\ RunIsActive(i) /\ RunIsConfirmed(i) /\ i # NoRun /\ recent \in Seq(Runs)
      /\ request \in [StartRequests -> RequestRecords] /\ rows \in Nat /\ generated \subseteq Entries
  BY RunFacts
<1>1. /\ runOf[i].at \in Awaiting /\ stateFile' \in {stateFile, runOf[i].writes}
      /\ UNCHANGED <<processVars, dataVars, requestVars, audit>>
  BY DEF PersistFails, Written
<1>2. /\ rows' = rows /\ generated' = generated /\ coreUp' = coreUp /\ adminPid' = adminPid
      /\ cursor' = cursor /\ delivered' = delivered /\ lastPid' = lastPid
      /\ previews' = previews /\ made' = made /\ request' = request
  BY <1>1 DEF processVars, dataVars, requestVars
<1>3. CASE runOf[i].at \notin {"succeeding", "failing"}
  <2>1. FailRun(i) /\ runOf[i].at \in ActivePlaces
    BY <1>1, <1>3 DEF PersistFails, Awaiting, ActivePlaces, BehindGuard
  <2> QED  BY <1>1, <1>2, <2>1, FailKeeps
<1>4. CASE runOf[i].at \in {"succeeding", "failing"}
  <2> DEFINE now == runOf[i].at
             r == [runOf[i] EXCEPT !.at = AfterWrite[now],
                                   !.writes = IF now \in {"succeeding", "failing"} THEN NoState ELSE @]
  <2>1. runOf' = [runOf EXCEPT ![i] = r] /\ UNCHANGED <<activeRun, recent>>
    BY <1>0, <1>4 DEF PersistFails, WriteEnds
  <2>2. /\ AfterWrite[now] \in {"succeeded", "failed"}
        /\ AfterWrite[now] = "succeeded" => now = "succeeding"
    BY <1>4 DEF AfterWrite
  <2>3. NoState \in States /\ NoState.active = NoRun
    BY EmptySeq DEF NoState, States
  <2>4. /\ r \in RunRecords /\ r.at = AfterWrite[now] /\ r.took = runOf[i].took /\ r.raced = runOf[i].raced
        /\ r.confirmed = runOf[i].confirmed /\ r.writes = NoState
    <3>1. AfterWrite[now] \in RunPlaces
      BY <2>2 DEF RunPlaces, Final
    <3> QED  BY <1>0, <1>4, <2>3, <3>1 DEF RunRecords
  <2> HIDE DEF r
  <2>5. runOf'[i] = r
    BY <1>0, <2>1
  <2>6. r.at \notin ActivePlaces /\ r.at # "lost" /\ now \notin Final /\ r.at \notin Untouched
        /\ r.at \notin BehindGuard /\ r.at \in Final
    BY <1>4, <2>2, <2>4 DEF ActivePlaces, BehindGuard, Final, Untouched
  <2>7. RunIsActive(i)'
    BY <1>0, <1>1, <1>2, <2>3, <2>4, <2>5, <2>6 DEF RunIsActive
  <2>8. RunIsConfirmed(i)'
    <3>1. r.at \notin {"assert", "progress", "listing", "deleting", "removing"}
      BY <2>2, <2>4
    <3>2. r.at \in {"succeeding", "succeeded"} => now = "succeeding"
      BY <2>2, <2>4
    <3> QED  BY <1>0, <1>4, <2>4, <2>5, <2>6, <3>1, <3>2 DEF RunIsConfirmed
  <2> QED  BY <1>0, <1>1, <1>2, <2>1, <2>4, <2>7, <2>8, RunActs DEF ResetInd, ResetTypeOK
<1> QED  BY <1>3, <1>4

(* What a run removes adds up to what was confirmed.                        *)
LEMMA RemovalKeeps ==
    ASSUME ResetInd, NEW i \in Runs, DeleteRows(i) \/ \E e \in Entries : RemoveEntry(i, e)
    PROVE  ResetInd'
<1>0. /\ ResetTypeOK /\ runOf \in [Runs -> RunRecords] /\ runOf[i] \in RunRecords
      /\ RunIsActive(i) /\ RunIsConfirmed(i) /\ i # NoRun /\ recent \in Seq(Runs)
      /\ request \in [StartRequests -> RequestRecords] /\ rows \in Nat /\ generated \subseteq Entries
  BY RunFacts
<1>1. PICK r \in RunRecords :
        /\ runOf' = [runOf EXCEPT ![i] = r]
        /\ r.at = "removing" /\ r.confirmed = runOf[i].confirmed /\ r.raced = runOf[i].raced
        /\ r.writes = runOf[i].writes
        /\ cursor' = cursor /\ delivered' = delivered /\ rows' \in Nat /\ generated' \subseteq Entries
        /\ UNCHANGED <<processVars, requestVars, activeRun, recent, recordVars>>
        /\ \/ /\ runOf[i].at = "deleting" /\ r.took.rows = rows /\ r.took.files = runOf[i].took.files
              /\ r.listed = runOf[i].listed /\ generated' = generated
           \/ /\ runOf[i].at = "removing" /\ r.took.rows = runOf[i].took.rows
              /\ \E e \in runOf[i].listed :
                    /\ generated' = generated \ {e} /\ r.listed = runOf[i].listed \ {e}
                    /\ r.took.files = runOf[i].took.files \cup ({e} \cap generated)
  <2>1. /\ runOf[i].took \in Taken /\ runOf[i].listed \in SUBSET Entries
    BY <1>0 DEF RunRecords
  <2>2. runOf[i].took.rows \in Nat /\ runOf[i].took.files \in SUBSET Entries
    BY <2>1 DEF Taken
  <2>3. CASE DeleteRows(i)
    <3>1. /\ runOf' = [runOf EXCEPT ![i].at = "removing", ![i].took.rows = rows]
          /\ rows' = 0 /\ cursor' = cursor /\ runOf[i].at = "deleting"
          /\ UNCHANGED <<processVars, delivered, generated, requestVars, activeRun, recent, recordVars>>
      BY <2>3 DEF DeleteRows, KeptCursor
    <3> DEFINE r == [runOf[i] EXCEPT !.at = "removing", !.took.rows = rows]
    <3>2. /\ r \in RunRecords /\ r.at = "removing" /\ r.took.rows = rows
          /\ r.took.files = runOf[i].took.files /\ r.listed = runOf[i].listed
          /\ r.confirmed = runOf[i].confirmed /\ r.raced = runOf[i].raced /\ r.writes = runOf[i].writes
      BY <1>0, <2>1 DEF RunRecords, RunPlaces, ActivePlaces, BehindGuard, Taken
    <3>3. runOf' = [runOf EXCEPT ![i] = r]
      BY <1>0, <3>1
    <3> HIDE DEF r
    <3> QED  BY <1>0, <3>1, <3>2, <3>3
  <2>4. CASE \E e \in Entries : RemoveEntry(i, e)
    <3>1. PICK e \in Entries : RemoveEntry(i, e)
      BY <2>4
    <3>2. /\ runOf' = [runOf EXCEPT ![i].listed = @ \ {e}, ![i].took.files = @ \cup ({e} \cap generated)]
          /\ runOf[i].at = "removing" /\ e \in runOf[i].listed /\ generated' = generated \ {e}
          /\ UNCHANGED <<processVars, rows, cursor, delivered, requestVars, activeRun, recent, recordVars>>
      BY <3>1 DEF RemoveEntry
    <3> DEFINE rest == runOf[i].listed \ {e}
               files == runOf[i].took.files \cup ({e} \cap generated)
               r == [runOf[i] EXCEPT !.listed = rest, !.took.files = files]
    <3>3. rest \in SUBSET Entries /\ files \in SUBSET Entries /\ generated' \subseteq Entries
      BY <1>0, <2>1, <2>2, <3>2
    <3>4. runOf' = [runOf EXCEPT ![i] = r]
      BY <1>0, <3>2
    <3>5. rest = runOf[i].listed \ {e} /\ files = runOf[i].took.files \cup ({e} \cap generated)
      OBVIOUS
    <3> HIDE DEF rest, files
    <3>6. /\ r \in RunRecords /\ r.at = "removing" /\ r.took.rows = runOf[i].took.rows
          /\ r.took.files = files /\ r.listed = rest
          /\ r.confirmed = runOf[i].confirmed /\ r.raced = runOf[i].raced /\ r.writes = runOf[i].writes
      BY <1>0, <2>1, <3>2, <3>3 DEF RunRecords, Taken
    <3> HIDE DEF r
    <3>7. UNCHANGED <<processVars, requestVars, activeRun, recent, recordVars>>
          /\ cursor' = cursor /\ delivered' = delivered /\ rows' \in Nat
      BY <1>0, <3>2
    <3>8. /\ runOf[i].at = "removing" /\ r.took.rows = runOf[i].took.rows
          /\ \E x \in runOf[i].listed :
                /\ generated' = generated \ {x} /\ r.listed = runOf[i].listed \ {x}
                /\ r.took.files = runOf[i].took.files \cup ({x} \cap generated)
      BY <3>2, <3>5, <3>6, Zenon
    <3> QED  BY <3>3, <3>4, <3>6, <3>7, <3>8, Zenon
  <2> QED  BY <2>3, <2>4
<1> DEFINE n == r.took.rows
           files == r.took.files
           rest == r.listed
<1>2. r.took # Nothing => i \in audit
  BY <1>0, <1>1 DEF RunIsActive, ActivePlaces, BehindGuard
<1>3. runOf' = [runOf EXCEPT ![i] = r] /\ runOf'[i] = r
  BY <1>0, <1>1
<1>4. /\ coreUp' = coreUp /\ adminPid' = adminPid /\ lastPid' = lastPid
      /\ previews' = previews /\ made' = made /\ request' = request
      /\ activeRun' = activeRun /\ recent' = recent /\ audit' = audit /\ stateFile' = stateFile
  BY <1>1 DEF processVars, requestVars, recordVars
<1>5. runOf[i].at \in ActivePlaces /\ runOf[i].at \in BehindGuard /\ runOf[i].at # "queued"
  BY <1>1 DEF ActivePlaces, BehindGuard
<1>6. RunIsActive(i)'
  <2>1. adminPid # 0 /\ activeRun = i /\ i \in audit
    BY <1>0, <1>1, <1>5 DEF RunIsActive, Final
  <2> QED  BY <1>0, <1>1, <1>3, <1>4, <2>1 DEF RunIsActive
<1>7. RunIsConfirmed(i)'
  <2>1. r.at \notin Untouched
    BY <1>1 DEF Untouched
  <2>2. ASSUME ~runOf[i].raced
        PROVE  /\ ~coreUp /\ n = runOf[i].confirmed.rows
               /\ rest \subseteq generated' /\ rest \cup files = runOf[i].confirmed.files
    <3>1. CASE runOf[i].at = "deleting"
      BY <1>0, <1>1, <1>5, <2>2, <3>1 DEF RunIsConfirmed
    <3>2. CASE runOf[i].at = "removing"
      BY <1>0, <1>1, <1>5, <2>2, <3>2 DEF RunIsConfirmed
    <3> QED  BY <1>1, <3>1, <3>2
  <2> QED  BY <1>1, <1>3, <1>4, <2>1, <2>2 DEF RunIsConfirmed
<1> QED  BY <1>0, <1>1, <1>2, <1>3, <1>4, <1>5, <1>6, <1>7, RunActs DEF ResetInd, ResetTypeOK

(* A run that removed everything succeeds; one that is stopped at it fails.  *)
LEMMA EndOfRunKeeps ==
    ASSUME ResetInd, NEW i \in Runs, ResetStepFails(i) \/ Succeed(i)
    PROVE  ResetInd'
<1>0. /\ ResetTypeOK /\ runOf \in [Runs -> RunRecords] /\ runOf[i] \in RunRecords
      /\ RunIsActive(i) /\ RunIsConfirmed(i) /\ i # NoRun /\ recent \in Seq(Runs)
      /\ request \in [StartRequests -> RequestRecords] /\ rows \in Nat /\ generated \subseteq Entries
  BY RunFacts
<1>1. CASE ResetStepFails(i)
  <2>1. /\ FailRun(i) /\ runOf[i].at \in ActivePlaces /\ UNCHANGED <<processVars, dataVars, requestVars, stateFile, audit>>
    BY <1>1 DEF ResetStepFails, ActivePlaces, BehindGuard
  <2> QED  BY <2>1, FailKeeps DEF requestVars
<1>2. CASE Succeed(i)
  <2>1. /\ runOf[i].at = "removing" /\ runOf[i].listed = {} /\ Completes(i, "succeeding")
        /\ UNCHANGED <<processVars, dataVars, requestVars, recordVars>>
    BY <1>2 DEF Succeed, RunsOnly
  <2>2. recent' \in Seq(Runs)
    BY <1>0, <2>1, CompletesIsRuns
  <2> DEFINE r == Over(i, "succeeding", [active |-> NoRun, recent |-> recent'])
  <2>3. runOf' = [runOf EXCEPT ![i] = r] /\ activeRun' = NoRun
    BY <2>1 DEF Completes
  <2>4. /\ r.at = "succeeding" /\ r.took = runOf[i].took /\ r.confirmed = runOf[i].confirmed
        /\ r.writes = [active |-> NoRun, recent |-> recent'] /\ r.raced = runOf[i].raced
        /\ r \in RunRecords
    <3>1. [active |-> NoRun, recent |-> recent'] \in States
      BY <2>2 DEF States
    <3> QED  BY <1>0, <3>1 DEF Over, RunRecords, RunPlaces
  <2> HIDE DEF r
  <2>5. runOf'[i] = r
    BY <1>0, <2>3
  <2>6. /\ rows' = rows /\ generated' = generated /\ coreUp' = coreUp /\ adminPid' = adminPid
        /\ cursor' = cursor /\ delivered' = delivered /\ lastPid' = lastPid
        /\ previews' = previews /\ made' = made /\ request' = request
        /\ stateFile' = stateFile /\ audit' = audit
    BY <2>1 DEF processVars, dataVars, requestVars, recordVars
  <2>7. RunIsActive(i)'
    <3>1. r.at \notin ActivePlaces /\ r.at # "lost" /\ r.writes.active = NoRun
      BY <2>4 DEF ActivePlaces, BehindGuard
    <3>2. adminPid # 0
      BY <1>0, <2>1 DEF RunIsActive, Final
    <3> QED  BY <1>0, <2>4, <2>5, <2>6, <3>1, <3>2 DEF RunIsActive
  <2>8. RunIsConfirmed(i)'
    <3>1. r.at \notin Untouched /\ r.at \notin BehindGuard
      BY <2>4 DEF Untouched, BehindGuard
    <3>2. ~runOf[i].raced => /\ runOf[i].took.rows = runOf[i].confirmed.rows
                             /\ runOf[i].took.files = runOf[i].confirmed.files
      <4>1. CASE runOf[i].raced
        BY <4>1
      <4>2. CASE ~runOf[i].raced
        BY <1>0, <2>1, <4>2 DEF RunIsConfirmed
      <4> QED  BY <4>1, <4>2
    <3> QED  BY <2>4, <2>5, <3>1, <3>2 DEF RunIsConfirmed
  <2>9. runOf[i].at \in ActivePlaces
    BY <2>1 DEF ActivePlaces, BehindGuard
  <2> QED  BY <1>0, <2>2, <2>3, <2>4, <2>6, <2>7, <2>8, <2>9, RunActs
<1> QED  BY <1>1, <1>2

(* A request whose checks passed begins a run when none is active.          *)
LEMMA BeginKeeps ==
    ASSUME ResetInd, NEW q \in StartRequests, Begin(q)
    PROVE  ResetInd'
<1>0. /\ ResetTypeOK /\ cursor = delivered /\ runOf \in [Runs -> RunRecords] /\ recent \in Seq(Runs)
      /\ request \in [StartRequests -> RequestRecords] /\ rows \in Nat /\ generated \subseteq Entries
      /\ \A s \in StartRequests : request[s].at # "idle" => adminPid # 0
      /\ \A i \in Runs : RunIsActive(i) /\ RunIsConfirmed(i)
  BY DEF ResetInd, ResetTypeOK
<1>1. /\ NoRequest \in RequestRecords /\ NoRequest.at = "idle"
  BY DEF NoRequest, RequestRecords, NoMaterial, Materials, ResetScopes
<1>2. /\ request[q].at = "submit" /\ request' = [request EXCEPT ![q] = NoRequest]
      /\ UNCHANGED <<processVars, dataVars, previews, made, recordVars, recent>>
  BY DEF Begin, Answered
<1>3. /\ request' \in [StartRequests -> RequestRecords]
      /\ \A s \in StartRequests : request'[s].at # "idle" => request[s].at # "idle"
  BY <1>0, <1>1, <1>2
<1>4. /\ rows' = rows /\ generated' = generated /\ coreUp' = coreUp /\ adminPid' = adminPid
      /\ cursor' = cursor /\ delivered' = delivered /\ lastPid' = lastPid
      /\ previews' = previews /\ made' = made /\ recent' = recent
      /\ stateFile' = stateFile /\ audit' = audit
  BY <1>2 DEF processVars, dataVars, recordVars
<1>5. CASE activeRun # NoRun
  <2>1. activeRun' = activeRun /\ runOf' = runOf
    BY <1>5 DEF Begin
  <2>2. ResetTypeOK'
    BY <1>0, <1>3, <1>4, <2>1 DEF ResetTypeOK
  <2>3. ASSUME NEW j \in Runs PROVE RunIsActive(j)' /\ RunIsConfirmed(j)'
    <3>1. RunIsActive(j) /\ RunIsConfirmed(j)
      BY <1>0
    <3>2. runOf[j].at \in ActivePlaces => activeRun' = j
      BY <2>1, <3>1 DEF RunIsActive
    <3> QED  BY <1>4, <2>1, <3>1, <3>2, RunStays
  <2> QED  BY <1>0, <1>3, <1>4, <2>2, <2>3 DEF ResetInd
<1>6. CASE activeRun = NoRun
  <2>1. PICK i \in Runs :
          /\ runOf[i].at = "none" /\ activeRun' = i
          /\ runOf' = [runOf EXCEPT ![i] =
               [NewRun EXCEPT !.at = "queued", !.preview = request[q].preview,
                              !.confirmed = request[q].confirmed,
                              !.writes = [active |-> i, recent |-> recent]]]
    BY <1>6 DEF Begin
  <2> DEFINE r == [NewRun EXCEPT !.at = "queued", !.preview = request[q].preview,
                                 !.confirmed = request[q].confirmed,
                                 !.writes = [active |-> i, recent |-> recent]]
  <2>2. runOf' = [runOf EXCEPT ![i] = r] /\ runOf'[i] = r
    BY <1>0, <2>1
  <2>3. /\ r \in RunRecords /\ r.at = "queued" /\ r.took = Nothing /\ r.writes.active = i
        /\ r.confirmed = request[q].confirmed /\ ~r.raced
    <3>1. Nothing \in Taken /\ [active |-> i, recent |-> recent] \in States
      BY <1>0 DEF Nothing, Taken, States
    <3>2. request[q].preview \in Nat /\ request[q].confirmed \in Materials
      BY <1>0 DEF RequestRecords
    <3> QED  BY <3>1, <3>2 DEF NewRun, RunRecords, RunPlaces, ActivePlaces
  <2>4. adminPid # 0 /\ i # NoRun
    BY <1>0, <1>2 DEF Runs, NoRun
  <2> HIDE DEF r
  <2>5. RunIsActive(i)'
    BY <1>4, <2>1, <2>2, <2>3, <2>4 DEF RunIsActive, Final
  <2>6. RunIsConfirmed(i)'
    BY <2>2, <2>3 DEF RunIsConfirmed, BehindGuard, Nothing
  <2> QED  BY <1>0, <1>3, <1>4, <1>6, <2>1, <2>2, <2>3, <2>5, <2>6, RunActs
<1> QED  BY <1>5, <1>6

(* A step that leaves the runs and what they rely on alone keeps them.       *)
LEMMA RunsStay ==
    ASSUME ResetInd, UNCHANGED <<rows, cursor, delivered, generated, runVars, stateFile, audit>>,
           adminPid' = adminPid, coreUp' = coreUp, ResetTypeOK',
           \A s \in StartRequests : request'[s].at # "idle" => adminPid # 0
    PROVE  ResetInd'
<1>1. runOf' = runOf /\ activeRun' = activeRun /\ cursor = delivered
      /\ rows' = rows /\ generated' = generated /\ cursor' = cursor /\ delivered' = delivered
      /\ stateFile' = stateFile /\ audit' = audit
  BY DEF runVars, ResetInd
<1>2. ASSUME NEW j \in Runs PROVE RunIsActive(j)' /\ RunIsConfirmed(j)'
  <2>1. RunIsActive(j) /\ RunIsConfirmed(j)
    BY DEF ResetInd
  <2>2. runOf[j].at \in ActivePlaces => activeRun' = j
    BY <1>1, <2>1 DEF RunIsActive
  <2> QED  BY <1>1, <2>1, <2>2, RunStays
<1> QED  BY <1>1, <1>2 DEF ResetInd

(* Previews and the checks of start requests change neither runs nor data.   *)
LEMMA RequestsKeep ==
    ASSUME ResetInd,
           \/ \E s \in ResetScopes : CreatePreview(s)
           \/ \E p \in previews : PreviewExpires(p) \/ \E q \in StartRequests : BeginStart(q, p)
           \/ \E q \in StartRequests : StartGuard(q) \/ StartReads(q)
    PROVE  ResetInd'
<1>0. /\ ResetTypeOK /\ made \in Nat
      /\ previews \subseteq [id : Nat, material : Materials, expired : BOOLEAN]
      /\ request \in [StartRequests -> RequestRecords]
      /\ \A s \in StartRequests : request[s].at # "idle" => adminPid # 0
  BY DEF ResetInd, ResetTypeOK
<1>1. UNCHANGED <<processVars, dataVars, runVars, recordVars>>
  BY DEF CreatePreview, PreviewExpires, BeginStart, StartGuard, StartReads, ServiceOnly
<1>2. UNCHANGED <<adminPid, lastPid, coreUp, rows, cursor, delivered, generated, activeRun, recent, runOf,
                  stateFile, audit>>
  BY <1>1 DEF processVars, dataVars, runVars, recordVars
<1>3. ASSUME NEW keep PROVE CleanedUp(keep) \subseteq previews
  BY DEF CleanedUp
<1> DEFINE Kept == /\ previews' \subseteq [id : Nat, material : Materials, expired : BOOLEAN] /\ made' \in Nat
                   /\ request' \in [StartRequests -> RequestRecords]
                   /\ \A s \in StartRequests : request'[s].at # "idle" => adminPid # 0
<1>4. ASSUME NEW s \in ResetScopes, CreatePreview(s) PROVE Kept
  <2>1. Material(s) \in Materials
    BY <1>0, MaterialIs
  <2>2. [id |-> made + 1, material |-> Material(s), expired |-> FALSE]
          \in [id : Nat, material : Materials, expired : BOOLEAN]
    BY <1>0, <2>1
  <2>3. /\ previews' = CleanedUp(0) \cup {[id |-> made + 1, material |-> Material(s), expired |-> FALSE]}
        /\ made' = made + 1 /\ request' = request
    BY <1>4 DEF CreatePreview
  <2> QED  BY <1>0, <1>3, <2>2, <2>3
<1>5. ASSUME NEW p \in previews, PreviewExpires(p) PROVE Kept
  <2>1. [p EXCEPT !.expired = TRUE] \in [id : Nat, material : Materials, expired : BOOLEAN]
    BY <1>0
  <2>2. /\ previews' = (previews \ {p}) \cup {[p EXCEPT !.expired = TRUE]}
        /\ made' = made /\ request' = request
    BY <1>5 DEF PreviewExpires
  <2> QED  BY <1>0, <2>1, <2>2
<1>6. ASSUME NEW p \in previews, NEW q \in StartRequests, BeginStart(q, p) PROVE Kept
  <2>1. [at |-> "guard", preview |-> p.id, confirmed |-> p.material] \in RequestRecords
    BY <1>0 DEF RequestRecords
  <2>2. /\ request' = [request EXCEPT ![q] = [at |-> "guard", preview |-> p.id, confirmed |-> p.material]]
        /\ adminPid # 0 /\ previews' = CleanedUp(p.id) /\ made' = made
    BY <1>6 DEF BeginStart
  <2> QED  BY <1>0, <1>3, <2>1, <2>2
<1>7. ASSUME NEW q \in StartRequests, StartGuard(q) \/ StartReads(q) PROVE Kept
  <2>1. /\ previews' = previews /\ made' = made /\ request[q].at # "idle"
    BY <1>7 DEF StartGuard, StartReads
  <2>2. PICK rec \in RequestRecords : request' = [request EXCEPT ![q] = rec]
    <3>1. NoRequest \in RequestRecords
      BY DEF NoRequest, RequestRecords, NoMaterial, Materials, ResetScopes
    <3>2. ASSUME NEW at \in {"material", "submit"}, request' = [request EXCEPT ![q].at = at]
          PROVE  \E rec \in RequestRecords : request' = [request EXCEPT ![q] = rec]
      <4> DEFINE rec == [request[q] EXCEPT !.at = at]
      <4>1. rec \in RequestRecords
        BY <1>0 DEF RequestRecords
      <4>2. request' = [request EXCEPT ![q] = rec]
        BY <1>0, <3>2
      <4> QED  BY <4>1, <4>2
    <3> QED  BY <1>7, <3>1, <3>2 DEF StartGuard, StartReads, Answered, Proceeds
  <2>3. adminPid # 0
    BY <1>0, <2>1
  <2> QED  BY <1>0, <2>1, <2>2, <2>3
<1>8. Kept
  BY <1>4, <1>5, <1>6, <1>7
<1>9. ResetTypeOK'
  BY <1>0, <1>2, <1>8 DEF ResetTypeOK
<1> QED  BY <1>2, <1>8, <1>9, RunsStay DEF runVars

(* A Core that works or starts marks the runs it overtakes.                 *)
LEMMA CoreKeeps ==
    ASSUME ResetInd, CoreWorks \/ CoreStops \/ CoreStarts
    PROVE  ResetInd'
<1>0. /\ ResetTypeOK /\ cursor = delivered /\ runOf \in [Runs -> RunRecords]
      /\ rows \in Nat /\ cursor \in Nat /\ delivered \in Nat /\ generated \subseteq Entries
      /\ \A s \in StartRequests : request[s].at # "idle" => adminPid # 0
      /\ \A i \in Runs : RunIsActive(i) /\ RunIsConfirmed(i)
  BY DEF ResetInd, ResetTypeOK
<1>1. UNCHANGED <<adminPid, lastPid, previews, made, request, activeRun, recent, stateFile, audit>>
  BY DEF CoreWorks, CoreStops, CoreStarts, processVars, requestVars, runVars, recordVars
<1>2. CASE CoreWorks
  <2>1. /\ coreUp /\ coreUp' = coreUp /\ runOf' = runOf /\ rows' = rows + 1 /\ cursor' = cursor + 1
        /\ delivered' = delivered + 1 /\ generated' = Entries
    BY <1>2 DEF CoreWorks, processVars, runVars
  <2>2. ResetTypeOK'
    BY <1>0, <1>1, <2>1 DEF ResetTypeOK
  <2>3. ASSUME NEW j \in Runs PROVE RunIsActive(j)' /\ RunIsConfirmed(j)'
    <3>1. RunIsActive(j) /\ RunIsConfirmed(j)
      BY <1>0
    <3>2. runOf[j].at \in ActivePlaces => activeRun' = j
      BY <1>1, <3>1 DEF RunIsActive
    <3>3. ~(runOf[j].at \in BehindGuard /\ ~runOf[j].raced)
      BY <2>1, <3>1 DEF RunIsConfirmed
    <3> QED  BY <1>1, <2>1, <3>1, <3>2, <3>3, RunStays
  <2> QED  BY <1>0, <1>1, <2>1, <2>2, <2>3 DEF ResetInd
<1>3. CASE CoreStops
  <2>1. /\ coreUp /\ coreUp' = FALSE /\ runOf' = runOf
        /\ UNCHANGED <<rows, cursor, delivered, generated>>
    BY <1>3 DEF CoreStops, dataVars, runVars
  <2>2. ResetTypeOK'
    BY <1>0, <1>1, <2>1 DEF ResetTypeOK
  <2>3. ASSUME NEW j \in Runs PROVE RunIsActive(j)' /\ RunIsConfirmed(j)'
    <3>1. RunIsActive(j) /\ RunIsConfirmed(j)
      BY <1>0
    <3>2. runOf[j].at \in ActivePlaces => activeRun' = j
      BY <1>1, <3>1 DEF RunIsActive
    <3>3. ~(runOf[j].at \in BehindGuard /\ ~runOf[j].raced)
      BY <2>1, <3>1 DEF RunIsConfirmed
    <3> QED  BY <1>1, <2>1, <3>1, <3>2, <3>3, RunStays
  <2> QED  BY <1>0, <1>1, <2>1, <2>2, <2>3 DEF ResetInd
<1>4. CASE CoreStarts
  <2>1. /\ coreUp' = TRUE /\ UNCHANGED <<rows, cursor, delivered, generated>>
        /\ runOf' = [i \in Runs |-> [runOf[i] EXCEPT !.raced = @ \/ runOf[i].at \in BehindGuard]]
    BY <1>4 DEF CoreStarts, dataVars
  <2>2. ASSUME NEW j \in Runs
        PROVE  /\ runOf'[j] \in RunRecords /\ runOf'[j].at = runOf[j].at /\ runOf'[j].took = runOf[j].took
               /\ runOf'[j].confirmed = runOf[j].confirmed /\ runOf'[j].writes = runOf[j].writes
               /\ ~runOf'[j].raced => ~runOf[j].raced /\ runOf[j].at \notin BehindGuard
    <3> DEFINE b == runOf[j].raced \/ runOf[j].at \in BehindGuard
    <3>1. runOf[j] \in RunRecords /\ b \in BOOLEAN
      BY <1>0 DEF RunRecords
    <3>2. runOf'[j] = [runOf[j] EXCEPT !.raced = b]
      BY <2>1
    <3>3. ~b => ~runOf[j].raced /\ runOf[j].at \notin BehindGuard
      OBVIOUS
    <3> HIDE DEF b
    <3>4. runOf'[j].raced = b
      BY <3>1, <3>2 DEF RunRecords
    <3>5. /\ runOf'[j] \in RunRecords /\ runOf'[j].at = runOf[j].at /\ runOf'[j].took = runOf[j].took
          /\ runOf'[j].confirmed = runOf[j].confirmed /\ runOf'[j].writes = runOf[j].writes
      BY <3>1, <3>2 DEF RunRecords
    <3> QED  BY <3>3, <3>4, <3>5
  <2>3. runOf' \in [Runs -> RunRecords]
    <3>1. runOf' = [i \in Runs |-> runOf'[i]]
      BY <2>1
    <3> QED  BY <2>2, <3>1
  <2>4. ResetTypeOK'
    BY <1>0, <1>1, <2>1, <2>3 DEF ResetTypeOK
  <2>5. ASSUME NEW j \in Runs PROVE RunIsActive(j)' /\ RunIsConfirmed(j)'
    <3>1. RunIsActive(j) /\ RunIsConfirmed(j)
      BY <1>0
    <3>2. RunIsActive(j)'
      BY <1>1, <2>2, <3>1 DEF RunIsActive
    <3>3. RunIsConfirmed(j)'
      <4>1. runOf[j].at \notin BehindGuard =>
               runOf[j].at \notin {"assert", "progress", "listing", "deleting", "removing"}
        BY DEF BehindGuard
      <4> QED  BY <2>2, <3>1, <4>1 DEF RunIsConfirmed
    <3> QED  BY <3>2, <3>3
  <2> QED  BY <1>0, <1>1, <2>1, <2>4, <2>5 DEF ResetInd
<1> QED  BY <1>2, <1>3, <1>4

(* A WebAdmin that ends loses its runs, but not what is known of them.      *)
LEMMA CrashKeeps ==
    ASSUME ResetInd, AdminCrashes
    PROVE  ResetInd'
<1>0. /\ ResetTypeOK /\ cursor = delivered /\ runOf \in [Runs -> RunRecords]
      /\ \A i \in Runs : RunIsActive(i) /\ RunIsConfirmed(i)
  BY DEF ResetInd, ResetTypeOK
<1>1. /\ adminPid' = 0 /\ previews' = {} /\ request' = [q \in StartRequests |-> NoRequest]
      /\ activeRun' = NoRun /\ recent' = <<>>
      /\ runOf' = [i \in Runs |-> IF runOf[i].at \in Final THEN runOf[i] ELSE Over(i, "lost", NoState)]
      /\ UNCHANGED <<lastPid, coreUp, rows, cursor, delivered, generated, made, stateFile, audit>>
  BY DEF AdminCrashes, dataVars, recordVars
<1>2. NoState \in States /\ NoState.active = NoRun /\ recent' \in Seq(Runs)
  BY <1>1, EmptySeq DEF NoState, States
<1>3. NoRequest \in RequestRecords /\ NoRequest.at = "idle"
  BY DEF NoRequest, RequestRecords, NoMaterial, Materials, ResetScopes
<1>4. ASSUME NEW i \in Runs
      PROVE  /\ runOf'[i] \in RunRecords /\ runOf'[i].at \in Final
             /\ runOf'[i].took = runOf[i].took /\ runOf'[i].raced = runOf[i].raced
             /\ runOf'[i].confirmed = runOf[i].confirmed
             /\ runOf'[i].writes \in {runOf[i].writes, NoState}
             /\ runOf'[i].at = "lost" \/ runOf'[i] = runOf[i]
  <2>0. runOf[i] \in RunRecords
    BY <1>0
  <2>1. CASE runOf[i].at \in Final
    BY <1>1, <2>0, <2>1
  <2>2. CASE runOf[i].at \notin Final
    <3>1. runOf'[i] = [runOf[i] EXCEPT !.at = "lost", !.listed = {}, !.writes = NoState]
      BY <1>1, <2>2 DEF Over
    <3> QED  BY <1>2, <2>0, <3>1 DEF RunRecords, RunPlaces, Final
  <2> QED  BY <2>1, <2>2
<1>5. ResetTypeOK'
  <2>1. runOf' \in [Runs -> RunRecords]
    BY <1>1, <1>4
  <2> QED  BY <1>0, <1>1, <1>2, <1>3, <2>1 DEF ResetTypeOK
<1>6. ASSUME NEW i \in Runs PROVE RunIsActive(i)' /\ RunIsConfirmed(i)'
  <2>0. RunIsActive(i) /\ RunIsConfirmed(i) /\ i # NoRun
    BY <1>0 DEF Runs, NoRun
  <2>1. runOf'[i].at \notin ActivePlaces /\ runOf'[i].at \notin BehindGuard
    BY <1>4 DEF Final, ActivePlaces, BehindGuard
  <2>2. RunIsActive(i)'
    BY <1>1, <1>2, <1>4, <2>0, <2>1 DEF RunIsActive
  <2>3. RunIsConfirmed(i)'
    <3>1. CASE runOf'[i] = runOf[i]
      BY <1>4, <2>0, <2>1, <3>1 DEF RunIsConfirmed, BehindGuard
    <3>2. CASE runOf'[i].at = "lost"
      BY <1>4, <2>0, <3>2 DEF RunIsConfirmed, BehindGuard, Untouched
    <3> QED  BY <1>4, <3>1, <3>2
  <2> QED  BY <2>2, <2>3
<1>7. cursor' = delivered' /\ \A s \in StartRequests : request'[s].at = "idle"
  BY <1>0, <1>1, <1>3
<1> QED  BY <1>5, <1>6, <1>7 DEF ResetInd

(* A WebAdmin that serves has told first what an earlier one left active.    *)
LEMMA RestartTells ==
    ASSUME ResetInd, AdminStarts
    PROVE  ResetInd'
<1>0. /\ ResetTypeOK /\ cursor = delivered /\ lastPid \in Nat /\ stateFile \in States
      /\ \A i \in Runs : RunIsActive(i) /\ RunIsConfirmed(i)
      /\ \A s \in StartRequests : request[s].at # "idle" => adminPid # 0
  BY DEF ResetInd, ResetTypeOK
<1>1. /\ adminPid = 0 /\ lastPid' = lastPid + 1
      /\ UNCHANGED <<coreUp, rows, cursor, delivered, generated, previews, made, request, activeRun, runOf>>
  BY DEF AdminStarts, dataVars, requestVars
<1> DEFINE left == IF stateFile.active = NoRun THEN <<>> ELSE <<stateFile.active>>
           shown == SubSeq(left \o stateFile.recent, 1,
                          IF Len(left \o stateFile.recent) < RecentLimit
                          THEN Len(left \o stateFile.recent) ELSE RecentLimit)
<1>2. stateFile.recent \in Seq(Runs) /\ stateFile.active \in Runs \cup {NoRun}
  BY <1>0 DEF States
<1>3. left \in Seq(Runs) /\ (left = <<>> <=> stateFile.active = NoRun)
  <2>1. CASE stateFile.active = NoRun
    BY <2>1, EmptySeq
  <2>2. CASE stateFile.active # NoRun
    <3>1. stateFile.active \in Runs
      BY <1>2, <2>2
    <3> HIDE DEF Runs
    <3> QED  BY <2>2, <3>1
  <2> QED  BY <2>1, <2>2
<1>4. \/ /\ adminPid' = lastPid' /\ recent' = shown
         /\ IF left = <<>> THEN UNCHANGED <<stateFile, audit>>
            ELSE /\ stateFile' = [active |-> NoRun, recent |-> shown]
                 /\ audit' = audit \cup {stateFile.active}
      \/ UNCHANGED <<adminPid, recent, stateFile, audit>>
  BY DEF AdminStarts
<1> HIDE DEF left
<1>5. shown \in Seq(Runs)
  BY <1>2, <1>3, RecentIsRuns
<1> HIDE DEF shown
<1>6. CASE UNCHANGED <<adminPid, recent, stateFile, audit>>
  <2>1. ResetTypeOK'
    BY <1>0, <1>1, <1>6 DEF ResetTypeOK
  <2>2. ASSUME NEW j \in Runs PROVE RunIsActive(j)' /\ RunIsConfirmed(j)'
    <3>1. RunIsActive(j) /\ RunIsConfirmed(j)
      BY <1>0
    <3>2. runOf[j].at \in ActivePlaces => activeRun' = j
      BY <1>1, <3>1 DEF RunIsActive
    <3> QED  BY <1>1, <1>6, <3>1, <3>2, RunStays
  <2> QED  BY <1>0, <1>1, <1>6, <2>1, <2>2 DEF ResetInd
<1>7. CASE /\ adminPid' = lastPid' /\ recent' = shown
           /\ IF left = <<>> THEN UNCHANGED <<stateFile, audit>>
              ELSE /\ stateFile' = [active |-> NoRun, recent |-> shown]
                   /\ audit' = audit \cup {stateFile.active}
  <2>1. stateFile' \in States /\ stateFile'.active = NoRun /\ audit \subseteq audit' /\ audit' \subseteq Runs
    <3>1. CASE left = <<>>
      BY <1>0, <1>3, <1>7, <3>1 DEF ResetTypeOK
    <3>2. CASE left # <<>>
      BY <1>0, <1>2, <1>3, <1>5, <1>7, <3>2 DEF States, ResetTypeOK
    <3> QED  BY <3>1, <3>2
  <2>2. adminPid' \in Nat /\ adminPid' # 0
    BY <1>0, <1>1, <1>7
  <2>3. ResetTypeOK'
    BY <1>0, <1>1, <1>5, <1>7, <2>1, <2>2 DEF ResetTypeOK
  <2>4. ASSUME NEW j \in Runs PROVE RunIsActive(j)' /\ RunIsConfirmed(j)'
    <3>0. RunIsActive(j) /\ RunIsConfirmed(j) /\ j # NoRun
      BY <1>0 DEF Runs, NoRun
    <3>1. runOf[j].at \in Final /\ runOf[j].at \notin ActivePlaces /\ runOf[j].at \notin BehindGuard
      BY <1>1, <3>0 DEF RunIsActive, Final, ActivePlaces, BehindGuard
    <3>2. RunIsActive(j)'
      BY <1>1, <2>1, <2>2, <3>0, <3>1 DEF RunIsActive
    <3>3. RunIsConfirmed(j)'
      BY <1>1, <3>0, <3>1 DEF RunIsConfirmed, BehindGuard
    <3> QED  BY <3>2, <3>3
  <2> QED  BY <1>0, <1>1, <2>2, <2>3, <2>4 DEF ResetInd
<1> QED  BY <1>4, <1>6, <1>7

(* Every step keeps what is known of the runs.                              *)
LEMMA ResetKeeps ==
    ASSUME ResetInd, [ResetNext]_resetVars
    PROVE  ResetInd'
<1>1. CASE UNCHANGED resetVars
  <2>1. UNCHANGED <<processVars, dataVars, requestVars, runVars, recordVars>>
    BY <1>1 DEF resetVars
  <2>2. UNCHANGED <<adminPid, lastPid, coreUp, rows, cursor, delivered, generated, previews, made, request,
                    activeRun, recent, runOf, stateFile, audit>>
    BY <2>1 DEF processVars, dataVars, requestVars, runVars, recordVars
  <2>3. ResetTypeOK'
    BY <2>2 DEF ResetInd, ResetTypeOK
  <2> QED  BY <2>1, <2>2, <2>3, RunsStay DEF ResetInd
<1>2. ASSUME NEW q \in StartRequests, ServesRequest(q) PROVE ResetInd'
  BY <1>2, RequestsKeep, BeginKeeps DEF ServesRequest
<1>3. ASSUME NEW i \in Runs, RunWorks(i) PROVE ResetInd'
  BY <1>3, PersistKeeps, PersistFailsKeep, RunChecksKeep, RemovalKeeps, EndOfRunKeeps DEF RunWorks
<1>4. CASE ResetNext
  BY <1>2, <1>3, <1>4, CoreKeeps, RequestsKeep, CrashKeeps, RestartTells DEF ResetNext
<1> QED  BY <1>1, <1>4

(* ResetInd implies what an operator may rely on.                           *)
LEMMA ResetIndSuffices == ResetInd => ResetInv
<1> SUFFICES ASSUME ResetInd PROVE ResetInv
  OBVIOUS
<1>0. /\ cursor = delivered /\ \A i \in Runs : RunIsActive(i) /\ RunIsConfirmed(i)
  BY DEF ResetInd
<1>1. RunsTakeTurns
  <2> DEFINE B == {i \in Runs : runOf[i].at \in BehindGuard}
  <2>1. \A i \in B : i = activeRun
    BY <1>0 DEF RunIsActive, ActivePlaces
  <2>2. B = {} \/ B = {activeRun}
    BY <2>1
  <2>3. Cardinality(B) <= 1
    <3> HIDE DEF B
    <3>1. Cardinality({}) = 0 /\ Cardinality({activeRun}) = 1
      BY FS_EmptySet, FS_Singleton
    <3> QED  BY <2>2, <3>1
  <2> QED  BY <2>3 DEF RunsTakeTurns
<1>2. OnlyConfirmedIsRemoved /\ SuccessIsWhole
  BY <1>0 DEF OnlyConfirmedIsRemoved, SuccessIsWhole, RunIsConfirmed
<1>3. RemovalIsRecorded /\ InterruptedIsTold
  BY <1>0 DEF RemovalIsRecorded, InterruptedIsTold, RunIsActive
<1> QED  BY <1>0, <1>1, <1>2, <1>3 DEF ResetInv, CursorSurvives

(* ResetInv: whatever fails, crashes or is started again, a reset removes    *)
(* what was confirmed and no more, is on record, and keeps the cursor.      *)
THEOREM ResetIsSound == ResetSpec => []ResetInv
  BY ResetStarts, ResetKeeps, ResetIndSuffices, PTL DEF ResetSpec

(* OperationsInv: both together, as an operator runs them beside the Agent.  *)
THEOREM OperationsAreSound == ResetSpec /\ PlatformSpec => []OperationsInv
<1>1. ResetInv /\ PlatformInv => OperationsInv
  BY DEF OperationsInv
<1> QED  BY <1>1, ResetIsSound, PlatformIsSound, PTL

-----------------------------------------------------------------------------
(* The scheduled wakes (agent/scheduling/): IndInv of ScheduleWakes is       *)
(* inductive for any set of schedules, any limit of active ones and any      *)
(* number of faults.  Its preservation has one step per action, and under it *)
(* one per conjunct.                                                        *)


(* An empty queue is a queue.                                              *)
LEMMA NoneTyped == None \in [Ids -> Nat] /\ \A i \in Ids : None[i] = 0
  BY DEF None

(* The initial state satisfies the inductive invariant.                     *)
LEMMA WakesBegin == Init => IndInv
<1> SUFFICES ASSUME Init PROVE IndInv
  OBVIOUS
<1>1. TypeOK
  <2>1. 0 \in 0..MaxFaults
    BY LimitAssumption
  <2>2. Idle \in [step : Steps, id : Ids \cup {NoId}]
    BY DEF Idle, Steps
  <2> QED  BY <2>1, <2>2, NoneTyped DEF Init, TypeOK
<1>2. PhaseSound /\ OpSound /\ NoWakeLost
  BY DEF Init, PhaseSound, OpSound, NoWakeLost, Idle, None
<1>3. \A i \in Ids : WakeSound(i)
  BY DEF Init, WakeSound, None
<1> QED  BY <1>1, <1>2, <1>3 DEF IndInv

(* Every step preserves the inductive invariant.                            *)
LEMMA WakesStep ==
    ASSUME IndInv, [Next]_vars
    PROVE  IndInv'
<1> USE DEF history, disk, runtime, coordinator, loop
<1>0. CASE UNCHANGED vars
  BY <1>0 DEF IndInv, TypeOK, PhaseSound, OpSound, WakeSound, NoWakeLost, vars, None
<1>1. ASSUME NEW i \in Ids, Tick(i) PROVE IndInv'
  <2>1. TypeOK'
    BY <1>1, LimitAssumption DEF IndInv, TypeOK, Tick, OpSound, WakeSound, Steps
  <2>2. PhaseSound'
    BY <1>1 DEF IndInv, TypeOK, Tick, PhaseSound, OpSound, None
  <2>3. OpSound'
    BY <1>1 DEF IndInv, TypeOK, Tick, PhaseSound, OpSound, WakeSound
  <2>4. ASSUME NEW j \in Ids PROVE WakeSound(j)'
    BY <1>1 DEF IndInv, TypeOK, Tick, PhaseSound, OpSound, WakeSound, None
  <2>5. NoWakeLost'
    BY <1>1 DEF IndInv, TypeOK, Tick, OpSound, WakeSound, NoWakeLost
  <2> QED  BY <2>1, <2>2, <2>3, <2>4, <2>5 DEF IndInv
<1>2. CASE Start
  <2>1. TypeOK'
    BY <1>2, LimitAssumption DEF IndInv, TypeOK, Start, OpSound, WakeSound, Steps
  <2>2. PhaseSound'
    BY <1>2 DEF IndInv, TypeOK, Start, PhaseSound, OpSound, None
  <2>3. OpSound'
    BY <1>2 DEF IndInv, TypeOK, Start, PhaseSound, OpSound, WakeSound
  <2>4. ASSUME NEW j \in Ids PROVE WakeSound(j)'
    BY <1>2 DEF IndInv, TypeOK, Start, PhaseSound, OpSound, WakeSound, None
  <2>5. NoWakeLost'
    BY <1>2 DEF IndInv, TypeOK, Start, OpSound, WakeSound, NoWakeLost
  <2> QED  BY <2>1, <2>2, <2>3, <2>4, <2>5 DEF IndInv
<1>3. CASE LoadPending
  <2>1. TypeOK'
    BY <1>3, LimitAssumption DEF IndInv, TypeOK, LoadPending, OpSound, WakeSound, Steps
  <2>2. PhaseSound'
    BY <1>3 DEF IndInv, TypeOK, LoadPending, PhaseSound, OpSound, None
  <2>3. OpSound'
    BY <1>3 DEF IndInv, TypeOK, LoadPending, PhaseSound, OpSound, WakeSound
  <2>4. ASSUME NEW j \in Ids PROVE WakeSound(j)'
    BY <1>3 DEF IndInv, TypeOK, LoadPending, PhaseSound, OpSound, WakeSound, None
  <2>5. NoWakeLost'
    BY <1>3 DEF IndInv, TypeOK, LoadPending, OpSound, WakeSound, NoWakeLost
  <2> QED  BY <2>1, <2>2, <2>3, <2>4, <2>5 DEF IndInv
<1>4. ASSUME NEW i \in Ids, ReplayPending(i) PROVE IndInv'
  <2>1. TypeOK'
    BY <1>4, LimitAssumption DEF IndInv, TypeOK, ReplayPending, ReplayDelivery, QueueWake, OpSound, WakeSound, Steps
  <2>2. PhaseSound'
    BY <1>4 DEF IndInv, TypeOK, ReplayPending, ReplayDelivery, QueueWake, PhaseSound, OpSound, None
  <2>3. OpSound'
    BY <1>4 DEF IndInv, TypeOK, ReplayPending, ReplayDelivery, QueueWake, PhaseSound, OpSound, WakeSound
  <2>4. ASSUME NEW j \in Ids PROVE WakeSound(j)'
    BY <1>4 DEF IndInv, TypeOK, ReplayPending, ReplayDelivery, QueueWake, PhaseSound, OpSound, WakeSound, None
  <2>5. NoWakeLost'
    BY <1>4 DEF IndInv, TypeOK, ReplayPending, ReplayDelivery, QueueWake, OpSound, WakeSound, NoWakeLost
  <2> QED  BY <2>1, <2>2, <2>3, <2>4, <2>5 DEF IndInv
<1>5. CASE StartAgent
  <2>1. TypeOK'
    BY <1>5, LimitAssumption DEF IndInv, TypeOK, StartAgent, OpSound, WakeSound, Steps
  <2>2. PhaseSound'
    BY <1>5 DEF IndInv, TypeOK, StartAgent, PhaseSound, OpSound, None
  <2>3. OpSound'
    BY <1>5 DEF IndInv, TypeOK, StartAgent, PhaseSound, OpSound, WakeSound
  <2>4. ASSUME NEW j \in Ids PROVE WakeSound(j)'
    BY <1>5 DEF IndInv, TypeOK, StartAgent, PhaseSound, OpSound, WakeSound, None
  <2>5. NoWakeLost'
    BY <1>5 DEF IndInv, TypeOK, StartAgent, OpSound, WakeSound, NoWakeLost
  <2> QED  BY <2>1, <2>2, <2>3, <2>4, <2>5 DEF IndInv
<1>6. ASSUME NEW i \in Ids, CreateStored(i) PROVE IndInv'
  <2>1. TypeOK'
    BY <1>6, LimitAssumption DEF IndInv, TypeOK, CreateStored, Idle, OpSound, WakeSound, Steps
  <2>2. PhaseSound'
    BY <1>6 DEF IndInv, TypeOK, CreateStored, Idle, PhaseSound, OpSound, None
  <2>3. OpSound'
    BY <1>6 DEF IndInv, TypeOK, CreateStored, Idle, PhaseSound, OpSound, WakeSound
  <2>4. ASSUME NEW j \in Ids PROVE WakeSound(j)'
    BY <1>6 DEF IndInv, TypeOK, CreateStored, Idle, PhaseSound, OpSound, WakeSound, None
  <2>5. NoWakeLost'
    BY <1>6 DEF IndInv, TypeOK, CreateStored, Idle, OpSound, WakeSound, NoWakeLost
  <2> QED  BY <2>1, <2>2, <2>3, <2>4, <2>5 DEF IndInv
<1>7. ASSUME NEW i \in Ids, CancelStored(i) PROVE IndInv'
  <2>1. TypeOK'
    BY <1>7, LimitAssumption DEF IndInv, TypeOK, CancelStored, Idle, OpSound, WakeSound, Steps
  <2>2. PhaseSound'
    BY <1>7 DEF IndInv, TypeOK, CancelStored, Idle, PhaseSound, OpSound, None
  <2>3. OpSound'
    BY <1>7 DEF IndInv, TypeOK, CancelStored, Idle, PhaseSound, OpSound, WakeSound
  <2>4. ASSUME NEW j \in Ids PROVE WakeSound(j)'
    BY <1>7 DEF IndInv, TypeOK, CancelStored, Idle, PhaseSound, OpSound, WakeSound, None
  <2>5. NoWakeLost'
    BY <1>7 DEF IndInv, TypeOK, CancelStored, Idle, OpSound, WakeSound, NoWakeLost
  <2> QED  BY <2>1, <2>2, <2>3, <2>4, <2>5 DEF IndInv
<1>8. ASSUME NEW i \in Ids, FireTimer(i) PROVE IndInv'
  <2>1. TypeOK'
    BY <1>8, LimitAssumption DEF IndInv, TypeOK, FireTimer, Idle, OpSound, WakeSound, Steps
  <2>2. PhaseSound'
    BY <1>8 DEF IndInv, TypeOK, FireTimer, Idle, PhaseSound, OpSound, None
  <2>3. OpSound'
    BY <1>8 DEF IndInv, TypeOK, FireTimer, Idle, PhaseSound, OpSound, WakeSound
  <2>4. ASSUME NEW j \in Ids PROVE WakeSound(j)'
    BY <1>8 DEF IndInv, TypeOK, FireTimer, Idle, PhaseSound, OpSound, WakeSound, None
  <2>5. NoWakeLost'
    BY <1>8 DEF IndInv, TypeOK, FireTimer, Idle, OpSound, WakeSound, NoWakeLost
  <2> QED  BY <2>1, <2>2, <2>3, <2>4, <2>5 DEF IndInv
<1>9. CASE CreateDone
  <2>1. TypeOK'
    BY <1>9, LimitAssumption DEF IndInv, TypeOK, CreateDone, Idle, OpSound, WakeSound, Steps
  <2>2. PhaseSound'
    BY <1>9 DEF IndInv, TypeOK, CreateDone, Idle, PhaseSound, OpSound, None
  <2>3. OpSound'
    BY <1>9 DEF IndInv, TypeOK, CreateDone, Idle, PhaseSound, OpSound, WakeSound
  <2>4. ASSUME NEW j \in Ids PROVE WakeSound(j)'
    BY <1>9 DEF IndInv, TypeOK, CreateDone, Idle, PhaseSound, OpSound, WakeSound, None
  <2>5. NoWakeLost'
    BY <1>9 DEF IndInv, TypeOK, CreateDone, Idle, OpSound, WakeSound, NoWakeLost
  <2> QED  BY <2>1, <2>2, <2>3, <2>4, <2>5 DEF IndInv
<1>10. CASE CancelDone
  <2>1. TypeOK'
    BY <1>10, LimitAssumption DEF IndInv, TypeOK, CancelDone, Idle, OpSound, WakeSound, Steps
  <2>2. PhaseSound'
    BY <1>10 DEF IndInv, TypeOK, CancelDone, Idle, PhaseSound, OpSound, None
  <2>3. OpSound'
    BY <1>10 DEF IndInv, TypeOK, CancelDone, Idle, PhaseSound, OpSound, WakeSound
  <2>4. ASSUME NEW j \in Ids PROVE WakeSound(j)'
    BY <1>10 DEF IndInv, TypeOK, CancelDone, Idle, PhaseSound, OpSound, WakeSound, None
  <2>5. NoWakeLost'
    BY <1>10 DEF IndInv, TypeOK, CancelDone, Idle, OpSound, WakeSound, NoWakeLost
  <2> QED  BY <2>1, <2>2, <2>3, <2>4, <2>5 DEF IndInv
<1>11. CASE RecordOccurrence
  <2>1. TypeOK'
    BY <1>11, LimitAssumption DEF IndInv, TypeOK, RecordOccurrence, OpSound, WakeSound, Steps
  <2>2. PhaseSound'
    BY <1>11 DEF IndInv, TypeOK, RecordOccurrence, PhaseSound, OpSound, None
  <2>3. OpSound'
    BY <1>11 DEF IndInv, TypeOK, RecordOccurrence, PhaseSound, OpSound, WakeSound
  <2>4. ASSUME NEW j \in Ids PROVE WakeSound(j)'
    BY <1>11 DEF IndInv, TypeOK, RecordOccurrence, PhaseSound, OpSound, WakeSound, None
  <2>5. NoWakeLost'
    BY <1>11 DEF IndInv, TypeOK, RecordOccurrence, OpSound, WakeSound, NoWakeLost
  <2> QED  BY <2>1, <2>2, <2>3, <2>4, <2>5 DEF IndInv
<1>12. CASE RecordPending
  <2>1. TypeOK'
    BY <1>12, LimitAssumption DEF IndInv, TypeOK, RecordPending, OpSound, WakeSound, Steps
  <2>2. PhaseSound'
    BY <1>12 DEF IndInv, TypeOK, RecordPending, PhaseSound, OpSound, None
  <2>3. OpSound'
    BY <1>12 DEF IndInv, TypeOK, RecordPending, PhaseSound, OpSound, WakeSound
  <2>4. ASSUME NEW j \in Ids PROVE WakeSound(j)'
    BY <1>12 DEF IndInv, TypeOK, RecordPending, PhaseSound, OpSound, WakeSound, None
  <2>5. NoWakeLost'
    BY <1>12 DEF IndInv, TypeOK, RecordPending, OpSound, WakeSound, NoWakeLost
  <2> QED  BY <2>1, <2>2, <2>3, <2>4, <2>5 DEF IndInv
<1>13. CASE RemoveJob
  <2>1. TypeOK'
    BY <1>13, LimitAssumption DEF IndInv, TypeOK, RemoveJob, OpSound, WakeSound, Steps
  <2>2. PhaseSound'
    BY <1>13 DEF IndInv, TypeOK, RemoveJob, PhaseSound, OpSound, None
  <2>3. OpSound'
    BY <1>13 DEF IndInv, TypeOK, RemoveJob, PhaseSound, OpSound, WakeSound
  <2>4. ASSUME NEW j \in Ids PROVE WakeSound(j)'
    BY <1>13 DEF IndInv, TypeOK, RemoveJob, PhaseSound, OpSound, WakeSound, None
  <2>5. NoWakeLost'
    BY <1>13 DEF IndInv, TypeOK, RemoveJob, PhaseSound, OpSound, WakeSound, NoWakeLost
  <2> QED  BY <2>1, <2>2, <2>3, <2>4, <2>5 DEF IndInv
<1>14. CASE EnqueueWake
  <2>1. TypeOK'
    BY <1>14, LimitAssumption DEF IndInv, TypeOK, EnqueueWake, QueueWake, Idle, OpSound, WakeSound, Steps
  <2>2. PhaseSound'
    BY <1>14 DEF IndInv, TypeOK, EnqueueWake, QueueWake, Idle, PhaseSound, OpSound, None
  <2>3. OpSound'
    BY <1>14 DEF IndInv, TypeOK, EnqueueWake, QueueWake, Idle, PhaseSound, OpSound, WakeSound
  <2>4. ASSUME NEW j \in Ids PROVE WakeSound(j)'
    BY <1>14 DEF IndInv, TypeOK, EnqueueWake, QueueWake, Idle, PhaseSound, OpSound, WakeSound, None
  <2>5. NoWakeLost'
    BY <1>14 DEF IndInv, TypeOK, EnqueueWake, QueueWake, Idle, OpSound, WakeSound, NoWakeLost
  <2> QED  BY <2>1, <2>2, <2>3, <2>4, <2>5 DEF IndInv
<1>15. CASE Drain
  <2>1. TypeOK'
    BY <1>15, LimitAssumption DEF IndInv, TypeOK, Drain, None, OpSound, WakeSound, Steps
  <2>2. PhaseSound'
    BY <1>15 DEF IndInv, TypeOK, Drain, None, PhaseSound, OpSound
  <2>3. OpSound'
    BY <1>15 DEF IndInv, TypeOK, Drain, None, PhaseSound, OpSound, WakeSound
  <2>4. ASSUME NEW j \in Ids PROVE WakeSound(j)'
    BY <1>15 DEF IndInv, TypeOK, Drain, None, PhaseSound, OpSound, WakeSound
  <2>5. NoWakeLost'
    BY <1>15 DEF IndInv, TypeOK, Drain, None, OpSound, WakeSound, NoWakeLost
  <2> QED  BY <2>1, <2>2, <2>3, <2>4, <2>5 DEF IndInv
<1>16. CASE CommitWakes
  <2>1. TypeOK'
    BY <1>16, LimitAssumption DEF IndInv, TypeOK, CommitWakes, AppendWakes, None, OpSound, WakeSound, Steps
  <2>2. PhaseSound'
    BY <1>16 DEF IndInv, TypeOK, CommitWakes, AppendWakes, None, PhaseSound, OpSound
  <2>3. OpSound'
    BY <1>16 DEF IndInv, TypeOK, CommitWakes, AppendWakes, None, PhaseSound, OpSound, WakeSound
  <2>4. ASSUME NEW j \in Ids PROVE WakeSound(j)'
    BY <1>16 DEF IndInv, TypeOK, CommitWakes, AppendWakes, None, PhaseSound, OpSound, WakeSound
  <2>5. NoWakeLost'
    BY <1>16 DEF IndInv, TypeOK, CommitWakes, AppendWakes, None, OpSound, WakeSound, NoWakeLost
  <2> QED  BY <2>1, <2>2, <2>3, <2>4, <2>5 DEF IndInv
<1>17. ASSUME NEW i \in Ids, MarkCommitted(i) PROVE IndInv'
  <2>1. TypeOK'
    BY <1>17, LimitAssumption DEF IndInv, TypeOK, MarkCommitted, OpSound, WakeSound, Steps
  <2>2. PhaseSound'
    BY <1>17 DEF IndInv, TypeOK, MarkCommitted, PhaseSound, OpSound, None
  <2>3. OpSound'
    BY <1>17 DEF IndInv, TypeOK, MarkCommitted, PhaseSound, OpSound, WakeSound
  <2>4. ASSUME NEW j \in Ids PROVE WakeSound(j)'
    <3>1. inQueue[i] + staged[i] = 0
      BY <1>17 DEF IndInv, TypeOK, MarkCommitted, PhaseSound, WakeSound
    <3>2. WakeSound(j) /\ WakeSound(i)
      BY DEF IndInv
    <3> QED  BY <1>17, <3>1, <3>2 DEF IndInv, TypeOK, MarkCommitted, WakeSound
  <2>5. NoWakeLost'
    BY <1>17 DEF IndInv, TypeOK, MarkCommitted, OpSound, WakeSound, NoWakeLost
  <2> QED  BY <2>1, <2>2, <2>3, <2>4, <2>5 DEF IndInv
<1>18. CASE Crash
  <2>1. TypeOK'
    <3>1. faults' \in 0..MaxFaults
      BY <1>18, LimitAssumption DEF IndInv, TypeOK, Crash, Fault
    <3>2. op' \in [step : Steps, id : Ids \cup {NoId}]
      BY <1>18 DEF Crash, Idle, Steps
    <3> QED  BY <1>18, <3>1, <3>2, NoneTyped DEF IndInv, TypeOK, Crash
  <2>2. PhaseSound'
    BY <1>18 DEF IndInv, TypeOK, Crash, Fault, Idle, None, PhaseSound, OpSound
  <2>3. OpSound'
    BY <1>18 DEF IndInv, TypeOK, Crash, Fault, Idle, None, PhaseSound, OpSound, WakeSound
  <2>4. ASSUME NEW j \in Ids PROVE WakeSound(j)'
    BY <1>18 DEF IndInv, TypeOK, Crash, Fault, Idle, None, PhaseSound, OpSound, WakeSound
  <2>5. NoWakeLost'
    BY <1>18 DEF IndInv, TypeOK, Crash, Fault, Idle, None, OpSound, WakeSound, NoWakeLost
  <2> QED  BY <2>1, <2>2, <2>3, <2>4, <2>5 DEF IndInv
<1>19. CASE FireFails
  <2>1. TypeOK'
    BY <1>19, LimitAssumption DEF IndInv, TypeOK, FireFails, Fault, Idle, OpSound, WakeSound, Steps
  <2>2. PhaseSound'
    BY <1>19 DEF IndInv, TypeOK, FireFails, Fault, Idle, PhaseSound, OpSound, None
  <2>3. OpSound'
    BY <1>19 DEF IndInv, TypeOK, FireFails, Fault, Idle, PhaseSound, OpSound, WakeSound
  <2>4. ASSUME NEW j \in Ids PROVE WakeSound(j)'
    BY <1>19 DEF IndInv, TypeOK, FireFails, Fault, Idle, PhaseSound, OpSound, WakeSound, None
  <2>5. NoWakeLost'
    BY <1>19 DEF IndInv, TypeOK, FireFails, Fault, Idle, OpSound, WakeSound, NoWakeLost
  <2> QED  BY <2>1, <2>2, <2>3, <2>4, <2>5 DEF IndInv
<1>20. CASE CommitFails
  <2>1. TypeOK'
    BY <1>20, LimitAssumption DEF IndInv, TypeOK, CommitFails, Fault, Requeue, None, OpSound, WakeSound, Steps
  <2>2. PhaseSound'
    BY <1>20 DEF IndInv, TypeOK, CommitFails, Fault, Requeue, None, PhaseSound, OpSound
  <2>3. OpSound'
    BY <1>20 DEF IndInv, TypeOK, CommitFails, Fault, Requeue, None, PhaseSound, OpSound, WakeSound
  <2>4. ASSUME NEW j \in Ids PROVE WakeSound(j)'
    BY <1>20 DEF IndInv, TypeOK, CommitFails, Fault, Requeue, None, PhaseSound, OpSound, WakeSound
  <2>5. NoWakeLost'
    BY <1>20 DEF IndInv, TypeOK, CommitFails, Fault, Requeue, None, OpSound, WakeSound, NoWakeLost
  <2> QED  BY <2>1, <2>2, <2>3, <2>4, <2>5 DEF IndInv
<1>21. CASE CommitUnacknowledged
  <2>1. TypeOK'
    BY <1>21, LimitAssumption DEF IndInv, TypeOK, CommitUnacknowledged, Fault, AppendWakes, Requeue, None, OpSound, WakeSound, Steps
  <2>2. PhaseSound'
    BY <1>21 DEF IndInv, TypeOK, CommitUnacknowledged, Fault, AppendWakes, Requeue, None, PhaseSound, OpSound
  <2>3. OpSound'
    BY <1>21 DEF IndInv, TypeOK, CommitUnacknowledged, Fault, AppendWakes, Requeue, None, PhaseSound, OpSound, WakeSound
  <2>4. ASSUME NEW j \in Ids PROVE WakeSound(j)'
    BY <1>21 DEF IndInv, TypeOK, CommitUnacknowledged, Fault, AppendWakes, Requeue, None, PhaseSound, OpSound, WakeSound
  <2>5. NoWakeLost'
    BY <1>21 DEF IndInv, TypeOK, CommitUnacknowledged, Fault, AppendWakes, Requeue, None, OpSound, WakeSound, NoWakeLost
  <2> QED  BY <2>1, <2>2, <2>3, <2>4, <2>5 DEF IndInv
<1>22. CASE MarkFails
  <2>1. TypeOK'
    BY <1>22, LimitAssumption DEF IndInv, TypeOK, MarkFails, Fault, OpSound, WakeSound, Steps
  <2>2. PhaseSound'
    BY <1>22 DEF IndInv, TypeOK, MarkFails, Fault, PhaseSound, OpSound, None
  <2>3. OpSound'
    BY <1>22 DEF IndInv, TypeOK, MarkFails, Fault, PhaseSound, OpSound, WakeSound
  <2>4. ASSUME NEW j \in Ids PROVE WakeSound(j)'
    BY <1>22 DEF IndInv, TypeOK, MarkFails, Fault, PhaseSound, OpSound, WakeSound, None
  <2>5. NoWakeLost'
    BY <1>22 DEF IndInv, TypeOK, MarkFails, Fault, OpSound, WakeSound, NoWakeLost
  <2> QED  BY <2>1, <2>2, <2>3, <2>4, <2>5 DEF IndInv
<1> QED
  BY <1>0, <1>1, <1>2, <1>3, <1>4, <1>5, <1>6, <1>7, <1>8, <1>9, <1>10, <1>11, <1>12, <1>13, <1>14, <1>15, <1>16, <1>17, <1>18, <1>19, <1>20, <1>21, <1>22
     DEF Next, Startup, Request, Timer, Mutation, Loop, Failure
-----------------------------------------------------------------------------
(* The inductive invariant holds in every reachable state: it relates the   *)
(* three files, the timers, the coordinator's queued set, the event queue   *)
(* and the ledger at every point between two writes.                       *)
THEOREM WakesStaySound == Spec => []IndInv
<1>1. Init => IndInv
  BY WakesBegin
<1>2. IndInv /\ [Next]_vars => IndInv'
  BY WakesStep
<1> QED  BY <1>1, <1>2, PTL DEF Spec

(* Every variable keeps its type.                                          *)
THEOREM WakesKeepTypes == Spec => []TypeOK
<1>1. IndInv => TypeOK
  BY DEF IndInv
<1> QED  BY <1>1, WakesStaySound, PTL

(* The wake of an accepted schedule is never lost: it is an active job, a   *)
(* pending delivery, cancelled, or in the ledger.                           *)
THEOREM NoWakeIsLost == Spec => []NoWakeLost
<1>1. IndInv => NoWakeLost
  BY DEF IndInv
<1> QED  BY <1>1, WakesStaySound, PTL

(* No schedule wakes the Agent twice, whatever is retried, requeued or      *)
(* replayed.                                                               *)
THEOREM NoWakeTwice == Spec => []WakeCommittedOnce
<1>1. IndInv => WakeCommittedOnce
  BY DEF IndInv, WakeSound, WakeCommittedOnce
<1> QED  BY <1>1, WakesStaySound, PTL

(* A wake that is queued, drained or committed has its body on disk.        *)
THEOREM EveryWakeHasBody == Spec => []WakeHasBody
<1>1. ASSUME IndInv PROVE WakeHasBody
  <2>1. ASSUME NEW i \in Ids, inQueue[i] + staged[i] + committed[i] > 0
        PROVE  i \in occurrences
    <3>1. inQueue[i] \in Nat /\ staged[i] \in Nat /\ committed[i] \in Nat
      BY <1>1 DEF IndInv, TypeOK
    <3>2. inQueue[i] + staged[i] > 0 \/ committed[i] > 0
      BY <2>1, <3>1
    <3> QED  BY <1>1, <3>2 DEF IndInv, WakeSound
  <2> QED  BY <2>1 DEF WakeHasBody
<1> QED  BY <1>1, WakesStaySound, PTL
-----------------------------------------------------------------------------
(* What runs beside the Agent, together.                                   *)

(* While a behaviour exercises the lanes alone no background task works, so *)
(* what the scheduler settles is the job of none.                           *)
LanesAlone == part = "lanes" => \A t \in Tasks : taskWorker[t] = "none"

(* A step of any part preserves what holds of the scheduler and of the      *)
(* tasks that use it.                                                       *)
LEMMA BesideStep ==
    ASSUME SchedulerInv, TasksInd, LanesAlone, [BackNext]_backVars
    PROVE  SchedulerInv' /\ TasksInd' /\ LanesAlone'
<1>1. CASE InLanes(SchedulerNext)
  <2>1. /\ part = "lanes" /\ SchedulerNext /\ UNCHANGED taskVars /\ part' = part
    BY <1>1, Zenon DEF InLanes
  <2>2. SchedulerInv' BY <2>1, SchedulerKeeps
  <2>3. /\ taskStatus' = taskStatus /\ taskDisk' = taskDisk /\ taskWorker' = taskWorker
        /\ taskJob' = taskJob /\ notices' = notices /\ told' = told
        /\ writeFailures' = writeFailures
    BY <2>1 DEF taskVars
  <2>4. \A t \in Tasks : taskWorker[t] = "none" BY <2>1 DEF LanesAlone
  <2>5. TaskTypeOK' BY <2>3 DEF TasksInd, TaskTypeOK
  <2>6. SlotsAreHeldByWork' BY <2>3, <2>4 DEF TasksInd, SlotsAreHeldByWork, RunningTasks
  <2>7. NoticesFollowRegistry'
    BY <2>3 DEF TasksInd, NoticesFollowRegistry, Successes, Failures
  <2>8. LanesAlone' BY <2>3, <2>4 DEF LanesAlone
  <2> QED BY <2>2, <2>5, <2>6, <2>7, <2>8 DEF TasksInd
<1>2. CASE InTasks(BackgroundNext)
  <2>1. part = "tasks" /\ BackgroundNext /\ part' = part BY <1>2, Zenon DEF InTasks
  <2>2. LanesAlone' BY <2>1 DEF LanesAlone
  <2> QED BY <2>1, <2>2, TasksKeep
<1>3. ASSUME UNCHANGED <<backgroundVars, part>>
      PROVE  SchedulerInv' /\ TasksInd' /\ LanesAlone'
  <2>1. UNCHANGED backgroundVars /\ part' = part BY <1>3, Zenon
  <2>2. taskWorker' = taskWorker BY <2>1 DEF backgroundVars, taskVars
  <2>3. LanesAlone' BY <2>1, <2>2 DEF LanesAlone
  <2> QED BY <2>1, <2>3, TasksKeep
<1>4. \/ InWakes(Next) \/ InQueue(QueueNext) \/ InReset(ResetNext)
      \/ InPlatform(PlatformNext) \/ UNCHANGED backVars
      => UNCHANGED <<backgroundVars, part>>
  BY Zenon DEF InWakes, InQueue, InReset, InPlatform, backVars
<1> QED BY <1>1, <1>2, <1>3, <1>4, Zenon DEF BackNext

(* A step of any part is one or a stutter of the wakes, of the resets and   *)
(* of the supervisor, which share nothing.                                  *)
LEMMA BesideParts ==
    ASSUME [BackNext]_backVars
    PROVE  [Next]_vars /\ [ResetNext]_resetVars /\ [PlatformNext]_platformVars
<1>1. CASE InWakes(Next) BY <1>1, Zenon DEF InWakes
<1>2. CASE InReset(ResetNext) BY <1>2, Zenon DEF InReset
<1>3. CASE InPlatform(PlatformNext) BY <1>3, Zenon DEF InPlatform
<1>4. CASE \/ InLanes(SchedulerNext) \/ InTasks(BackgroundNext) \/ InQueue(QueueNext)
           \/ UNCHANGED backVars
  BY <1>4, Zenon DEF InLanes, InTasks, InQueue, backVars
<1> QED BY <1>1, <1>2, <1>3, <1>4, Zenon DEF BackNext

(* Beside the Agent's rounds, whichever part a behaviour exercises: no wake *)
(* is lost or given twice, the scheduler and the registry of tasks are      *)
(* sound, resets remove what was confirmed, and the supervisor leaves no    *)
(* service behind.                                                          *)
THEOREM BesideStaysSound ==
    BackSpec => [](/\ NoWakeLost /\ WakeCommittedOnce /\ SchedulerInv
                   /\ BackgroundInv /\ OperationsInv)
<1>1. BackSpec => BackInit /\ [][BackNext]_backVars BY PTL DEF BackSpec
<1>2. BackInit => /\ Init /\ ResetInit /\ PlatformInit
                  /\ SchedulerInv /\ TasksInd /\ LanesAlone
  BY SchedulerStarts, TasksStart DEF BackInit, BackgroundInit, LanesAlone
<1>3. SchedulerInv /\ TasksInd => BackgroundInv
  BY NoticesAreAsTheFile DEF TasksInd, BackgroundInv
<1>4. [BackNext]_backVars => [Next]_vars /\ [ResetNext]_resetVars /\ [PlatformNext]_platformVars
  BY BesideParts
<1>5. SchedulerInv /\ TasksInd /\ LanesAlone /\ [BackNext]_backVars
      => (SchedulerInv /\ TasksInd /\ LanesAlone)'
  BY BesideStep
<1>6. BackSpec => Spec /\ ResetSpec /\ PlatformSpec
  BY <1>1, <1>2, <1>4, PTL DEF Spec, ResetSpec, PlatformSpec
<1>7. BackSpec => [](SchedulerInv /\ BackgroundInv)
  BY <1>1, <1>2, <1>3, <1>5, PTL
<1> QED BY <1>6, <1>7, NoWakeIsLost, NoWakeTwice, OperationsAreSound, PTL
=============================================================================
