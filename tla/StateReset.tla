------------------------------ MODULE StateReset ------------------------------
(***************************************************************************)
(* Resetting the Agent's state from WebAdmin (features/operations): an     *)
(* operator previews a scope, confirms it within its time to live, and a   *)
(* run deletes the Agent's rows in one transaction and its files one by    *)
(* one (ops/reset-agent-state.ts), provided no Agent Core runs.  Runs are  *)
(* kept in a state file and an audit log, so that a restarted WebAdmin     *)
(* knows what became of them.                                              *)
(*                                                                         *)
(* Counts stand for contents, as they do in the code's fingerprint.        *)
(***************************************************************************)
EXTENDS Integers, FiniteSets, Sequences

CONSTANTS
    StartRequests, \* start requests that may be in flight at once
    Entries,       \* generated entries of the workspace
    Knowledge,     \* those of them that hold knowledge: memory and notebook
    RecentLimit,   \* finished runs kept in the state file
    MaxRuns, MaxPreviews, MaxPids, MaxRows, MaxCoreStarts, MaxResetFaults \* bounds

ASSUME ResetAssumption == Knowledge \subseteq Entries /\ RecentLimit \in Nat \ {0}

ResetScopes == {"all", "context", "knowledge"}
Runs == 1..MaxRuns
NoRun == 0

VARIABLES
    adminPid, lastPid, \* WebAdmin's process, 0 while it is down, and the last one
    coreUp, coreStarts, \* whether an Agent Core runs; how often one was started
    rows, cursor,      \* ledger rows; the delivery cursor of the runtime row
    delivered,         \* history: the furthest that cursor ever was
    generated,         \* generated entries in the workspace
    previews, made,    \* previews that may still be confirmed; how many were made
    request,           \* per start request what it awaits and what it confirms
    activeRun, recent, \* the runner's state: the active run, finished ones newest first
    runOf,             \* per run its progress, see NewRun
    stateFile, audit,  \* the state file; the runs the audit log knows
    resetFaults

requestVars == <<previews, made, request>>
runVars == <<activeRun, recent, runOf>>
dataVars == <<rows, cursor, delivered, generated>>
recordVars == <<stateFile, audit, resetFaults>>
processVars == <<adminPid, lastPid, coreUp, coreStarts>>
resetVars == <<processVars, dataVars, requestVars, runVars, recordVars>>

(* What a preview of a scope counts.                                       *)
Material(scope) ==
    [scope |-> scope,
     rows  |-> IF scope = "knowledge" THEN 0 ELSE rows,
     files |-> IF scope = "all" THEN generated
               ELSE IF scope = "knowledge" THEN generated \cap Knowledge ELSE {}]

Needed(m) == m.rows > 0 \/ m.files # {}
Nothing == [rows |-> 0, files |-> {}]
NoMaterial == [scope |-> "context", rows |-> 0, files |-> {}]
NoState == [active |-> NoRun, recent |-> <<>>]

(* A run: what it awaits, the preview it confirms, the entries it listed,  *)
(* what it removed, the state it is writing, and whether a Core was        *)
(* started since it last asked.                                            *)
NewRun == [at |-> "none", preview |-> 0, confirmed |-> NoMaterial, listed |-> {},
           took |-> Nothing, writes |-> NoState, raced |-> FALSE]

NoRequest == [at |-> "idle", preview |-> 0, confirmed |-> NoMaterial]

ResetInit ==
    /\ adminPid = 1 /\ lastPid = 1 /\ coreUp = FALSE /\ coreStarts = 0
    /\ rows = 1 /\ cursor = 1 /\ delivered = 1 /\ generated = Entries
    /\ previews = {} /\ made = 0 /\ request = [r \in StartRequests |-> NoRequest]
    /\ activeRun = NoRun /\ recent = <<>> /\ runOf = [i \in Runs |-> NewRun]
    /\ stateFile = NoState /\ audit = {} /\ resetFaults = 0

-----------------------------------------------------------------------------
(* The Agent Core.  One that is up adds rows, moves its cursor, makes files. *)

CoreWorks ==
    /\ coreUp /\ delivered < MaxRows
    /\ rows' = rows + 1 /\ cursor' = cursor + 1 /\ delivered' = delivered + 1
    /\ generated' = Entries
    /\ UNCHANGED <<processVars, requestVars, runVars, recordVars>>

CoreStops ==
    /\ coreUp /\ coreUp' = FALSE
    /\ UNCHANGED <<adminPid, lastPid, coreStarts, dataVars, requestVars, runVars, recordVars>>

BehindGuard == {"material", "assert", "progress", "listing", "deleting", "removing"}

CoreStarts ==
    /\ ~coreUp /\ coreUp' = TRUE
    /\ coreStarts < MaxCoreStarts /\ coreStarts' = coreStarts + 1
    /\ runOf' = [i \in Runs |-> [runOf[i] EXCEPT !.raced = @ \/ runOf[i].at \in BehindGuard]]
    /\ UNCHANGED <<adminPid, lastPid, dataVars, requestVars, activeRun, recent, recordVars>>

-----------------------------------------------------------------------------
(* Previews, and the checks of a start request.                            *)

ServiceOnly == UNCHANGED <<processVars, dataVars, runVars, recordVars>>

(* Every call drops the previews whose time is over, except the one it asks for. *)
CleanedUp(keep) == {p \in previews : p.id = keep \/ ~p.expired}

CreatePreview(scope) ==
    /\ adminPid # 0 /\ made < MaxPreviews /\ made' = made + 1
    /\ previews' = CleanedUp(0) \cup {[id |-> made + 1, material |-> Material(scope), expired |-> FALSE]}
    /\ UNCHANGED request /\ ServiceOnly

PreviewExpires(p) ==
    /\ ~p.expired /\ previews' = (previews \ {p}) \cup {[p EXCEPT !.expired = TRUE]}
    /\ UNCHANGED <<made, request>> /\ ServiceOnly

Answered(r) == request' = [request EXCEPT ![r] = NoRequest]
Proceeds(r, at) == request' = [request EXCEPT ![r].at = at]

BeginStart(r, p) ==
    /\ adminPid # 0 /\ request[r].at = "idle" /\ ~p.expired
    /\ request' = [request EXCEPT ![r] = [at |-> "guard", preview |-> p.id, confirmed |-> p.material]]
    /\ previews' = CleanedUp(p.id) /\ UNCHANGED made /\ ServiceOnly

StartGuard(r) ==
    /\ request[r].at = "guard"
    /\ IF coreUp THEN Answered(r) ELSE Proceeds(r, "material")
    /\ UNCHANGED <<previews, made>> /\ ServiceOnly

(* The confirmed material still is what a reset of its scope would remove. *)
StillConfirmed(m) == Material(m.scope) = m /\ Needed(m)

StartReads(r) ==
    /\ request[r].at = "material"
    /\ IF StillConfirmed(request[r].confirmed) THEN Proceeds(r, "submit") ELSE Answered(r)
    /\ UNCHANGED <<previews, made>> /\ ServiceOnly

-----------------------------------------------------------------------------
(* Runs.                                                                   *)

RunsOnly == UNCHANGED <<processVars, dataVars, requestVars, recordVars>>
RunGoesTo(i, at) == runOf' = [runOf EXCEPT ![i].at = at]

Begin(r) ==
    /\ request[r].at = "submit" /\ Answered(r)
    /\ UNCHANGED <<processVars, dataVars, previews, made, recordVars, recent>>
    /\ IF activeRun # NoRun THEN UNCHANGED <<activeRun, runOf>>
       ELSE \E i \in Runs :
              /\ runOf[i].at = "none" /\ \A j \in 1..(i - 1) : runOf[j].at # "none"
              /\ activeRun' = i
              /\ runOf' = [runOf EXCEPT ![i] =
                   [NewRun EXCEPT !.at = "queued", !.preview = request[r].preview,
                                  !.confirmed = request[r].confirmed,
                                  !.writes = [active |-> i, recent |-> recent]]]

(* A run that is over has nothing more to remove.                          *)
Over(i, at, state) == [runOf[i] EXCEPT !.at = at, !.listed = {}, !.writes = state]

(* The run leaves the active place before its last state is written.       *)
Completes(i, at) ==
    /\ activeRun' = NoRun
    /\ recent' = SubSeq(<<i>> \o recent, 1, IF Len(recent) < RecentLimit THEN Len(recent) + 1 ELSE RecentLimit)
    /\ runOf' = [runOf EXCEPT ![i] = Over(i, at, [active |-> NoRun, recent |-> recent'])]

FailRun(i) == Completes(i, "failing")

(* One write of the state file and the audit log, by temporary file and    *)
(* rename; writes of two runs are not ordered.  While a run is active the   *)
(* state names it and the runs finished before it.                         *)
Awaiting == {"queued", "starting", "progress", "succeeding", "failing"}
AfterWrite == [queued |-> "starting", starting |-> "check", progress |-> "listing",
               succeeding |-> "succeeded", failing |-> "failed"]
Written(i) == stateFile' = runOf[i].writes
WriteEnds(i) ==
    runOf' = [runOf EXCEPT ![i].at = AfterWrite[runOf[i].at],
                           ![i].writes = IF runOf[i].at \in {"succeeding", "failing"} THEN NoState ELSE @]

PersistRun(i) ==
    /\ runOf[i].at \in Awaiting
    /\ Written(i) /\ audit' = audit \cup {i} /\ WriteEnds(i)
    /\ UNCHANGED <<processVars, dataVars, requestVars, activeRun, recent, resetFaults>>

PersistFails(i) ==
    /\ runOf[i].at \in Awaiting
    /\ resetFaults < MaxResetFaults /\ resetFaults' = resetFaults + 1
    /\ Written(i) \/ UNCHANGED stateFile
    /\ IF runOf[i].at \in {"succeeding", "failing"}
       THEN WriteEnds(i) /\ UNCHANGED <<activeRun, recent>>
       ELSE FailRun(i)
    /\ UNCHANGED <<processVars, dataVars, requestVars, audit>>

(* Seeded fault: the run trusts the checks of its start request.           *)
RunChecksOnce(i) ==
    /\ runOf[i].at = "check"
    /\ RunGoesTo(i, "assert") /\ UNCHANGED <<activeRun, recent>> /\ RunsOnly

(* The run checks the preview, the guard and the material once more.       *)
RunChecks(i) ==
    /\ runOf[i].at = "check"
    /\ IF \E p \in previews : p.id = runOf[i].preview /\ ~p.expired
       THEN RunGoesTo(i, "guard") /\ UNCHANGED <<activeRun, recent>>
       ELSE FailRun(i)
    /\ previews' = CleanedUp(runOf[i].preview)
    /\ UNCHANGED <<processVars, dataVars, made, request, recordVars>>

RunGuards(i) ==
    /\ runOf[i].at = "guard"
    /\ IF coreUp THEN FailRun(i) ELSE RunGoesTo(i, "material") /\ UNCHANGED <<activeRun, recent>>
    /\ RunsOnly

RunReads(i) ==
    /\ runOf[i].at = "material"
    /\ IF StillConfirmed(runOf[i].confirmed)
       THEN RunGoesTo(i, "assert") /\ UNCHANGED <<activeRun, recent>> ELSE FailRun(i)
    /\ RunsOnly

RunAsserts(i) ==
    /\ runOf[i].at = "assert"
    /\ IF coreUp THEN FailRun(i) ELSE RunGoesTo(i, "progress") /\ UNCHANGED <<activeRun, recent>>
    /\ RunsOnly

-----------------------------------------------------------------------------
(* The reset itself.                                                       *)

ScopeOf(i) == runOf[i].confirmed.scope

ListEntries(i) ==
    /\ runOf[i].at = "listing"
    /\ runOf' = [runOf EXCEPT ![i].at = IF ScopeOf(i) = "knowledge" THEN "removing" ELSE "deleting",
                              ![i].listed = Material(ScopeOf(i)).files]
    /\ UNCHANGED <<activeRun, recent>> /\ RunsOnly

(* One transaction: rows and runtime row go, a fresh runtime row keeps the *)
(* delivery cursor.                                                        *)
KeptCursor == cursor

DeleteRows(i) ==
    /\ runOf[i].at = "deleting"
    /\ rows' = 0 /\ cursor' = KeptCursor
    /\ runOf' = [runOf EXCEPT ![i].at = "removing", ![i].took.rows = rows]
    /\ UNCHANGED <<processVars, delivered, generated, requestVars, activeRun, recent, recordVars>>

RemoveEntry(i, e) ==
    /\ runOf[i].at = "removing" /\ e \in runOf[i].listed
    /\ generated' = generated \ {e}
    /\ runOf' = [runOf EXCEPT ![i].listed = @ \ {e}, ![i].took.files = @ \cup ({e} \cap generated)]
    /\ UNCHANGED <<processVars, rows, cursor, delivered, requestVars, activeRun, recent, recordVars>>

ResetStepFails(i) ==
    /\ runOf[i].at \in {"listing", "deleting", "removing"}
    /\ resetFaults < MaxResetFaults /\ resetFaults' = resetFaults + 1
    /\ FailRun(i)
    /\ UNCHANGED <<processVars, dataVars, requestVars, stateFile, audit>>

Succeed(i) ==
    /\ runOf[i].at = "removing" /\ runOf[i].listed = {}
    /\ Completes(i, "succeeding") /\ RunsOnly

-----------------------------------------------------------------------------
(* WebAdmin's process.                                                     *)

Final == {"none", "succeeded", "failed", "lost"}

AdminCrashes ==
    /\ adminPid # 0 /\ lastPid < MaxPids /\ adminPid' = 0
    /\ previews' = {} /\ request' = [r \in StartRequests |-> NoRequest]
    /\ activeRun' = NoRun /\ recent' = <<>>
    /\ runOf' = [i \in Runs |-> IF runOf[i].at \in Final THEN runOf[i] ELSE Over(i, "lost", NoState)]
    /\ UNCHANGED <<lastPid, coreUp, coreStarts, dataVars, made, recordVars>>

(* A run another process left active is recorded as interrupted; if that   *)
(* cannot be written, this process serves no operation.                    *)
AdminStarts ==
    /\ adminPid = 0 /\ lastPid' = lastPid + 1
    /\ UNCHANGED <<coreUp, coreStarts, dataVars, requestVars, activeRun, runOf>>
    /\ LET left == IF stateFile.active = NoRun THEN <<>> ELSE <<stateFile.active>>
           told == SubSeq(left \o stateFile.recent, 1,
                          IF Len(left \o stateFile.recent) < RecentLimit THEN Len(left \o stateFile.recent) ELSE RecentLimit)
       IN \/ /\ adminPid' = lastPid' /\ recent' = told /\ UNCHANGED resetFaults
             /\ IF left = <<>> THEN UNCHANGED <<stateFile, audit>>
                ELSE /\ stateFile' = [active |-> NoRun, recent |-> told]
                     /\ audit' = audit \cup {stateFile.active}
          \/ /\ left # <<>> /\ resetFaults < MaxResetFaults /\ resetFaults' = resetFaults + 1
             /\ UNCHANGED <<adminPid, recent, stateFile, audit>>

-----------------------------------------------------------------------------
ServesRequest(r) == StartGuard(r) \/ StartReads(r) \/ Begin(r)

RunWorks(i) ==
    \/ PersistRun(i) \/ PersistFails(i) \/ RunChecks(i) \/ RunGuards(i) \/ RunReads(i) \/ RunAsserts(i)
    \/ ListEntries(i) \/ DeleteRows(i) \/ (\E e \in Entries : RemoveEntry(i, e))
    \/ ResetStepFails(i) \/ Succeed(i)

ResetNext ==
    \/ CoreWorks \/ CoreStops \/ CoreStarts
    \/ \E s \in ResetScopes : CreatePreview(s)
    \/ \E p \in previews : PreviewExpires(p) \/ \E r \in StartRequests : BeginStart(r, p)
    \/ \E r \in StartRequests : ServesRequest(r)
    \/ \E i \in Runs : RunWorks(i)
    \/ AdminCrashes \/ AdminStarts

ResetSpec == ResetInit /\ [][ResetNext]_resetVars

-----------------------------------------------------------------------------
(* At most one run is past its checks and not yet over.                    *)
RunsTakeTurns == Cardinality({i \in Runs : runOf[i].at \in BehindGuard}) <= 1

(* What a run removes is what its operator saw and confirmed, unless a     *)
(* Core was started behind the run's last look.                            *)
OnlyConfirmedIsRemoved ==
    \A i \in Runs : ~runOf[i].raced =>
        /\ runOf[i].took.rows \in {0, runOf[i].confirmed.rows}
        /\ runOf[i].took.files \subseteq runOf[i].confirmed.files

(* A run that is told as succeeded has removed all that was confirmed.     *)
SuccessIsWhole ==
    \A i \in Runs : runOf[i].at \in {"succeeding", "succeeded"} /\ ~runOf[i].raced =>
        /\ runOf[i].took.rows = runOf[i].confirmed.rows
        /\ runOf[i].took.files = runOf[i].confirmed.files

(* Whatever fails or crashes, a run that removed something is on record.   *)
RemovalIsRecorded == \A i \in Runs : runOf[i].took # Nothing => i \in audit

(* A reset never makes a mailbox start over: the delivery cursor survives. *)
CursorSurvives == cursor = delivered

(* A WebAdmin that serves never shows a run of an earlier process as still  *)
(* going on: the run its file left active is recorded as interrupted first. *)
InterruptedIsTold ==
    adminPid # 0 => \A i \in Runs : runOf[i].at = "lost" => stateFile.active # i

(* Resets from WebAdmin (operation-runner.ts, operations.service.ts,       *)
(* reset-agent-state.ts): the six above.                                   *)
ResetInv ==
    /\ RunsTakeTurns /\ OnlyConfirmedIsRemoved /\ SuccessIsWhole
    /\ RemovalIsRecorded /\ CursorSurvives /\ InterruptedIsTold
=============================================================================
