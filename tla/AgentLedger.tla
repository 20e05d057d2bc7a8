---------------------------- MODULE AgentLedger ----------------------------
(***************************************************************************)
(* The canonical Agent ledger of qq-bot-v2 and the in-memory projection    *)
(* each Agent Core keeps of it: bot_agent_ledger_entries (append only),    *)
(* the bot_agent_runtime_state singleton, the expected-head commits of     *)
(* LedgerCommitCoordinator, the optimistic compaction of                   *)
(* CompactionCoordinator, and process start, crash and overlap.            *)
(*                                                                         *)
(* A message is its role and, for a tool result, the id of the assistant   *)
(* entry whose call it answers; text, tokens and summaries are abstracted. *)
(* Ledger order is id order, so a ledger, and a projection of it, are sets *)
(* of entries.  Id 0 stands for null.                                      *)
(***************************************************************************)
EXTENDS Integers, Sequences

CONSTANTS
    Cores,          \* Agent Core processes that may ever run
    NoCore,         \* the advisory lock is free
    Batches,        \* shapes of the message lists a commit appends
    MaxId,          \* bound: last id the autoincrement may hand out
    MaxContinuity,  \* bound: last version of mailboxContinuity
    LockMayDrop,    \* the lock's own database session may die under a live Core
    AckMayBeLost    \* a commit may take effect although its caller sees an error

Roles == {"user", "assistant", "tool"}

ASSUME CoreAssumption == NoCore \notin Cores
ASSUME BoundAssumption == MaxId \in Nat /\ MaxContinuity \in Nat
ASSUME SwitchAssumption == LockMayDrop \in BOOLEAN /\ AckMayBeLost \in BOOLEAN
(* A batch is closed under tool groups: a result directly follows its      *)
(* assistant message or a sibling result of the same assistant message.    *)
ASSUME BatchAssumption ==
    \A b \in Batches :
        /\ b \in Seq([role : Roles, answers : Nat])
        /\ Len(b) > 0
        /\ \A i \in 1..Len(b) :
              IF b[i].role = "tool"
              THEN /\ b[i].answers \in 1..(i - 1)
                   /\ b[b[i].answers].role = "assistant"
                   /\ \A j \in (b[i].answers + 1)..i : b[j].role = "tool"
              ELSE b[i].answers = 0

VARIABLES
    ledger,      \* bot_agent_ledger_entries: the set of committed entries
    nextId,      \* next value of the id sequence (a rollback leaves a gap)
    runtime,     \* bot_agent_runtime_state singleton
    lock,        \* owner of the Agent Core advisory lock
    pc,          \* what each Core is doing
    mem,         \* each Core's AgentContext and runtime-local control state
    plan,        \* each Core's compaction candidate, while it has one
    summarized   \* history: ids that were input to a committed summary

vars == <<ledger, nextId, runtime, lock, pc, mem, plan, summarized>>

Ids == 1..MaxId
Entry == [id : Ids, role : Roles \cup {"compaction"}, call : 0..MaxId,
          firstKept : 0..MaxId, prev : 0..MaxId]
RuntimeState == [head : 0..MaxId, cursor : Nat, continuity : 0..MaxContinuity]

-----------------------------------------------------------------------------
(* The deterministic projection of a ledger.                               *)

Messages(L)    == {e \in L : e.role # "compaction"}
Compactions(L) == {e \in L : e.role = "compaction"}
Latest(L)      == {c \in Compactions(L) : \A d \in Compactions(L) : d.id <= c.id}

Kept(m, c) == m.id > c.id \/ (c.firstKept # 0 /\ m.id >= c.firstKept)

Active(L) == {m \in Messages(L) : \A c \in Latest(L) : Kept(m, c)}

Project(L) == [summary |-> {c.id : c \in Latest(L)}, messages |-> Active(L)]

Prefix(L, h) == {e \in L : e.id <= h}

(* The checks projectAgentLedger makes before it returns a projection.     *)
ChainValid(L) ==
    \A c \in Compactions(L) :
        LET earlier == {d \in Compactions(L) : d.id < c.id}
        IN  IF earlier = {} THEN c.prev = 0 ELSE \E d \in Latest(earlier) : c.prev = d.id
BoundaryValid(L) ==
    \A c \in Latest(L) :
        c.firstKept # 0 => \E m \in Messages(L) : m.id = c.firstKept /\ m.role # "tool"
ToolGroupsWhole(M) ==
    \A t \in M : t.role = "tool" => \E a \in M : a.id = t.call /\ a.role = "assistant"
Loadable(L, h) ==
    /\ L = {} => h = 0
    /\ L # {} => \E e \in L : e.id = h /\ \A d \in L : d.id <= h
    /\ ToolGroupsWhole(Messages(L))
    /\ ChainValid(L)
    /\ BoundaryValid(L)
    /\ ToolGroupsWhole(Active(L))

-----------------------------------------------------------------------------
(* Choosing a compaction cut.  Token estimates are abstracted, so any cut  *)
(* some estimate yields may be chosen: a unit boundary after the first     *)
(* unit, at a user message or inside the last user turn.                   *)

(* Seeded fault: a cut may fall on a tool result.                          *)
CutAnywhere(A) ==
    {m \in A : /\ \E x \in A : x.id < m.id
               /\ \/ m.role = "user"
                  \/ ~\E u \in A : u.role = "user" /\ u.id > m.id}
LegalCuts(A) ==
    {m \in A : /\ m.role # "tool"
               /\ \E x \in A : x.id < m.id
               /\ \/ m.role = "user"
                  \/ ~\E u \in A : u.role = "user" /\ u.id > m.id}

(* firstKept = 0 is a behavioral reset: every active message is summarized. *)
CutPoints(A) ==
    IF ~ToolGroupsWhole(A) THEN {}
    ELSE {m.id : m \in LegalCuts(A)} \cup (IF A = {} THEN {} ELSE {0})

KeptTail(A, firstKept) == {m \in A : firstKept # 0 /\ m.id >= firstKept}
EntriesToSummarize(A, firstKept) == {m.id : m \in A \ KeptTail(A, firstKept)}

-----------------------------------------------------------------------------
(* Memory of one Core: its copy of the runtime singleton (ledgerHeadEntryId *)
(* included) and the projection installed in AgentContext.                 *)

EmptyMemory == [runtime |-> [head |-> 0, cursor |-> 0, continuity |-> 0],
                view |-> [summary |-> {}, messages |-> {}]]

NoPlan == [head |-> 0, firstKept |-> 0, prev |-> 0, continuity |-> 0,
           input |-> {}, tail |-> {}, attempt |-> 0]

Init ==
    /\ ledger = {} /\ nextId = 1 /\ summarized = {}
    /\ runtime = EmptyMemory.runtime
    /\ lock = NoCore
    /\ pc = [c \in Cores |-> "down"]
    /\ mem = [c \in Cores |-> EmptyMemory]
    /\ plan = [c \in Cores |-> NoPlan]

(* Seeded fault: only a head ahead of the stored one is refused.           *)
HeadNotBehind(expected, actual) == expected <= actual
(* The expected-head check.                                                *)
MatchingHead(expected, actual) == expected = actual

(* Which fields a commit patches: none, or the continuity with or without  *)
(* the mailbox cursors.                                                    *)
PatchKinds == {"none", "continuity", "cursors"}
(* The row a commit writes back to the singleton: patched fields come from *)
(* the committing Core's memory, the others keep their stored value.       *)
PersistRuntimeState(m, kind, h) ==
    [head |-> h,
     cursor |-> IF kind = "cursors" THEN m.cursor + 1 ELSE runtime.cursor,
     continuity |-> IF kind = "none" THEN runtime.continuity ELSE m.continuity + 1]

MessageEntry(b, first, i) ==
    [id |-> first + i - 1, role |-> b[i].role,
     call |-> IF b[i].role = "tool" THEN first + b[i].answers - 1 ELSE 0,
     firstKept |-> 0, prev |-> 0]
NewEntries(b, first) == {MessageEntry(b, first, i) : i \in 1..Len(b)}

CompactionEntry(p, id) ==
    [id |-> id, role |-> "compaction", call |-> 0,
     firstKept |-> p.firstKept, prev |-> p.prev]

(* The coordinator's incremental install after a successful commit.        *)
InstallCommit(m, new, r) ==
    [runtime |-> r, view |-> [m.view EXCEPT !.messages = @ \cup new]]

-----------------------------------------------------------------------------
(* Process lifecycle.                                                      *)

AcquireLock(c) ==
    /\ pc[c] = "down" /\ lock = NoCore
    /\ lock' = c
    /\ pc' = [pc EXCEPT ![c] = "starting"]
    /\ UNCHANGED <<ledger, nextId, runtime, mem, plan, summarized>>

(* Startup reads the singleton and every entry in one transaction that     *)
(* holds the singleton's row lock, and installs their projection.          *)
Load(c) ==
    /\ pc[c] = "starting"
    /\ mem' = [mem EXCEPT ![c] = [runtime |-> runtime, view |-> Project(ledger)]]
    /\ pc' = [pc EXCEPT ![c] = "idle"]
    /\ UNCHANGED <<ledger, nextId, runtime, lock, plan, summarized>>

(* Crash, or shutdown: the session that holds the lock ends with the process. *)
Crash(c) ==
    /\ pc[c] # "down"
    /\ pc' = [pc EXCEPT ![c] = "down"]
    /\ mem' = [mem EXCEPT ![c] = EmptyMemory]
    /\ plan' = [plan EXCEPT ![c] = NoPlan]
    /\ lock' = IF lock = c THEN NoCore ELSE lock
    /\ UNCHANGED <<ledger, nextId, runtime, summarized>>

(* The lock lives on a connection of its own: the server may end that      *)
(* session while the Core goes on using its other connections.             *)
DropLock(c) ==
    /\ LockMayDrop /\ lock = c
    /\ lock' = NoCore
    /\ UNCHANGED <<ledger, nextId, runtime, pc, mem, plan, summarized>>

-----------------------------------------------------------------------------
(* Message and runtime-only commits.                                       *)

(* Seeded fault: the head is not compared under the row lock.              *)
AppendWithoutHeadCheck(c, b, kind) ==
    /\ nextId + Len(b) - 1 <= MaxId
    /\ kind = "none" \/ mem[c].runtime.continuity < MaxContinuity
    /\ ledger' = ledger \cup NewEntries(b, nextId)
    /\ nextId' = nextId + Len(b)
    /\ runtime' = PersistRuntimeState(mem[c].runtime, kind, nextId + Len(b) - 1)

(* The transaction of appendMessages.                                      *)
AppendMessages(c, b, kind) ==
    /\ MatchingHead(mem[c].runtime.head, runtime.head)
    /\ nextId + Len(b) - 1 <= MaxId
    /\ kind = "none" \/ mem[c].runtime.continuity < MaxContinuity
    /\ ledger' = ledger \cup NewEntries(b, nextId)
    /\ nextId' = nextId + Len(b)
    /\ runtime' = PersistRuntimeState(mem[c].runtime, kind, nextId + Len(b) - 1)

CommitMessages(c, b, kind) ==
    /\ pc[c] = "idle"
    /\ AppendMessages(c, b, kind)
    /\ mem' = [mem EXCEPT ![c] = InstallCommit(mem[c], NewEntries(b, nextId), runtime')]
    /\ UNCHANGED <<lock, pc, plan, summarized>>

(* Seeded fault: the messages are installed before the commit is known.    *)
CommitInstalledEarly(c, b, kind) ==
    /\ AckMayBeLost
    /\ pc[c] = "idle"
    /\ AppendMessages(c, b, kind)
    /\ mem' = [mem EXCEPT ![c].view.messages = @ \cup NewEntries(b, nextId)]
    /\ UNCHANGED <<lock, pc, plan, summarized>>

(* The transaction commits but its caller gets an error: commitChanges     *)
(* rethrows and leaves AgentContext, cursors and expected head as they are. *)
CommitUnacknowledged(c, b, kind) ==
    /\ AckMayBeLost
    /\ pc[c] = "idle"
    /\ AppendMessages(c, b, kind)
    /\ UNCHANGED <<lock, pc, mem, plan, summarized>>

(* The transaction aborts after k inserts: only the id sequence has moved. *)
RollBack(c, k) ==
    /\ pc[c] = "idle"
    /\ MatchingHead(mem[c].runtime.head, runtime.head)
    /\ nextId + k - 1 <= MaxId
    /\ nextId' = nextId + k
    /\ UNCHANGED <<ledger, runtime, lock, pc, mem, plan, summarized>>

(* updateRuntime: the control state changes, the head does not.            *)
CommitRuntimeOnly(c) ==
    /\ pc[c] = "idle"
    /\ MatchingHead(mem[c].runtime.head, runtime.head)
    /\ mem[c].runtime.continuity < MaxContinuity
    /\ runtime' = PersistRuntimeState(mem[c].runtime, "continuity", runtime.head)
    /\ mem' = [mem EXCEPT ![c] = InstallCommit(mem[c], {}, runtime')]
    /\ UNCHANGED <<ledger, nextId, lock, pc, plan, summarized>>

-----------------------------------------------------------------------------
(* Compaction: prepared and summarized outside the transaction, committed  *)
(* under the expected head, recomputed once after a head race.             *)

(* Preparation reads canonical state, never the Core's own memory.         *)
Prepare(cut, attempt) ==
    [head |-> runtime.head, firstKept |-> cut,
     prev |-> IF Latest(ledger) = {} THEN 0 ELSE (CHOOSE c \in Latest(ledger) : TRUE).id,
     continuity |-> runtime.continuity + 1,
     input |-> EntriesToSummarize(Active(ledger), cut),
     tail |-> KeptTail(Active(ledger), cut),
     attempt |-> attempt]

BeginCompaction(c, cut) ==
    /\ pc[c] = "idle"
    /\ cut \in CutPoints(Active(ledger))
    /\ runtime.continuity < MaxContinuity
    /\ plan' = [plan EXCEPT ![c] = Prepare(cut, 1)]
    /\ pc' = [pc EXCEPT ![c] = "compacting"]
    /\ UNCHANGED <<ledger, nextId, runtime, lock, mem, summarized>>

(* Hook cancel, shutdown abort, summarizer failure, invalid candidate or a *)
(* commit error that rolled the transaction back (k = 1).                  *)
AbandonCompaction(c, k) ==
    /\ pc[c] = "compacting"
    /\ nextId + k - 1 <= MaxId
    /\ nextId' = nextId + k
    /\ plan' = [plan EXCEPT ![c] = NoPlan]
    /\ pc' = [pc EXCEPT ![c] = "idle"]
    /\ UNCHANGED <<ledger, runtime, lock, mem, summarized>>

(* The transaction of appendCompaction.                                    *)
AppendCompaction(c) ==
    /\ MatchingHead(plan[c].head, runtime.head)
    /\ nextId <= MaxId
    /\ ledger' = ledger \cup {CompactionEntry(plan[c], nextId)}
    /\ nextId' = nextId + 1
    /\ runtime' = [runtime EXCEPT !.head = nextId, !.continuity = plan[c].continuity]
    /\ summarized' = summarized \cup plan[c].input

(* Seeded fault: the candidate's continuity is not installed.              *)
CandidateWithoutContinuity(c) ==
    /\ pc[c] = "compacting"
    /\ AppendCompaction(c)
    /\ mem' = [mem EXCEPT ![c] =
          [runtime |-> [mem[c].runtime EXCEPT !.head = nextId],
           view |-> [summary |-> {nextId}, messages |-> plan[c].tail]]]
    /\ plan' = [plan EXCEPT ![c] = NoPlan]
    /\ pc' = [pc EXCEPT ![c] = "reloading"]
    /\ UNCHANGED lock

CommitCompaction(c) ==
    /\ pc[c] = "compacting"
    /\ AppendCompaction(c)
    /\ mem' = [mem EXCEPT ![c] =
          [runtime |-> runtime', view |-> [summary |-> {nextId}, messages |-> plan[c].tail]]]
    /\ plan' = [plan EXCEPT ![c] = NoPlan]
    /\ pc' = [pc EXCEPT ![c] = "reloading"]
    /\ UNCHANGED lock

CompactionUnacknowledged(c) ==
    /\ AckMayBeLost
    /\ pc[c] = "compacting"
    /\ AppendCompaction(c)
    /\ plan' = [plan EXCEPT ![c] = NoPlan]
    /\ pc' = [pc EXCEPT ![c] = "idle"]
    /\ UNCHANGED <<lock, mem>>

(* A head race drops the candidate; the first one is recomputed.           *)
RecomputeCompaction(c, cut) ==
    /\ pc[c] = "compacting" /\ plan[c].attempt = 1
    /\ ~MatchingHead(plan[c].head, runtime.head)
    /\ cut \in CutPoints(Active(ledger))
    /\ runtime.continuity < MaxContinuity
    /\ plan' = [plan EXCEPT ![c] = Prepare(cut, 2)]
    /\ UNCHANGED <<ledger, nextId, runtime, lock, pc, mem, summarized>>

(* After a committed compaction the projection is reloaded from canonical; *)
(* when that read fails the committed candidate stays installed.           *)
FinishReload(c, readable) ==
    /\ pc[c] = "reloading"
    /\ mem' = IF readable
               THEN [mem EXCEPT ![c] = [runtime |-> runtime, view |-> Project(ledger)]]
               ELSE mem
    /\ pc' = [pc EXCEPT ![c] = "idle"]
    /\ UNCHANGED <<ledger, nextId, runtime, lock, plan, summarized>>

-----------------------------------------------------------------------------
CommitStep(c) ==
    \/ \E b \in Batches, kind \in PatchKinds :
          CommitMessages(c, b, kind) \/ CommitUnacknowledged(c, b, kind)
    \/ \E b \in Batches : \E k \in 1..Len(b) : RollBack(c, k)
    \/ CommitRuntimeOnly(c)

CompactionStep(c) ==
    \/ \E cut \in 0..MaxId : BeginCompaction(c, cut) \/ RecomputeCompaction(c, cut)
    \/ \E k \in {0, 1} : AbandonCompaction(c, k)
    \/ CommitCompaction(c) \/ CompactionUnacknowledged(c)
    \/ \E readable \in BOOLEAN : FinishReload(c, readable)

Next ==
    \E c \in Cores :
        \/ AcquireLock(c) \/ Load(c) \/ Crash(c) \/ DropLock(c)
        \/ CommitStep(c) \/ CompactionStep(c)

Spec == Init /\ [][Next]_vars

-----------------------------------------------------------------------------
(* Properties.                                                             *)

View == [summary : SUBSET Ids, messages : SUBSET Entry]
Plan == [head : 0..MaxId, firstKept : 0..MaxId, prev : 0..MaxId,
         continuity : 0..MaxContinuity, input : SUBSET Ids,
         tail : SUBSET Entry, attempt : 0..2]

(* Every variable holds a value of its kind.                               *)
TypeOK ==
    /\ ledger \subseteq Entry
    /\ nextId \in 1..(MaxId + 1)
    /\ runtime \in RuntimeState
    /\ lock \in Cores \cup {NoCore}
    /\ pc \in [Cores -> {"down", "starting", "idle", "compacting", "reloading"}]
    /\ mem \in [Cores -> [runtime : RuntimeState, view : View]]
    /\ plan \in [Cores -> Plan]
    /\ summarized \subseteq Ids

(* The parts of the inductive invariant that are not properties in their   *)
(* own right.  Ids are unique, below the sequence and ordered by commit.   *)
IdsOrdered ==
    /\ runtime.head < nextId
    /\ \A e \in ledger : e.id <= runtime.head
    /\ \A e, f \in ledger : e.id = f.id => e = f
    /\ ledger = {} => runtime.head = 0 /\ runtime.cursor = 0
    /\ ledger # {} => \E e \in ledger : e.id = runtime.head

(* Among compaction entries one is the latest.                             *)
LatestExists == Compactions(ledger) # {} => Latest(ledger) # {}

(* Between a call and its result lie only results of the same call.        *)
GroupsContiguous ==
    \A t \in ledger : t.role = "tool" =>
        /\ t.call < t.id
        /\ \E a \in ledger : a.id = t.call /\ a.role = "assistant"
        /\ \A e \in ledger : t.call < e.id /\ e.id <= t.id => e.role = "tool"

(* Every compaction entry, not only the latest, has a legal boundary.      *)
BoundariesLegal ==
    \A c \in Compactions(ledger) : c.firstKept # 0 =>
        \E m \in Messages(ledger) :
            m.id = c.firstKept /\ m.role # "tool" /\ m.id < c.id

(* No Core is ahead of the ledger, and a candidate is what Prepare would    *)
(* compute from the prefix it was prepared at.                              *)
CoresBehind == \A c \in Cores : mem[c].runtime.head <= runtime.head

CandidateSound(c) ==
    LET p == plan[c]
        L == Prefix(ledger, p.head)
    IN  /\ mem[c].runtime.head <= p.head /\ p.head <= runtime.head
        /\ p.firstKept # 0 =>
              \E m \in Active(L) : m.id = p.firstKept /\ m.role # "tool"
        /\ IF Latest(L) = {} THEN p.prev = 0 ELSE \E d \in Latest(L) : p.prev = d.id
        /\ p.input = EntriesToSummarize(Active(L), p.firstKept)
        /\ p.tail = KeptTail(Active(L), p.firstKept)
        /\ L # {}
CandidatesSound == \A c \in Cores : pc[c] = "compacting" => CandidateSound(c)

(* What a Core shows the model is always the projection of the ledger up to *)
(* the head that Core expects: the incremental installs of daily commits,   *)
(* the candidate installed by a compaction and a full reload all agree,     *)
(* whatever other Cores, crashes and lost acknowledgements did meanwhile.   *)
ViewIsPrefixProjection ==
    \A c \in Cores : mem[c].view = Project(Prefix(ledger, mem[c].runtime.head))

(* A Core whose expected head is the stored head (the only kind that can    *)
(* commit messages) also holds the stored mailbox cursors.                  *)
FreshHeadMeansFreshCursors ==
    \A c \in Cores :
        mem[c].runtime.head = runtime.head => mem[c].runtime.cursor = runtime.cursor

(* Whatever was committed, the next start can load: head, chain, boundary   *)
(* and tool groups pass every check of projectAgentLedger.                  *)
AlwaysLoadable == Loadable(ledger, runtime.head)

(* No committed message leaves the projection unless it was input to the    *)
(* summary that replaced it, also when a candidate raced with an append.    *)
NothingDroppedUnsummarized ==
    \A m \in Messages(ledger) : m \in Active(ledger) \/ m.id \in summarized

(* The inductive invariant.                                                *)
IndInv ==
    /\ TypeOK
    /\ IdsOrdered
    /\ LatestExists
    /\ GroupsContiguous
    /\ ChainValid(ledger)
    /\ BoundariesLegal
    /\ CoresBehind
    /\ CandidatesSound
    /\ ViewIsPrefixProjection
    /\ FreshHeadMeansFreshCursors
    /\ NothingDroppedUnsummarized

(* With at most one live Core and no lost acknowledgement, a Core between   *)
(* two operations mirrors the stored state exactly: a failed commit left    *)
(* nothing behind in its memory that canonical state does not have.         *)
IdleCoreMirrorsLedger ==
    \A c \in Cores : pc[c] = "idle" =>
        mem[c] = [runtime |-> runtime, view |-> Project(ledger)]

(* A disclosed mailbox row is never disclosed again: the stored cursor      *)
(* never moves back, also when two Cores overlap.                           *)
CursorNeverRollsBack == [][runtime'.cursor >= runtime.cursor]_vars

(* With at most one live Core and no lost acknowledgement, no commit        *)
(* overwrites a newer mailboxContinuity (runtime-only commits do not move   *)
(* the head, so the expected head alone would not refuse it).               *)
ContinuityNeverRollsBack == [][runtime'.continuity >= runtime.continuity]_vars

(* How far a Core has read: to the head its candidate was prepared at while *)
(* it compacts, to the head it expects otherwise.                           *)
Seen == [c \in Cores |->
            IF pc[c] = "compacting" THEN plan[c].head ELSE mem[c].runtime.head]

History == INSTANCE LedgerHistory WITH
    Actors <- Cores, history <- ledger, tip <- runtime.head,
    disclosed <- runtime.cursor, seen <- Seen

(* Cores that overlap, crash, lose acknowledgements and race compactions    *)
(* with appends still build one linear history: each commit extends its end *)
(* by a whole batch and by a Core that has seen everything before.          *)
ImplementsHistory == History!Spec
=============================================================================
