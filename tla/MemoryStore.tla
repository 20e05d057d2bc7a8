----------------------------- MODULE MemoryStore -----------------------------
(***************************************************************************)
(* Long-term memory: one Markdown file of entries (agent/memory-store.ts), *)
(* the memory tool's remember, recall and correct, and the maintenance     *)
(* worker that lets a model review the file and applies its decision.      *)
(* Both write under the file's lock of workspace-state-coordinator.ts;     *)
(* files are independent of one another, so one is modelled.               *)
(*                                                                         *)
(* A fact stands for a normalized content.  A revision is the hash of the  *)
(* file, which holds the time of its last write: `version` counts writes.  *)
(***************************************************************************)
EXTENDS Integers, Sequences, SequencesExt, FiniteSets

CONSTANTS
    Facts,       \* contents an entry can have
    Negations,   \* those of them that deny something
    Sources,     \* message rows cited as evidence
    MaxEntries,  \* bound: entries ever made
    MaxForgets   \* bound: process restarts

ASSUME MemoryAssumption == Negations \subseteq Facts /\ MaxEntries \in Nat

VARIABLES
    entries, version,  \* the file
    lastEntry,         \* ids given out
    lockedBy, base,    \* holder of the file's lock and what it read
    memoryCall,        \* the memory call in progress
    ref,               \* the reference the Agent holds from its last recall
    reviewAsked,       \* the file is in pendingFiles
    review,            \* stage of the worker
    reviewed,          \* the snapshot it works on
    decision,          \* the operations the model asked for
    acknowledged, discarded, unseen, \* history: ids the Agent was told of, entries
                       \* discarded with what the review saw, entries no inspection saw
    forgets

memoryVars == <<entries, version, lastEntry, lockedBy, base, memoryCall, ref, reviewAsked, review,
                reviewed, decision, acknowledged, discarded, unseen, forgets>>
file == <<entries, version, lastEntry>>
worker == <<reviewAsked, review, reviewed, decision>>

MemoryEntry == [id : 1..MaxEntries, fact : Facts, tier : {"recent", "stable"},
          status : {"active", "disputed", "superseded"}, sources : SUBSET Sources,
          supersedes : SUBSET (1..MaxEntries)]
File == [entries : Seq(MemoryEntry), version : Nat]
TheFile == [entries |-> entries, version |-> version]
EmptyFile == [entries |-> <<>>, version |-> 0]
EntryIds(es) == {es[k].id : k \in 1..Len(es)}
EntryOf(es, i) == es[CHOOSE k \in 1..Len(es) : es[k].id = i]
NoMemoryCall == [kind |-> "none"]
NoRef == [id |-> 0, version |-> 0]

MemoryInit ==
    /\ entries = <<>> /\ version = 0 /\ lastEntry = 0
    /\ lockedBy = "none" /\ base = EmptyFile
    /\ memoryCall = NoMemoryCall /\ ref = NoRef
    /\ reviewAsked = FALSE /\ review = "idle" /\ reviewed = EmptyFile /\ decision = {}
    /\ acknowledged = {} /\ discarded = {} /\ unseen = {} /\ forgets = 0

-----------------------------------------------------------------------------
(* The memory tool.                                                        *)

(* recallMemoryEntries hands out any entry that is not superseded.         *)
Recall(i) ==
    /\ memoryCall = NoMemoryCall
    /\ i \in EntryIds(entries) /\ EntryOf(entries, i).status # "superseded"
    /\ ref' = [id |-> i, version |-> version]
    /\ UNCHANGED <<file, lockedBy, base, memoryCall, worker, acknowledged, discarded, unseen, forgets>>

AskMemory(kind, fact, source) ==
    /\ memoryCall = NoMemoryCall /\ lastEntry < MaxEntries
    /\ kind = "correct" => ref # NoRef
    /\ memoryCall' = [kind |-> kind, fact |-> fact, source |-> source]
    /\ UNCHANGED <<file, lockedBy, base, ref, worker, acknowledged, discarded, unseen, forgets>>

(* withWrite: one task at a time for a file.                               *)
LockFree == lockedBy = "none"

(* The file is read under the lock.                                        *)
ReadLocked(who) ==
    /\ LockFree
    /\ lockedBy' = who
    /\ base' = TheFile
    /\ UNCHANGED <<file, memoryCall, ref, worker, acknowledged, discarded, unseen, forgets>>
AgentLocks == memoryCall # NoMemoryCall /\ lockedBy # "agent" /\ ReadLocked("agent")
ReviewLocks == review = "decided" /\ lockedBy # "review" /\ ReadLocked("review")

Store(es) == entries' = es /\ version' = version + 1
Unlock == lockedBy' = "none" /\ base' = EmptyFile

NewEntry(fact, tier, sources, supersedes) ==
    [id |-> lastEntry + 1, fact |-> fact, tier |-> tier, status |-> "active",
     sources |-> sources, supersedes |-> supersedes]
WithStatus(e, status) == [e EXCEPT !.status = status]

(* Seeded fault: a file under review is not queued again.                  *)
AskReviewOnce == reviewAsked' = (reviewAsked \/ review = "idle")
(* enqueue: the file waits for another review also while one runs.         *)
AskReview == reviewAsked' = TRUE

(* The tool call ends; a new entry asks for a review of its file.  A        *)
(* reference used again would name a revision that is gone, or recall it    *)
(* anew.                                                                   *)
Acknowledge(created) ==
    /\ lastEntry' = lastEntry + Cardinality(created)
    /\ acknowledged' = acknowledged \cup created
    /\ memoryCall' = NoMemoryCall /\ ref' = NoRef
    /\ Unlock
    /\ UNCHANGED <<review, reviewed, decision, discarded, forgets>>

(* writeMemoryEntry: a fact the file has, in whatever status, only gets    *)
(* its evidence completed; else a recent entry is added.  The file lists   *)
(* stable entries first; that order only decides which of several entries  *)
(* of the fact is completed, so any of them may be here.                   *)
Remember ==
    /\ lockedBy = "agent" /\ memoryCall.kind = "remember"
    /\ LET es == base.entries
           same == {k \in 1..Len(es) : es[k].fact = memoryCall.fact}
           entry == NewEntry(memoryCall.fact, "recent", {memoryCall.source}, {})
       IN  IF same # {}
           THEN /\ Acknowledge({})
                /\ UNCHANGED <<reviewAsked, unseen>>
                /\ \E k \in same :
                      IF memoryCall.source \in es[k].sources
                      THEN UNCHANGED <<entries, version>>
                      ELSE Store([es EXCEPT ![k].sources = @ \cup {memoryCall.source}])
           ELSE /\ Acknowledge({entry.id})
                /\ Store(Append(es, entry))
                /\ AskReview
                /\ unseen' = unseen \cup {entry.id}

(* correctMemoryEntry: the entry of the reference, in the file it was      *)
(* recalled from, is superseded by a new one right behind it.              *)
Correct ==
    /\ lockedBy = "agent" /\ memoryCall.kind = "correct"
    /\ base.version = ref.version
    /\ LET es == base.entries
           at == CHOOSE k \in 1..Len(es) : es[k].id = ref.id
           entry == NewEntry(memoryCall.fact, "recent", {memoryCall.source}, {ref.id})
       IN  /\ es[at].status # "superseded"
           /\ Store(InsertAt([es EXCEPT ![at] = WithStatus(@, "superseded")], at + 1, entry))
           /\ Acknowledge({entry.id})
    /\ UNCHANGED <<reviewAsked, unseen>>

(* revision_conflict: another write came first.  Invalid evidence and      *)
(* failed writes end a call the same way.                                  *)
MemoryCallFails ==
    /\ memoryCall # NoMemoryCall /\ lockedBy = "agent"
    /\ Acknowledge({})
    /\ UNCHANGED <<entries, version, reviewAsked, unseen>>

-----------------------------------------------------------------------------
(* The maintenance worker.                                                 *)

StartReview ==
    /\ review = "idle" /\ reviewAsked
    /\ reviewAsked' = FALSE
    /\ review' = "started"
    /\ UNCHANGED <<file, lockedBy, base, memoryCall, ref, reviewed, decision, acknowledged, discarded,
                   unseen, forgets>>

(* inspectMemoryFileForMaintenance reads without the lock; below every     *)
(* threshold the review ends here.                                         *)
Inspect(due) ==
    /\ review = "started"
    /\ review' = IF due THEN "inspected" ELSE "idle"
    /\ reviewed' = IF due THEN TheFile ELSE EmptyFile
    /\ unseen' = {}
    /\ UNCHANGED <<file, lockedBy, base, memoryCall, ref, reviewAsked, decision, acknowledged,
                   discarded, forgets>>

ReviewEnds ==
    /\ review' = "idle" /\ reviewed' = EmptyFile /\ decision' = {}
    /\ UNCHANGED <<memoryCall, ref, acknowledged, unseen, forgets>>

(* The reviewer skips, times out, or answers twice without a decision the  *)
(* schema and the validation accept.                                       *)
ReviewFails ==
    /\ review = "inspected"
    /\ ReviewEnds
    /\ UNCHANGED <<file, lockedBy, base, reviewAsked, discarded>>

(* An operation and the entries it may select.                             *)
Operation == [action : {"promote", "discard", "mark_disputed", "merge"}, ids : SUBSET (1..MaxEntries)]
Valid(op, es) ==
    /\ op.ids \subseteq EntryIds(es)
    /\ LET selected == {EntryOf(es, i) : i \in op.ids}
       IN  CASE op.action \in {"promote", "discard"} ->
                  /\ Cardinality(op.ids) = 1
                  /\ \A e \in selected :
                        /\ e.tier = "recent" /\ e.status = "active"
                        /\ op.action = "promote" => Cardinality(e.sources) >= 2
             [] op.action = "mark_disputed" ->
                  Cardinality(op.ids) >= 2 /\ \A e \in selected : e.status # "superseded"
             [] OTHER ->
                  /\ Cardinality(op.ids) >= 2
                  /\ \A e \in selected : e.status = "active"
                  /\ \E e \in selected : e.tier = "recent"

Decide(ops) ==
    /\ review = "inspected"
    /\ ops # {} /\ \A op \in ops : Valid(op, reviewed.entries)
    /\ \A op1, op2 \in ops : op1 # op2 => op1.ids \cap op2.ids = {}
    /\ review' = "decided" /\ decision' = ops
    /\ UNCHANGED <<file, lockedBy, base, memoryCall, ref, reviewAsked, reviewed, acknowledged,
                   discarded, unseen, forgets>>

(* hasObviousContradiction: a denial among the facts to be merged.         *)
Contradictory(op, es) ==
    LET facts == {EntryOf(es, i).fact : i \in op.ids}
    IN  facts \cap Negations # {} /\ facts \ Negations # {}

(* What becomes of an entry: nothing, itself changed, or a merged entry    *)
(* before itself superseded.                                               *)
Fate(e, ops, es, fact) ==
    IF \A op \in ops : e.id \notin op.ids THEN <<e>>
    ELSE LET op == CHOOSE o \in ops : e.id \in o.ids
             merged == NewEntry(fact, "stable", UNION {EntryOf(es, i).sources : i \in op.ids}, op.ids)
             first == CHOOSE i \in op.ids : \A j \in op.ids : i <= j
         IN  CASE op.action = "discard" -> <<>>
               [] op.action = "promote" -> <<[e EXCEPT !.tier = "stable"]>>
               [] op.action = "mark_disputed" -> <<WithStatus(e, "disputed")>>
               [] op.action = "merge" ->
                     IF Contradictory(op, es) THEN <<WithStatus(e, "disputed")>>
                     ELSE IF e.id = first THEN <<merged, WithStatus(e, "superseded")>>
                     ELSE <<WithStatus(e, "superseded")>>

Merges(ops, es) == {op \in ops : op.action = "merge" /\ ~Contradictory(op, es)}

(* Seeded fault: the decision is applied to whatever the file is now.      *)
AnyRevision == TRUE
SameRevision == base.version = reviewed.version

ApplyDecision(fact) ==
    LET es == base.entries
        next == FlattenSeq([k \in 1..Len(es) |-> Fate(es[k], decision, es, fact)])
        lost == UNION {op.ids : op \in {o \in decision : o.action = "discard"}}
    IN  /\ lockedBy = "review" /\ SameRevision
        /\ Cardinality(Merges(decision, es)) <= 1 /\ lastEntry < MaxEntries
        /\ next # <<>>
        /\ Store(next)
        /\ lastEntry' = lastEntry + Cardinality(Merges(decision, es))
        /\ discarded' = discarded \cup
              {[entry |-> EntryOf(es, i), seen |-> EntryOf(reviewed.entries, i)] : i \in lost}
        /\ Unlock /\ ReviewEnds
        /\ UNCHANGED reviewAsked

(* revision_conflict queues the file again; a decision that would empty    *)
(* the file, and a failed write, are given up.                             *)
ApplyFails ==
    /\ lockedBy = "review"
    /\ reviewAsked' = (reviewAsked \/ base.version # reviewed.version)
    /\ Unlock /\ ReviewEnds
    /\ UNCHANGED <<file, discarded>>

(* The process restarts; the queue of reviews is not kept.                 *)
ForgetReviews ==
    /\ forgets < MaxForgets
    /\ forgets' = forgets + 1
    /\ memoryCall' = NoMemoryCall /\ Unlock
    /\ reviewAsked' = FALSE /\ review' = "idle" /\ reviewed' = EmptyFile /\ decision' = {}
    /\ unseen' = {}
    /\ UNCHANGED <<file, ref, acknowledged, discarded>>

MemoryNext ==
    \/ \E i \in 1..MaxEntries : Recall(i)
    \/ \E kind \in {"remember", "correct"}, fact \in Facts, source \in Sources :
          AskMemory(kind, fact, source)
    \/ AgentLocks
    \/ Remember
    \/ Correct
    \/ MemoryCallFails
    \/ StartReview
    \/ \E due \in BOOLEAN : Inspect(due)
    \/ ReviewFails
    \/ \E ops \in {ops \in SUBSET {op \in Operation : Valid(op, reviewed.entries)} :
                     Cardinality(ops) <= 2} : Decide(ops)
    \/ ReviewLocks
    \/ \E fact \in Facts : ApplyDecision(fact)
    \/ ApplyFails
    \/ ForgetReviews

MemorySpec == MemoryInit /\ [][MemoryNext]_memoryVars

(* The worker's lane runs, a model call ends or times out, and whoever     *)
(* holds the lock finishes its write.                                      *)
ReviewWorks ==
    StartReview \/ (\E due \in BOOLEAN : Inspect(due)) \/ ReviewFails \/ ReviewLocks \/ ApplyFails
AgentWrites == AgentLocks \/ Remember \/ Correct \/ MemoryCallFails

-----------------------------------------------------------------------------
(* Properties.                                                             *)

(* Two writers and a model that decides on what it read a while ago lose   *)
(* nothing: what the Agent was told is stored stays in the file unless a   *)
(* review discarded exactly what it had seen, and a superseded entry has a *)
(* successor, kept or discarded that way.                                  *)
RememberedIsKept ==
    /\ acknowledged \subseteq EntryIds(entries) \cup {d.entry.id : d \in discarded}
    /\ \A d \in discarded : d.entry = d.seen
    /\ \A k \in 1..Len(entries) : entries[k].status = "superseded" =>
          \E e \in ToSet(entries) \cup {d.entry : d \in discarded} : entries[k].id \in e.supersedes
    /\ Cardinality(EntryIds(entries)) = Len(entries)

(* docs/TOOLS.md:91: after every new entry maintenance looks at its file,  *)
(* also when the entry came while that file was being reviewed.            *)
EveryEntryIsInspected == unseen # {} ~> unseen = {}
=============================================================================
