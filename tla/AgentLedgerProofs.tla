------------------------- MODULE AgentLedgerProofs -------------------------
(***************************************************************************)
(* Proofs about AgentLedger for any set of Cores, any batches and bounds.  *)
(* The inductive invariant is IndInv; a step is first reduced to what it    *)
(* does to the ledger (append a batch, append a candidate, or nothing) and  *)
(* then to what it does to one Core (CoreSound).                           *)
(***************************************************************************)
EXTENDS AgentLedger, TLAPS

-----------------------------------------------------------------------------
(* A step does one thing to the ledger: it appends a batch of messages, it  *)
(* appends a compaction entry, or it leaves ledger and head alone.          *)

(* The rows a commit inserts are entries with consecutive ids.              *)
LEMMA NewEntriesFacts ==
    ASSUME NEW b \in Batches, NEW first \in Nat \ {0}, first + Len(b) - 1 <= MaxId
    PROVE  /\ Len(b) \in Nat \ {0}
           /\ NewEntries(b, first) \subseteq Entry
           /\ \A e \in NewEntries(b, first) :
                 /\ e.role # "compaction"
                 /\ e.id >= first /\ e.id <= first + Len(b) - 1
           /\ MessageEntry(b, first, Len(b)) \in NewEntries(b, first)
           /\ MessageEntry(b, first, Len(b)).id = first + Len(b) - 1
<1> DEFINE Msg == [role : Roles, answers : Nat]
<1>0. /\ b \in Seq(Msg)
      /\ Len(b) > 0
      /\ \A i \in 1..Len(b) : b[i].role = "tool" => b[i].answers \in 1..(i - 1)
  BY Zenon, BatchAssumption
<1>1. Len(b) \in Nat /\ Len(b) > 0
  <2> HIDE DEF Msg
  <2> QED  BY <1>0
<1>2. ASSUME NEW i \in 1..Len(b)
      PROVE  /\ b[i].role \in Roles /\ b[i].answers \in Nat
             /\ b[i].role = "tool" => b[i].answers \in 1..(i - 1)
  <2>1. b[i] \in Msg
    <3> HIDE DEF Msg
    <3> QED  BY <1>0
  <2> QED  BY <1>0, <2>1
<1>3. ASSUME NEW i \in 1..Len(b)
      PROVE  /\ MessageEntry(b, first, i) \in Entry
             /\ MessageEntry(b, first, i).role \in Roles
             /\ MessageEntry(b, first, i).id = first + i - 1
  <2>1. /\ b[i].role \in Roles /\ b[i].answers \in Nat
        /\ b[i].role = "tool" => b[i].answers \in 1..(i - 1)
    BY <1>2
  <2>2. first + i - 1 \in Ids
    BY <1>1, BoundAssumption DEF Ids
  <2>3. (IF b[i].role = "tool" THEN first + b[i].answers - 1 ELSE 0) \in 0..MaxId
    BY <1>1, <2>1, BoundAssumption
  <2> QED
    BY <2>1, <2>2, <2>3, BoundAssumption DEF MessageEntry, Entry
<1>4. \A e \in NewEntries(b, first) : \E i \in 1..Len(b) : e = MessageEntry(b, first, i)
  BY DEF NewEntries
<1>5. "compaction" \notin Roles
  BY DEF Roles
<1>6. NewEntries(b, first) \subseteq Entry
  BY <1>3, <1>4
<1>7. ASSUME NEW e \in NewEntries(b, first)
      PROVE  e.role # "compaction" /\ e.id >= first /\ e.id <= first + Len(b) - 1
  <2>1. PICK i \in 1..Len(b) : e = MessageEntry(b, first, i)
    BY <1>4
  <2> QED
    BY <1>1, <1>3, <1>5, <2>1
<1>8. Len(b) \in 1..Len(b)
  BY <1>1
<1> QED
  BY <1>1, <1>3, <1>6, <1>7, <1>8 DEF NewEntries

-----------------------------------------------------------------------------
(* The projection of a ledger and of what is appended to it.               *)

(* Entries past h do not change the prefix up to h.                        *)
LEMMA PrefixStable ==
    ASSUME NEW L, NEW new, NEW h, \A e \in new : ~(e.id <= h)
    PROVE  Prefix(L \cup new, h) = Prefix(L, h)
BY DEF Prefix

(* The prefix up to an upper bound of the ids is the whole ledger.         *)
LEMMA PrefixWhole ==
    ASSUME NEW L, NEW h, \A e \in L : e.id <= h
    PROVE  Prefix(L, h) = L
BY DEF Prefix

(* There is nothing before the first id.                                   *)
LEMMA PrefixNone ==
    ASSUME NEW L, L \subseteq Entry
    PROVE  Prefix(L, 0) = {}
<1>1. \A e \in L : e.id \in Ids
  BY DEF Entry
<1> QED
  BY <1>1, BoundAssumption DEF Prefix, Ids

(* The empty ledger projects to the empty context.                         *)
LEMMA EmptyProject == Project({}) = EmptyMemory.view
BY DEF Project, Active, Latest, Compactions, Messages, EmptyMemory

(* One latest compaction is shown as one summary.                          *)
LEMMA LatestProject ==
    ASSUME NEW L, NEW e, Latest(L) = {e}
    PROVE  Project(L) = [summary |-> {e.id}, messages |-> Active(L)]
<1>1. {c.id : c \in Latest(L)} = {e.id}
  OBVIOUS
<1> QED
  BY <1>1 DEF Project

(* Appended messages leave the latest compaction in place and are active:   *)
(* installing them incrementally is what a full projection would do.       *)
LEMMA AppendProject ==
    ASSUME NEW L, NEW new, NEW h \in Nat,
           L \subseteq Entry, new \subseteq Entry,
           \A e \in L : e.id <= h,
           \A e \in new : e.role # "compaction" /\ e.id > h
    PROVE  /\ Compactions(L \cup new) = Compactions(L)
           /\ Messages(L \cup new) = Messages(L) \cup new
           /\ Latest(L \cup new) = Latest(L)
           /\ Active(L \cup new) = Active(L) \cup new
<1>1. Compactions(L \cup new) = Compactions(L)
  BY DEF Compactions
<1>2. Messages(L \cup new) = Messages(L) \cup new
  BY DEF Messages
<1>3. Latest(L \cup new) = Latest(L)
  BY <1>1 DEF Latest
<1>4. ASSUME NEW m \in new, NEW c \in Latest(L)
      PROVE  Kept(m, c)
  <2>1. c \in L
    BY DEF Latest, Compactions
  <2>2. m.id \in Nat /\ c.id \in Nat
    BY <2>1, BoundAssumption DEF Entry, Ids
  <2> QED
    BY <2>1, <2>2 DEF Kept
<1> QED
  BY <1>1, <1>2, <1>3, <1>4 DEF Active

(* A kept message keeps every later message.                               *)
LEMMA ActiveUpwardClosed ==
    ASSUME NEW L, L \subseteq Entry, NEW m \in Active(L), NEW x \in Messages(L), m.id <= x.id
    PROVE  x \in Active(L)
<1> SUFFICES ASSUME NEW c \in Latest(L)
             PROVE  Kept(x, c)
  BY DEF Active
<1>1. m \in L /\ x \in L /\ c \in L
  BY DEF Active, Messages, Latest, Compactions
<1>2. m.id \in Nat /\ x.id \in Nat /\ c.id \in Nat /\ c.firstKept \in Nat
  BY <1>1, BoundAssumption DEF Entry, Ids
<1>3. Kept(m, c)
  BY DEF Active
<1> QED
  BY <1>2, <1>3 DEF Kept

(* A compaction entry with the highest id is the latest one, and what stays *)
(* active is the tail its candidate kept.                                  *)
LEMMA CompactProject ==
    ASSUME NEW L, NEW e \in Entry, L \subseteq Entry,
           e.role = "compaction",
           \A d \in L : d.id < e.id,
           e.firstKept # 0 => \E m \in Active(L) : m.id = e.firstKept
    PROVE  /\ Compactions(L \cup {e}) = Compactions(L) \cup {e}
           /\ Messages(L \cup {e}) = Messages(L)
           /\ Latest(L \cup {e}) = {e}
           /\ Active(L \cup {e}) = KeptTail(Active(L), e.firstKept)
<1>0. \A d \in L : d.id \in Nat /\ d.firstKept \in Nat
  BY BoundAssumption DEF Entry, Ids
<1>e. e.id \in Nat /\ e.firstKept \in Nat
  BY BoundAssumption DEF Entry, Ids
<1>1. Compactions(L \cup {e}) = Compactions(L) \cup {e}
  BY DEF Compactions
<1>2. Messages(L \cup {e}) = Messages(L)
  BY DEF Messages
<1>3. Latest(L \cup {e}) = {e}
  <2>1. \A d \in Compactions(L) : d.id < e.id /\ d.id \in Nat
    BY <1>0 DEF Compactions
  <2> DEFINE K == Compactions(L \cup {e})
  <2>a. \A d \in K : d.id <= e.id
    BY <1>1, <1>e, <2>1
  <2>b. e \in K
    BY <1>1
  <2>c. Latest(L \cup {e}) = {c \in K : \A d \in K : d.id <= c.id}
    BY DEF Latest
  <2>2. e \in Latest(L \cup {e})
    <3> HIDE DEF K
    <3> QED  BY <2>a, <2>b, <2>c
  <2>3. ASSUME NEW d \in Latest(L \cup {e})
        PROVE  d = e
    <3>1. d \in Compactions(L) \cup {e} /\ e.id <= d.id
      BY <1>1 DEF Latest
    <3> QED
      BY <1>e, <2>1, <3>1
  <2> QED
    BY <2>2, <2>3
<1>4. Active(L \cup {e}) = {m \in Messages(L) : Kept(m, e)}
  BY <1>2, <1>3 DEF Active
<1>5. ASSUME NEW m \in Messages(L)
      PROVE  Kept(m, e) <=> m \in KeptTail(Active(L), e.firstKept)
  <2>1. m \in L /\ m.id < e.id /\ m.id \in Nat
    BY <1>0 DEF Messages
  <2>2. Kept(m, e) <=> e.firstKept # 0 /\ m.id >= e.firstKept
    BY <1>e, <2>1 DEF Kept
  <2>3. ASSUME e.firstKept # 0, m.id >= e.firstKept
        PROVE  m \in Active(L)
    <3>1. PICK k \in Active(L) : k.id = e.firstKept
      BY <2>3
    <3>2. k.id <= m.id
      BY <1>e, <2>1, <2>3, <3>1
    <3> QED
      BY <3>2, ActiveUpwardClosed
  <2> QED
    BY <2>2, <2>3 DEF KeptTail
<1>6. KeptTail(Active(L), e.firstKept) \subseteq Messages(L)
  BY DEF KeptTail, Active
<1> QED
  BY <1>1, <1>2, <1>3, <1>4, <1>5, <1>6

-----------------------------------------------------------------------------
(* Type correctness.                                                       *)

LEMMA EmptyTyped ==
    /\ EmptyMemory \in [runtime : RuntimeState, view : View]
    /\ NoPlan \in Plan
BY BoundAssumption DEF EmptyMemory, NoPlan, RuntimeState, View, Plan, Ids

(* What a projection holds, and what a candidate is made of.               *)
LEMMA ProjectTyped ==
    ASSUME NEW L, L \subseteq Entry
    PROVE  Project(L) \in View
<1>1. Active(L) \subseteq Entry
  BY DEF Active, Messages
<1>2. {c.id : c \in Latest(L)} \subseteq Ids
  BY DEF Latest, Compactions, Entry
<1> QED
  BY <1>1, <1>2 DEF Project, View

(* A prepared compaction is a plan.                                         *)
LEMMA PrepareTyped ==
    ASSUME TypeOK, NEW cut \in 0..MaxId, NEW attempt \in 0..2,
           runtime.continuity < MaxContinuity
    PROVE  Prepare(cut, attempt) \in Plan
<1>1. ledger \subseteq Entry /\ runtime \in RuntimeState
  BY DEF TypeOK
<1>2. Active(ledger) \subseteq Entry /\ Latest(ledger) \subseteq Entry
  BY <1>1 DEF Active, Messages, Latest, Compactions
<1>3. KeptTail(Active(ledger), cut) \subseteq Entry
  BY <1>2 DEF KeptTail
<1>4. EntriesToSummarize(Active(ledger), cut) \subseteq Ids
  BY <1>2 DEF EntriesToSummarize, Entry
<1>5. (IF Latest(ledger) = {} THEN 0 ELSE (CHOOSE c \in Latest(ledger) : TRUE).id) \in 0..MaxId
  <2>1. CASE Latest(ledger) = {}
    BY <2>1, BoundAssumption
  <2>2. CASE Latest(ledger) # {}
    <3>1. (CHOOSE c \in Latest(ledger) : TRUE) \in Entry
      BY <1>2, <2>2
    <3> QED
      BY <2>2, <3>1, BoundAssumption DEF Entry, Ids
  <2> QED
    BY <2>1, <2>2
<1>6. runtime.continuity + 1 \in 0..MaxContinuity /\ runtime.head \in 0..MaxId
  BY <1>1, BoundAssumption DEF RuntimeState
<1> QED
  BY <1>3, <1>4, <1>5, <1>6 DEF Prepare, Plan

(* The row a commit writes is a row of the singleton.                      *)
LEMMA PersistTyped ==
    ASSUME TypeOK, NEW m \in RuntimeState, NEW kind \in PatchKinds, NEW h \in 0..MaxId,
           kind = "none" \/ m.continuity < MaxContinuity
    PROVE  /\ PersistRuntimeState(m, kind, h) \in RuntimeState
           /\ PersistRuntimeState(m, kind, h).head = h
BY BoundAssumption DEF TypeOK, PersistRuntimeState, RuntimeState, PatchKinds

(* What the transaction of a message commit does to the stored state.      *)
LEMMA AppendStep ==
    ASSUME TypeOK, runtime.head < nextId,
           NEW c \in Cores, NEW b \in Batches, NEW kind \in PatchKinds,
           AppendMessages(c, b, kind)
    PROVE  /\ mem[c].runtime.head = runtime.head
           /\ NewEntries(b, nextId) \subseteq Entry
           /\ \A e \in NewEntries(b, nextId) :
                 e.role # "compaction" /\ e.id > runtime.head /\ e.id <= runtime'.head
           /\ \E e \in NewEntries(b, nextId) : e.id = runtime'.head
           /\ ledger' = ledger \cup NewEntries(b, nextId)
           /\ nextId' \in 1..(MaxId + 1)
           /\ runtime' \in RuntimeState
           /\ runtime'.head > runtime.head
           /\ runtime'.head < nextId'
<1>1. /\ nextId \in Nat \ {0}
      /\ nextId + Len(b) - 1 <= MaxId
      /\ runtime \in RuntimeState
      /\ mem[c].runtime \in RuntimeState
      /\ mem[c].runtime.head = runtime.head
  BY BoundAssumption DEF TypeOK, AppendMessages, MatchingHead
<1>2. /\ Len(b) \in Nat \ {0}
      /\ NewEntries(b, nextId) \subseteq Entry
      /\ \A e \in NewEntries(b, nextId) :
            e.role # "compaction" /\ e.id >= nextId /\ e.id <= nextId + Len(b) - 1
      /\ \E e \in NewEntries(b, nextId) : e.id = nextId + Len(b) - 1
  BY <1>1, NewEntriesFacts
<1> DEFINE h == nextId + Len(b) - 1
<1>3. h \in 0..MaxId /\ h > runtime.head /\ nextId + Len(b) \in 1..(MaxId + 1)
  BY <1>1, <1>2, BoundAssumption DEF RuntimeState
<1>4. /\ ledger' = ledger \cup NewEntries(b, nextId)
      /\ nextId' = nextId + Len(b)
      /\ runtime' = PersistRuntimeState(mem[c].runtime, kind, h)
      /\ kind = "none" \/ mem[c].runtime.continuity < MaxContinuity
  BY DEF AppendMessages
<1>5. runtime' \in RuntimeState /\ runtime'.head = h
  BY <1>1, <1>3, <1>4, PersistTyped
<1>6. \A e \in NewEntries(b, nextId) : e.id \in Nat
  BY <1>2, BoundAssumption DEF Entry, Ids
<1>7. runtime.head \in Nat
  BY <1>1, BoundAssumption DEF RuntimeState
<1> HIDE DEF h
<1>8. h = nextId + Len(b) - 1
  BY DEF h
<1>9. \A e \in NewEntries(b, nextId) : e.role # "compaction" /\ e.id > runtime.head /\ e.id <= h
  BY <1>1, <1>2, <1>6, <1>7, <1>8
<1>10. h < nextId'
  BY <1>1, <1>2, <1>4, <1>8
<1> QED
  BY <1>1, <1>2, <1>3, <1>4, <1>5, <1>8, <1>9, <1>10

(* What the transaction of a compaction does to the stored state.          *)
LEMMA CompactStep ==
    ASSUME TypeOK, runtime.head < nextId, NEW c \in Cores, AppendCompaction(c)
    PROVE  /\ plan[c].head = runtime.head
           /\ CompactionEntry(plan[c], nextId) \in Entry
           /\ CompactionEntry(plan[c], nextId).id = nextId
           /\ CompactionEntry(plan[c], nextId).role = "compaction"
           /\ CompactionEntry(plan[c], nextId).firstKept = plan[c].firstKept
           /\ CompactionEntry(plan[c], nextId).prev = plan[c].prev
           /\ ledger' = ledger \cup {CompactionEntry(plan[c], nextId)}
           /\ nextId \in Ids
           /\ nextId' = nextId + 1
           /\ nextId' \in 1..(MaxId + 1)
           /\ runtime' \in RuntimeState
           /\ runtime'.head = nextId
           /\ runtime'.cursor = runtime.cursor
           /\ summarized' = summarized \cup plan[c].input
           /\ summarized' \subseteq Ids
           /\ nextId > runtime.head
<1>1. /\ plan[c] \in Plan
      /\ nextId \in Nat \ {0} /\ nextId <= MaxId /\ nextId \in Ids
      /\ runtime \in RuntimeState
      /\ summarized \subseteq Ids
  BY BoundAssumption DEF TypeOK, AppendCompaction, Ids
<1>2. /\ plan[c].head = runtime.head
      /\ ledger' = ledger \cup {CompactionEntry(plan[c], nextId)}
      /\ nextId' = nextId + 1
      /\ runtime' = [runtime EXCEPT !.head = nextId, !.continuity = plan[c].continuity]
      /\ summarized' = summarized \cup plan[c].input
  BY DEF AppendCompaction, MatchingHead
<1>3. /\ CompactionEntry(plan[c], nextId) \in Entry
      /\ CompactionEntry(plan[c], nextId).id = nextId
      /\ CompactionEntry(plan[c], nextId).role = "compaction"
      /\ CompactionEntry(plan[c], nextId).firstKept = plan[c].firstKept
      /\ CompactionEntry(plan[c], nextId).prev = plan[c].prev
  BY <1>1, BoundAssumption DEF CompactionEntry, Entry, Plan
<1>4. /\ runtime' \in RuntimeState
      /\ runtime'.head = nextId
      /\ runtime'.cursor = runtime.cursor
  <2>1. plan[c].continuity \in 0..MaxContinuity
    BY <1>1 DEF Plan
  <2>2. nextId \in 0..MaxId
    BY <1>1, BoundAssumption
  <2> QED
    BY <1>1, <1>2, <2>1, <2>2 DEF RuntimeState
<1>5. summarized' \subseteq Ids
  BY <1>1, <1>2 DEF Plan
<1>6. nextId' \in 1..(MaxId + 1) /\ nextId > runtime.head
  BY <1>1, <1>2, BoundAssumption DEF RuntimeState
<1> QED
  BY <1>1, <1>2, <1>3, <1>4, <1>5, <1>6

(* At the start every variable has its type.                                *)
LEMMA TypeInit == Init => TypeOK
<1> SUFFICES ASSUME Init
             PROVE  TypeOK
  OBVIOUS
<1>1. EmptyMemory.runtime \in RuntimeState
  BY BoundAssumption DEF EmptyMemory, RuntimeState
<1>2. nextId \in 1..(MaxId + 1)
  BY BoundAssumption DEF Init
<1> QED
  BY <1>1, <1>2, EmptyTyped DEF Init, TypeOK

(* No head of a Core or of the ledger can be past the sequence; the type    *)
(* of the next row's head rests on it, so the two are kept together.       *)
TypeAndSequence == TypeOK /\ runtime.head < nextId

(* Every step keeps the types and the head behind the sequence.             *)
LEMMA TypeStep ==
    ASSUME TypeAndSequence, [Next]_vars
    PROVE  TypeAndSequence'
<1>0. /\ TypeOK /\ runtime.head < nextId
      /\ ledger \subseteq Entry
      /\ nextId \in 1..(MaxId + 1)
      /\ runtime \in RuntimeState /\ runtime.head \in Nat
      /\ lock \in Cores \cup {NoCore}
      /\ pc \in [Cores -> {"down", "starting", "idle", "compacting", "reloading"}]
      /\ mem \in [Cores -> [runtime : RuntimeState, view : View]]
      /\ plan \in [Cores -> Plan]
      /\ summarized \subseteq Ids
  BY BoundAssumption DEF TypeAndSequence, TypeOK, RuntimeState
<1>1. ASSUME NEW c \in Cores, AcquireLock(c)
      PROVE  TypeAndSequence'
  BY <1>0, <1>1 DEF AcquireLock, TypeAndSequence, TypeOK
<1>2. ASSUME NEW c \in Cores, Load(c)
      PROVE  TypeAndSequence'
  <2>1. Project(ledger) \in View
    BY <1>0, ProjectTyped
  <2> QED
    BY <1>0, <1>2, <2>1 DEF Load, TypeAndSequence, TypeOK
<1>3. ASSUME NEW c \in Cores, Crash(c)
      PROVE  TypeAndSequence'
  BY <1>0, <1>3, EmptyTyped DEF Crash, TypeAndSequence, TypeOK
<1>4. ASSUME NEW c \in Cores, DropLock(c)
      PROVE  TypeAndSequence'
  BY <1>0, <1>4 DEF DropLock, TypeAndSequence, TypeOK
<1>5. ASSUME NEW c \in Cores, NEW b \in Batches, NEW kind \in PatchKinds,
             CommitMessages(c, b, kind)
      PROVE  TypeAndSequence'
  <2>1. AppendMessages(c, b, kind)
    BY <1>5 DEF CommitMessages
  <2>2. /\ NewEntries(b, nextId) \subseteq Entry
        /\ ledger' = ledger \cup NewEntries(b, nextId)
        /\ nextId' \in 1..(MaxId + 1)
        /\ runtime' \in RuntimeState
        /\ runtime'.head < nextId'
    BY <1>0, <2>1, AppendStep
  <2>3. mem[c].view \in View /\ mem[c] \in [runtime : RuntimeState, view : View]
    BY <1>0
  <2>4. InstallCommit(mem[c], NewEntries(b, nextId), runtime')
            \in [runtime : RuntimeState, view : View]
    BY <2>2, <2>3 DEF InstallCommit, View
  <2> QED
    BY <1>0, <1>5, <2>2, <2>4 DEF CommitMessages, TypeAndSequence, TypeOK
<1>6. ASSUME NEW c \in Cores, NEW b \in Batches, NEW kind \in PatchKinds,
             CommitUnacknowledged(c, b, kind)
      PROVE  TypeAndSequence'
  <2>1. AppendMessages(c, b, kind)
    BY <1>6 DEF CommitUnacknowledged
  <2>2. /\ NewEntries(b, nextId) \subseteq Entry
        /\ ledger' = ledger \cup NewEntries(b, nextId)
        /\ nextId' \in 1..(MaxId + 1)
        /\ runtime' \in RuntimeState
        /\ runtime'.head < nextId'
    BY <1>0, <2>1, AppendStep
  <2> QED
    BY <1>0, <1>6, <2>2 DEF CommitUnacknowledged, TypeAndSequence, TypeOK
<1>7. ASSUME NEW c \in Cores, NEW b \in Batches, NEW k \in 1..Len(b), RollBack(c, k)
      PROVE  TypeAndSequence'
  <2>1. nextId' \in 1..(MaxId + 1) /\ runtime.head < nextId'
    BY <1>0, <1>7, BoundAssumption DEF RollBack
  <2> QED
    BY <1>0, <1>7, <2>1 DEF RollBack, TypeAndSequence, TypeOK
<1>8. ASSUME NEW c \in Cores, CommitRuntimeOnly(c)
      PROVE  TypeAndSequence'
  <2>1. mem[c].runtime \in RuntimeState /\ mem[c].view \in View
    BY <1>0
  <2>2. "continuity" \in PatchKinds /\ runtime.head \in 0..MaxId
    BY <1>0 DEF PatchKinds, RuntimeState
  <2>3. runtime' \in RuntimeState /\ runtime'.head = runtime.head
    BY <1>0, <1>8, <2>1, <2>2, PersistTyped DEF CommitRuntimeOnly
  <2>4. InstallCommit(mem[c], {}, runtime') \in [runtime : RuntimeState, view : View]
    BY <2>1, <2>3 DEF InstallCommit, View
  <2> QED
    BY <1>0, <1>8, <2>3, <2>4 DEF CommitRuntimeOnly, TypeAndSequence, TypeOK
<1>9. ASSUME NEW c \in Cores, NEW cut \in 0..MaxId, BeginCompaction(c, cut)
      PROVE  TypeAndSequence'
  <2>1. Prepare(cut, 1) \in Plan
    BY <1>0, <1>9, PrepareTyped DEF BeginCompaction
  <2> QED
    BY <1>0, <1>9, <2>1 DEF BeginCompaction, TypeAndSequence, TypeOK
<1>10. ASSUME NEW c \in Cores, NEW cut \in 0..MaxId, RecomputeCompaction(c, cut)
       PROVE  TypeAndSequence'
  <2>1. Prepare(cut, 2) \in Plan
    BY <1>0, <1>10, PrepareTyped DEF RecomputeCompaction
  <2> QED
    BY <1>0, <1>10, <2>1 DEF RecomputeCompaction, TypeAndSequence, TypeOK
<1>11. ASSUME NEW c \in Cores, NEW k \in {0, 1}, AbandonCompaction(c, k)
       PROVE  TypeAndSequence'
  <2>1. nextId' \in 1..(MaxId + 1) /\ runtime.head < nextId'
    BY <1>0, <1>11, BoundAssumption DEF AbandonCompaction
  <2> QED
    BY <1>0, <1>11, <2>1, EmptyTyped DEF AbandonCompaction, TypeAndSequence, TypeOK
<1>12. ASSUME NEW c \in Cores, CommitCompaction(c)
       PROVE  TypeAndSequence'
  <2>1. AppendCompaction(c)
    BY <1>12 DEF CommitCompaction
  <2>2. /\ CompactionEntry(plan[c], nextId) \in Entry
        /\ ledger' = ledger \cup {CompactionEntry(plan[c], nextId)}
        /\ nextId \in Ids
        /\ nextId' = nextId + 1
        /\ nextId' \in 1..(MaxId + 1)
        /\ runtime' \in RuntimeState
        /\ runtime'.head = nextId
        /\ summarized' \subseteq Ids
    BY <1>0, <2>1, CompactStep
  <2>3. [runtime |-> runtime', view |-> [summary |-> {nextId}, messages |-> plan[c].tail]]
            \in [runtime : RuntimeState, view : View]
    BY <1>0, <2>2 DEF View, Plan
  <2>4. runtime'.head < nextId'
    BY <1>0, <2>2
  <2> QED
    BY <1>0, <1>12, <2>2, <2>3, <2>4, EmptyTyped DEF CommitCompaction, TypeAndSequence, TypeOK
<1>13. ASSUME NEW c \in Cores, CompactionUnacknowledged(c)
       PROVE  TypeAndSequence'
  <2>1. AppendCompaction(c)
    BY <1>13 DEF CompactionUnacknowledged
  <2>2. /\ CompactionEntry(plan[c], nextId) \in Entry
        /\ ledger' = ledger \cup {CompactionEntry(plan[c], nextId)}
        /\ nextId' = nextId + 1
        /\ nextId' \in 1..(MaxId + 1)
        /\ runtime' \in RuntimeState
        /\ runtime'.head = nextId
        /\ summarized' \subseteq Ids
    BY <1>0, <2>1, CompactStep
  <2>3. runtime'.head < nextId'
    BY <1>0, <2>2
  <2> QED
    BY <1>0, <1>13, <2>2, <2>3, EmptyTyped
       DEF CompactionUnacknowledged, TypeAndSequence, TypeOK
<1>14. ASSUME NEW c \in Cores, NEW readable \in BOOLEAN, FinishReload(c, readable)
       PROVE  TypeAndSequence'
  <2>1. Project(ledger) \in View
    BY <1>0, ProjectTyped
  <2> QED
    BY <1>0, <1>14, <2>1 DEF FinishReload, TypeAndSequence, TypeOK
<1>15. CASE UNCHANGED vars
  BY <1>0, <1>15 DEF vars, TypeAndSequence, TypeOK
<1> QED
  BY <1>1, <1>2, <1>3, <1>4, <1>5, <1>6, <1>7, <1>8, <1>9, <1>10, <1>11, <1>12, <1>13, <1>14,
     <1>15 DEF Next, CommitStep, CompactionStep

(* Every variable has its type in every reachable state.                   *)
THEOREM TypeCorrect == Spec => []TypeOK
<1>1. Init => TypeAndSequence
  <2>1. Init => runtime.head < nextId
    BY DEF Init, EmptyMemory
  <2> QED
    BY <2>1, TypeInit DEF TypeAndSequence
<1>2. TypeAndSequence => TypeOK
  BY DEF TypeAndSequence
<1> QED
  BY <1>1, <1>2, TypeStep, PTL DEF Spec

-----------------------------------------------------------------------------
(* What an append preserves of the shape of the ledger.                    *)

(* Ids of a batch determine its entries, and its tool groups are contiguous. *)
LEMMA NewGroups ==
    ASSUME NEW b \in Batches, NEW first \in Nat \ {0}, first + Len(b) - 1 <= MaxId
    PROVE  /\ \A e, f \in NewEntries(b, first) : e.id = f.id => e = f
           /\ \A t \in NewEntries(b, first) : t.role = "tool" =>
                 /\ t.call >= first /\ t.call < t.id
                 /\ \E a \in NewEntries(b, first) : a.id = t.call /\ a.role = "assistant"
                 /\ \A e \in NewEntries(b, first) :
                       t.call < e.id /\ e.id <= t.id => e.role = "tool"
<1>1. /\ Len(b) \in Nat
      /\ \A e \in NewEntries(b, first) : \E i \in 1..Len(b) : e = MessageEntry(b, first, i)
      /\ \A i \in 1..Len(b) : MessageEntry(b, first, i) \in NewEntries(b, first)
  BY NewEntriesFacts DEF NewEntries
<1>2. ASSUME NEW i \in 1..Len(b)
      PROVE  /\ MessageEntry(b, first, i).id = first + i - 1
             /\ MessageEntry(b, first, i).role = b[i].role
             /\ b[i].role = "tool" => MessageEntry(b, first, i).call = first + b[i].answers - 1
  BY DEF MessageEntry
<1>3. ASSUME NEW i \in 1..Len(b), b[i].role = "tool"
      PROVE  /\ b[i].answers \in 1..(i - 1)
             /\ b[b[i].answers].role = "assistant"
             /\ \A j \in (b[i].answers + 1)..i : b[j].role = "tool"
  BY <1>3, Zenon, BatchAssumption
<1>4. ASSUME NEW e \in NewEntries(b, first), NEW f \in NewEntries(b, first), e.id = f.id
      PROVE  e = f
  <2>1. PICK i \in 1..Len(b) : e = MessageEntry(b, first, i)
    BY <1>1
  <2>2. PICK j \in 1..Len(b) : f = MessageEntry(b, first, j)
    BY <1>1
  <2>3. first + i - 1 = first + j - 1
    BY <1>2, <1>4, <2>1, <2>2
  <2>4. i = j
    BY <1>1, <2>3
  <2> QED
    BY <2>1, <2>2, <2>4
<1>5. ASSUME NEW t \in NewEntries(b, first), t.role = "tool"
      PROVE  /\ t.call >= first /\ t.call < t.id
             /\ \E a \in NewEntries(b, first) : a.id = t.call /\ a.role = "assistant"
             /\ \A e \in NewEntries(b, first) :
                   t.call < e.id /\ e.id <= t.id => e.role = "tool"
  <2>1. PICK i \in 1..Len(b) : t = MessageEntry(b, first, i)
    BY <1>1
  <2>2. b[i].role = "tool"
    BY <1>2, <1>5, <2>1
  <2> DEFINE a == b[i].answers
  <2>3. a \in 1..(i - 1) /\ b[a].role = "assistant" /\ \A j \in (a + 1)..i : b[j].role = "tool"
    BY <1>3, <2>2
  <2>4. t.call = first + a - 1 /\ t.id = first + i - 1
    BY <1>2, <2>1, <2>2
  <2> HIDE DEF a
  <2>5. a \in 1..Len(b)
    BY <1>1, <2>3
  <2>6. MessageEntry(b, first, a).id = t.call /\ MessageEntry(b, first, a).role = "assistant"
    BY <1>2, <2>3, <2>4, <2>5
  <2>7. ASSUME NEW e \in NewEntries(b, first), t.call < e.id, e.id <= t.id
        PROVE  e.role = "tool"
    <3>1. PICK j \in 1..Len(b) : e = MessageEntry(b, first, j)
      BY <1>1
    <3>2. e.id = first + j - 1 /\ e.role = b[j].role
      BY <1>2, <3>1
    <3>3. j \in (a + 1)..i
      BY <1>1, <2>3, <2>4, <2>5, <2>7, <3>2
    <3> QED
      BY <2>3, <3>2, <3>3
  <2>8. t.call >= first /\ t.call < t.id
    BY <1>1, <2>3, <2>4, <2>5
  <2> QED
    BY <1>1, <2>5, <2>6, <2>7, <2>8
<1> QED
  BY <1>4, <1>5

(* The parts of the invariant that speak of the ledger alone.              *)
LedgerShape ==
    IdsOrdered /\ LatestExists /\ GroupsContiguous /\ ChainValid(ledger) /\ BoundariesLegal

(* What the proofs use of a row: its fields are numbers, and ids start at   *)
(* 1.                                                                       *)
LEMMA EntryFacts ==
    ASSUME TypeOK, NEW e \in ledger
    PROVE  /\ e \in Entry
           /\ e.id \in Nat /\ e.id >= 1
           /\ e.firstKept \in Nat /\ e.call \in Nat /\ e.prev \in Nat
BY BoundAssumption DEF TypeOK, Entry, Ids

(* Appending a batch leaves a chain of compactions that cuts no tool group. *)
LEMMA AppendKeepsShape ==
    ASSUME TypeOK, LedgerShape,
           NEW c \in Cores, NEW b \in Batches, NEW kind \in PatchKinds,
           AppendMessages(c, b, kind)
    PROVE  LedgerShape'
<1> DEFINE new == NewEntries(b, nextId)
<1>1. /\ runtime.head < nextId
      /\ \A e \in ledger : e.id <= runtime.head
      /\ runtime.head \in Nat /\ nextId \in Nat \ {0}
      /\ ledger \subseteq Entry
  BY BoundAssumption DEF LedgerShape, IdsOrdered, TypeOK, RuntimeState
<1>2. /\ new \subseteq Entry
      /\ \A e \in new : e.role # "compaction" /\ e.id > runtime.head /\ e.id <= runtime'.head
      /\ \E e \in new : e.id = runtime'.head
      /\ ledger' = ledger \cup new
      /\ runtime'.head > runtime.head
      /\ runtime'.head < nextId'
      /\ runtime'.head \in Nat
  BY <1>1, AppendStep, BoundAssumption DEF RuntimeState
<1>3. /\ \A e, f \in new : e.id = f.id => e = f
      /\ \A t \in new : t.role = "tool" =>
            /\ t.call >= nextId /\ t.call < t.id
            /\ \E a \in new : a.id = t.call /\ a.role = "assistant"
            /\ \A e \in new : t.call < e.id /\ e.id <= t.id => e.role = "tool"
  <2>1. nextId + Len(b) - 1 <= MaxId
    BY DEF AppendMessages
  <2> QED
    BY <1>1, <2>1, NewGroups
<1>4. \A e \in ledger \cup new : e.id \in Nat /\ e.id >= 1 /\ e.call \in Nat /\ e.firstKept \in Nat
  BY <1>1, <1>2, BoundAssumption DEF Entry, Ids
<1> HIDE DEF new
<1>5. IdsOrdered'
  <2>1. \A e \in ledger' : e.id <= runtime'.head
    BY <1>1, <1>2, <1>4
  <2>2. ASSUME NEW e \in ledger', NEW f \in ledger', e.id = f.id
        PROVE  e = f
    <3>1. \A x \in ledger, y \in new : x.id # y.id
      BY <1>1, <1>2, <1>4
    <3>2. \A x, y \in ledger : x.id = y.id => x = y
      BY DEF LedgerShape, IdsOrdered
    <3> QED
      BY <1>2, <1>3, <2>2, <3>1, <3>2
  <2>3. ledger' # {}
    BY <1>2
  <2> QED
    BY <1>2, <2>1, <2>2, <2>3 DEF IdsOrdered
<1>6. GroupsContiguous'
  <2> SUFFICES ASSUME NEW t \in ledger', t.role = "tool"
               PROVE  /\ t.call < t.id
                      /\ \E a \in ledger' : a.id = t.call /\ a.role = "assistant"
                      /\ \A e \in ledger' : t.call < e.id /\ e.id <= t.id => e.role = "tool"
    BY DEF GroupsContiguous
  <2>1. CASE t \in ledger
    <3>1. /\ t.call < t.id
          /\ \E a \in ledger : a.id = t.call /\ a.role = "assistant"
          /\ \A e \in ledger : t.call < e.id /\ e.id <= t.id => e.role = "tool"
      BY <2>1 DEF LedgerShape, GroupsContiguous
    <3>2. \A e \in new : ~(e.id <= t.id)
      BY <1>1, <1>2, <1>4, <2>1
    <3> QED
      BY <1>2, <3>1, <3>2
  <2>2. CASE t \in new
    <3>1. /\ t.call >= nextId /\ t.call < t.id
          /\ \E a \in new : a.id = t.call /\ a.role = "assistant"
          /\ \A e \in new : t.call < e.id /\ e.id <= t.id => e.role = "tool"
      BY <1>3, <2>2
    <3>2. \A e \in ledger : ~(t.call < e.id)
      BY <1>1, <1>4, <2>2, <3>1
    <3> QED
      BY <1>2, <3>1, <3>2
  <2> QED
    BY <1>2, <2>1, <2>2
<1>7. Compactions(ledger') = Compactions(ledger) /\ Latest(ledger') = Latest(ledger)
  BY <1>1, <1>2, AppendProject
<1>8. ChainValid(ledger)' /\ LatestExists'
  BY <1>7 DEF LedgerShape, ChainValid, LatestExists, Latest
<1>9. BoundariesLegal'
  BY <1>2, <1>7 DEF LedgerShape, BoundariesLegal, Messages
<1> QED
  BY <1>5, <1>6, <1>8, <1>9 DEF LedgerShape

(* A candidate that passes the head check was prepared from all of today's  *)
(* ledger.                                                                 *)
LEMMA FreshCandidate ==
    ASSUME TypeOK, IdsOrdered, CandidatesSound,
           NEW c \in Cores, pc[c] = "compacting", plan[c].head = runtime.head
    PROVE  /\ plan[c].firstKept # 0 =>
                 \E m \in Active(ledger) : m.id = plan[c].firstKept /\ m.role # "tool"
           /\ IF Latest(ledger) = {} THEN plan[c].prev = 0
              ELSE \E d \in Latest(ledger) : plan[c].prev = d.id
           /\ plan[c].input = EntriesToSummarize(Active(ledger), plan[c].firstKept)
           /\ plan[c].tail = KeptTail(Active(ledger), plan[c].firstKept)
<1>1. Prefix(ledger, plan[c].head) = ledger
  BY PrefixWhole DEF IdsOrdered
<1>2. CandidateSound(c)
  BY DEF CandidatesSound
<1> QED
  BY <1>1, <1>2 DEF CandidateSound

(* So does appending a compaction that was prepared before.                 *)
LEMMA CompactKeepsShape ==
    ASSUME TypeOK, LedgerShape, CandidatesSound,
           NEW c \in Cores, pc[c] = "compacting", AppendCompaction(c)
    PROVE  LedgerShape'
<1> DEFINE e == CompactionEntry(plan[c], nextId)
<1>1. /\ runtime.head < nextId
      /\ \A d \in ledger : d.id <= runtime.head
      /\ runtime.head \in Nat /\ nextId \in Nat
      /\ ledger \subseteq Entry
  BY BoundAssumption DEF LedgerShape, IdsOrdered, TypeOK, RuntimeState
<1>2. /\ plan[c].head = runtime.head
      /\ e \in Entry /\ e.id = nextId /\ e.role = "compaction"
      /\ e.firstKept = plan[c].firstKept /\ e.prev = plan[c].prev
      /\ ledger' = ledger \cup {e}
      /\ nextId' = nextId + 1
      /\ runtime'.head = nextId
  BY <1>1, CompactStep
<1>3. \A d \in ledger : d.id \in Nat /\ d.id < nextId
  BY <1>1, EntryFacts
<1>4. /\ e.firstKept # 0 => \E m \in Active(ledger) : m.id = e.firstKept /\ m.role # "tool"
      /\ IF Latest(ledger) = {} THEN e.prev = 0 ELSE \E d \in Latest(ledger) : e.prev = d.id
  BY <1>2, FreshCandidate DEF LedgerShape
<1>0. e.call \in Nat /\ e.firstKept \in Nat
  BY <1>2, BoundAssumption DEF Entry
<1> HIDE DEF e
<1>5. /\ Compactions(ledger') = Compactions(ledger) \cup {e}
      /\ Messages(ledger') = Messages(ledger)
      /\ Latest(ledger') = {e}
  <2>1. \A d \in ledger : d.id < e.id
    BY <1>2, <1>3
  <2>2. e.firstKept # 0 => \E m \in Active(ledger) : m.id = e.firstKept
    BY <1>4
  <2> QED
    BY <1>1, <1>2, <2>1, <2>2, CompactProject
<1>6. IdsOrdered'
  <2>1. \A d \in ledger' : d.id <= nextId
    BY <1>1, <1>2, <1>3
  <2>2. \A d, f \in ledger' : d.id = f.id => d = f
    BY <1>2, <1>3 DEF LedgerShape, IdsOrdered
  <2> QED
    BY <1>1, <1>2, <2>1, <2>2 DEF IdsOrdered
<1>7. GroupsContiguous'
  <2> SUFFICES ASSUME NEW t \in ledger', t.role = "tool"
               PROVE  /\ t.call < t.id
                      /\ \E a \in ledger' : a.id = t.call /\ a.role = "assistant"
                      /\ \A d \in ledger' : t.call < d.id /\ d.id <= t.id => d.role = "tool"
    BY DEF GroupsContiguous
  <2>1. t \in ledger
    BY <1>2
  <2>2. /\ t.call < t.id
        /\ \E a \in ledger : a.id = t.call /\ a.role = "assistant"
        /\ \A d \in ledger : t.call < d.id /\ d.id <= t.id => d.role = "tool"
    BY <2>1 DEF LedgerShape, GroupsContiguous
  <2>3. ~(e.id <= t.id)
    BY <1>1, <1>2, <1>3, <2>1
  <2> QED
    BY <1>2, <2>2, <2>3
<1>8. ChainValid(ledger)'
  <2> SUFFICES ASSUME NEW d \in Compactions(ledger')
               PROVE  LET earlier == {x \in Compactions(ledger') : x.id < d.id}
                      IN  IF earlier = {} THEN d.prev = 0
                          ELSE \E x \in Latest(earlier) : d.prev = x.id
    BY DEF ChainValid
  <2>1. \A x \in Compactions(ledger) : x \in ledger
    BY DEF Compactions
  <2>2. CASE d = e
    <3>1. {x \in Compactions(ledger') : x.id < d.id} = Compactions(ledger)
      <4>1. \A x \in Compactions(ledger) : x.id < d.id
        BY <1>2, <1>3, <2>1, <2>2
      <4>2. ~(d.id < d.id)
        BY <1>1, <1>2, <2>2
      <4> QED
        BY <1>5, <2>2, <4>1, <4>2
    <3>2. Latest(Compactions(ledger)) = Latest(ledger)
      BY DEF Latest, Compactions
    <3>3. Compactions(ledger) = {} <=> Latest(ledger) = {}
      BY DEF LedgerShape, LatestExists, Latest
    <3> QED
      BY <1>4, <2>2, <3>1, <3>2, <3>3
  <2>3. CASE d \in Compactions(ledger)
    <3>1. {x \in Compactions(ledger') : x.id < d.id} = {x \in Compactions(ledger) : x.id < d.id}
      <4>1. ~(e.id < d.id)
        BY <1>1, <1>2, <1>3, <2>1, <2>3
      <4> QED
        BY <1>5, <4>1
    <3> QED
      BY <2>3, <3>1 DEF LedgerShape, ChainValid
  <2> QED
    BY <1>5, <2>2, <2>3
<1>9. BoundariesLegal'
  <2> SUFFICES ASSUME NEW d \in Compactions(ledger'), d.firstKept # 0
               PROVE  \E m \in Messages(ledger') :
                          m.id = d.firstKept /\ m.role # "tool" /\ m.id < d.id
    BY DEF BoundariesLegal
  <2>1. CASE d = e
    <3>1. PICK m \in Active(ledger) : m.id = e.firstKept /\ m.role # "tool"
      BY <1>4, <2>1
    <3>2. m \in Messages(ledger) /\ m \in ledger
      BY DEF Active, Messages
    <3> QED
      BY <1>2, <1>3, <1>5, <2>1, <3>1, <3>2
  <2>2. CASE d \in Compactions(ledger)
    BY <1>5, <2>2 DEF LedgerShape, BoundariesLegal
  <2> QED
    BY <1>5, <2>1, <2>2
<1>10. LatestExists'
  BY <1>5 DEF LatestExists
<1> QED
  BY <1>6, <1>7, <1>8, <1>9, <1>10 DEF LedgerShape

-----------------------------------------------------------------------------
(* The parts of the invariant that speak of one Core.                      *)
CoreSound(c) ==
    /\ mem[c].runtime.head <= runtime.head
    /\ pc[c] = "compacting" => CandidateSound(c)
    /\ mem[c].view = Project(Prefix(ledger, mem[c].runtime.head))
    /\ mem[c].runtime.head = runtime.head => mem[c].runtime.cursor = runtime.cursor

(* The invariant is the ledger's shape, every Core on its own, and what was *)
(* summarized.                                                              *)
LEMMA IndInvParts ==
    IndInv <=> /\ TypeOK /\ LedgerShape
               /\ \A c \in Cores : CoreSound(c)
               /\ NothingDroppedUnsummarized
BY DEF IndInv, LedgerShape, CoreSound, CoresBehind, CandidatesSound, ViewIsPrefixProjection,
       FreshHeadMeansFreshCursors

(* Enough of it to establish it after a step.                               *)
LEMMA IndInvNextParts ==
    ASSUME TypeOK', LedgerShape', \A c \in Cores : CoreSound(c)', NothingDroppedUnsummarized'
    PROVE  IndInv'
BY DEF IndInv, LedgerShape, CoreSound, CoresBehind, CandidatesSound, ViewIsPrefixProjection,
       FreshHeadMeansFreshCursors

(* The heads in play are numbers.                                          *)
LEMMA HeadsTyped ==
    ASSUME TypeOK
    PROVE  /\ runtime.head \in Nat /\ nextId \in Nat \ {0} /\ ledger \subseteq Entry
           /\ \A c \in Cores : /\ mem[c].runtime.head \in Nat /\ plan[c].head \in Nat
                              /\ mem[c] \in [runtime : RuntimeState, view : View]
                              /\ plan[c] \in Plan
BY BoundAssumption DEF TypeOK, RuntimeState, Plan

(* Whatever others append past the head, a Core that does nothing itself    *)
(* keeps a sound view and a sound candidate.                               *)
LEMMA CoreFrame ==
    ASSUME TypeOK, TypeOK', LedgerShape,
           NEW d \in Cores, CoreSound(d),
           NEW new, new \subseteq Entry, \A e \in new : e.id > runtime.head,
           ledger' = ledger \cup new,
           runtime'.head >= runtime.head,
           runtime'.head = runtime.head => runtime'.cursor = runtime.cursor,
           mem'[d] = mem[d],
           pc'[d] = "compacting" => pc[d] = "compacting" /\ plan'[d] = plan[d]
    PROVE  CoreSound(d)'
<1>1. /\ runtime.head \in Nat /\ runtime'.head \in Nat
      /\ mem[d].runtime.head \in Nat /\ plan[d].head \in Nat
  BY BoundAssumption, HeadsTyped DEF TypeOK, RuntimeState
<1>2. \A e \in new : e.id \in Nat
  BY BoundAssumption DEF Entry, Ids
<1>3. mem[d].runtime.head <= runtime.head
  BY DEF CoreSound
<1>4. Prefix(ledger', mem[d].runtime.head) = Prefix(ledger, mem[d].runtime.head)
  <2>1. \A e \in new : ~(e.id <= mem[d].runtime.head)
    BY <1>1, <1>2, <1>3
  <2>2. Prefix(ledger \cup new, mem[d].runtime.head) = Prefix(ledger, mem[d].runtime.head)
    BY <2>1, PrefixStable, ZenonT(40)
  <2> QED
    BY <2>2
<1>5. mem'[d].view = Project(Prefix(ledger', mem'[d].runtime.head))
  BY <1>4 DEF CoreSound
<1>6. mem'[d].runtime.head <= runtime'.head
  BY <1>1, <1>3
<1>7. mem'[d].runtime.head = runtime'.head => mem'[d].runtime.cursor = runtime'.cursor
  <2> SUFFICES ASSUME mem[d].runtime.head = runtime'.head
               PROVE  mem[d].runtime.cursor = runtime'.cursor
    OBVIOUS
  <2>1. runtime'.head = runtime.head
    BY <1>1, <1>3
  <2> QED
    BY <2>1 DEF CoreSound
<1>8. ASSUME pc'[d] = "compacting"
      PROVE  CandidateSound(d)'
  <2>1. CandidateSound(d) /\ plan'[d] = plan[d]
    BY <1>8 DEF CoreSound
  <2>2. plan[d].head <= runtime.head
    BY <2>1 DEF CandidateSound
  <2>3. \A e \in new : ~(e.id <= plan[d].head)
    BY <1>1, <1>2, <2>2
  <2>4. Prefix(ledger', plan[d].head) = Prefix(ledger, plan[d].head)
    <3>1. Prefix(ledger \cup new, plan[d].head) = Prefix(ledger, plan[d].head)
      BY <2>3, PrefixStable, ZenonT(40)
    <3> QED
      BY <3>1
  <2>5. plan[d].head <= runtime'.head
    BY <1>1, <2>2
  <2> QED
    BY <2>1, <2>4, <2>5 DEF CandidateSound
<1> QED
  BY <1>5, <1>6, <1>7, <1>8 DEF CoreSound

(* A Core that has just read canonical state.                              *)
LEMMA CoreLoaded ==
    ASSUME TypeOK, LedgerShape, NEW d \in Cores,
           ledger' = ledger, runtime' = runtime,
           mem'[d] = [runtime |-> runtime, view |-> Project(ledger)],
           pc'[d] # "compacting"
    PROVE  CoreSound(d)'
<1>1. Prefix(ledger, runtime.head) = ledger
  BY PrefixWhole DEF LedgerShape, IdsOrdered
<1>2. runtime.head <= runtime.head
  BY HeadsTyped
<1> QED
  BY <1>1, <1>2 DEF CoreSound

(* A Core that has just lost its memory.                                   *)
LEMMA CoreCrashed ==
    ASSUME TypeOK, LedgerShape, NEW d \in Cores,
           ledger' = ledger, runtime' = runtime,
           mem'[d] = EmptyMemory,
           pc'[d] # "compacting"
    PROVE  CoreSound(d)'
<1>1. mem'[d].runtime.head = 0 /\ mem'[d].runtime.cursor = 0
  BY DEF EmptyMemory
<1>2. runtime.head \in Nat /\ ledger \subseteq Entry
  BY HeadsTyped
<1>3. mem'[d].view = Project(Prefix(ledger', 0))
  BY <1>2, PrefixNone, EmptyProject
<1>4. runtime.head = 0 => runtime.cursor = 0
  <2> SUFFICES ASSUME runtime.head = 0
               PROVE  ledger = {}
    BY DEF LedgerShape, IdsOrdered
  <2>1. \A e \in ledger : e.id >= 1 /\ e.id \in Nat /\ e.id <= 0
    BY EntryFacts DEF LedgerShape, IdsOrdered
  <2> QED
    BY <2>1
<1> QED
  BY <1>1, <1>2, <1>3, <1>4 DEF CoreSound

(* A Core that has just prepared a candidate.                              *)
LEMMA CorePrepared ==
    ASSUME TypeOK, LedgerShape, NEW d \in Cores, CoreSound(d),
           NEW cut \in CutPoints(Active(ledger)), NEW attempt \in 1..2,
           ledger' = ledger, runtime' = runtime, mem' = mem,
           plan'[d] = Prepare(cut, attempt)
    PROVE  CoreSound(d)'
<1> DEFINE p == Prepare(cut, attempt)
<1>1. Prefix(ledger, runtime.head) = ledger
  BY PrefixWhole DEF LedgerShape, IdsOrdered
<1>2. /\ p.head = runtime.head /\ p.firstKept = cut
      /\ p.prev = IF Latest(ledger) = {} THEN 0 ELSE (CHOOSE c \in Latest(ledger) : TRUE).id
      /\ p.input = EntriesToSummarize(Active(ledger), cut)
      /\ p.tail = KeptTail(Active(ledger), cut)
  BY DEF Prepare
<1>3. /\ cut # 0 => \E m \in Active(ledger) : m.id = cut /\ m.role # "tool"
      /\ Active(ledger) # {}
  BY DEF CutPoints, LegalCuts
<1>4. ledger # {}
  BY <1>3 DEF Active, Messages
<1>5. IF Latest(ledger) = {} THEN p.prev = 0 ELSE \E x \in Latest(ledger) : p.prev = x.id
  BY <1>2
<1>6. runtime.head <= runtime.head
  BY HeadsTyped
<1>7. mem[d].runtime.head <= runtime.head
  BY DEF CoreSound
<1> HIDE DEF p
<1>8. plan'[d] = p
  BY DEF p
<1>9. CandidateSound(d)'
  BY <1>1, <1>2, <1>3, <1>4, <1>5, <1>6, <1>7, <1>8 DEF CandidateSound
<1> QED
  BY <1>9 DEF CoreSound

-----------------------------------------------------------------------------
(* The inductive step, by what a step does to the stored state.            *)

(* A step of c that leaves the entries and the head alone.                 *)
LEMMA LocalStep ==
    ASSUME IndInv, TypeAndSequence', NEW c \in Cores,
           ledger' = ledger, summarized' = summarized,
           runtime'.head = runtime.head, runtime'.cursor = runtime.cursor,
           \A d \in Cores \ {c} : mem'[d] = mem[d] /\ plan'[d] = plan[d] /\ pc'[d] = pc[d],
           CoreSound(c)'
    PROVE  IndInv'
<1>1. /\ TypeOK /\ TypeOK' /\ LedgerShape /\ NothingDroppedUnsummarized
      /\ \A d \in Cores : CoreSound(d)
      /\ runtime.head \in Nat
  BY IndInvParts, HeadsTyped DEF TypeAndSequence
<1>2. LedgerShape'
  BY <1>1 DEF TypeAndSequence, LedgerShape, IdsOrdered, LatestExists, GroupsContiguous,
              ChainValid, BoundariesLegal
<1>3. NothingDroppedUnsummarized'
  BY <1>1 DEF NothingDroppedUnsummarized
<1>4. ASSUME NEW d \in Cores, d # c
      PROVE  CoreSound(d)'
  <2> DEFINE new == {}
  <2>1. ledger' = ledger \cup new /\ new \subseteq Entry /\ \A e \in new : e.id > runtime.head
    OBVIOUS
  <2>2. runtime'.head >= runtime.head
    BY <1>1
  <2>3. mem'[d] = mem[d] /\ plan'[d] = plan[d] /\ pc'[d] = pc[d]
    BY <1>4
  <2> HIDE DEF new
  <2>4. CoreSound(d)
    BY <1>1
  <2> QED
    BY <1>1, <2>1, <2>2, <2>3, <2>4, CoreFrame
<1> QED
  BY <1>1, <1>2, <1>3, <1>4, IndInvNextParts

(* A step of c that appends a batch of messages.                           *)
LEMMA MessageStep ==
    ASSUME IndInv, TypeAndSequence', NEW c \in Cores, NEW b \in Batches, NEW kind \in PatchKinds,
           AppendMessages(c, b, kind),
           summarized' = summarized,
           \A d \in Cores \ {c} : mem'[d] = mem[d] /\ plan'[d] = plan[d] /\ pc'[d] = pc[d],
           CoreSound(c)'
    PROVE  IndInv'
<1> DEFINE new == NewEntries(b, nextId)
<1>1. /\ TypeOK /\ TypeOK' /\ LedgerShape /\ NothingDroppedUnsummarized
      /\ \A d \in Cores : CoreSound(d)
      /\ runtime.head \in Nat /\ ledger \subseteq Entry
      /\ runtime.head < nextId
      /\ \A e \in ledger : e.id <= runtime.head
  BY IndInvParts, HeadsTyped DEF TypeAndSequence, LedgerShape, IdsOrdered
<1>2. /\ new \subseteq Entry
      /\ \A e \in new : e.role # "compaction" /\ e.id > runtime.head
      /\ ledger' = ledger \cup new
      /\ runtime'.head > runtime.head
      /\ runtime'.head \in Nat
  BY <1>1, AppendStep, BoundAssumption DEF RuntimeState
<1> HIDE DEF new
<1>3. LedgerShape'
  BY <1>1, AppendKeepsShape
<1>4. /\ Messages(ledger') = Messages(ledger) \cup new
      /\ Active(ledger') = Active(ledger) \cup new
  BY <1>1, <1>2, AppendProject
<1>5. NothingDroppedUnsummarized'
  BY <1>1, <1>4 DEF NothingDroppedUnsummarized
<1>6. ASSUME NEW d \in Cores, d # c
      PROVE  CoreSound(d)'
  <2>1. runtime'.head >= runtime.head /\ runtime'.head # runtime.head
    BY <1>1, <1>2
  <2>2. mem'[d] = mem[d] /\ plan'[d] = plan[d] /\ pc'[d] = pc[d]
    BY <1>6
  <2>3. CoreSound(d)
    BY <1>1
  <2> QED
    BY <1>1, <1>2, <2>1, <2>2, <2>3, CoreFrame
<1> QED
  BY <1>1, <1>3, <1>5, <1>6, IndInvNextParts

(* A step of c that appends its compaction candidate.                      *)
LEMMA CandidateStep ==
    ASSUME IndInv, TypeAndSequence', NEW c \in Cores, pc[c] = "compacting",
           AppendCompaction(c),
           \A d \in Cores \ {c} : mem'[d] = mem[d] /\ plan'[d] = plan[d] /\ pc'[d] = pc[d],
           CoreSound(c)'
    PROVE  IndInv'
<1> DEFINE e == CompactionEntry(plan[c], nextId)
<1>1. /\ TypeOK /\ TypeOK' /\ LedgerShape /\ NothingDroppedUnsummarized
      /\ \A d \in Cores : CoreSound(d)
      /\ runtime.head \in Nat /\ nextId \in Nat /\ ledger \subseteq Entry
      /\ runtime.head < nextId
      /\ \A d \in ledger : d.id <= runtime.head /\ d.id \in Nat
      /\ CandidatesSound
  BY IndInvParts, HeadsTyped, EntryFacts DEF TypeAndSequence, LedgerShape, IdsOrdered, IndInv
<1>2. /\ plan[c].head = runtime.head
      /\ e \in Entry /\ e.id = nextId /\ e.role = "compaction"
      /\ e.firstKept = plan[c].firstKept
      /\ ledger' = ledger \cup {e}
      /\ runtime'.head = nextId
      /\ summarized' = summarized \cup plan[c].input
  BY <1>1, CompactStep
<1>3. /\ e.firstKept # 0 => \E m \in Active(ledger) : m.id = e.firstKept /\ m.role # "tool"
      /\ plan[c].input = EntriesToSummarize(Active(ledger), e.firstKept)
  BY <1>1, <1>2, FreshCandidate DEF LedgerShape
<1> HIDE DEF e
<1>4. LedgerShape'
  BY <1>1, CompactKeepsShape
<1>5. /\ Messages(ledger') = Messages(ledger)
      /\ Active(ledger') = KeptTail(Active(ledger), e.firstKept)
  <2>1. \A d \in ledger : d.id < e.id
    BY <1>1, <1>2
  <2>2. e.firstKept # 0 => \E m \in Active(ledger) : m.id = e.firstKept
    BY <1>3
  <2> QED
    BY <1>1, <1>2, <2>1, <2>2, CompactProject
<1>6. NothingDroppedUnsummarized'
  <2> SUFFICES ASSUME NEW m \in Messages(ledger), m \notin KeptTail(Active(ledger), e.firstKept)
               PROVE  m.id \in summarized'
    BY <1>5 DEF NothingDroppedUnsummarized
  <2>1. CASE m \in Active(ledger)
    BY <1>2, <1>3, <2>1 DEF EntriesToSummarize
  <2>2. CASE m \notin Active(ledger)
    BY <1>1, <1>2, <2>2 DEF NothingDroppedUnsummarized
  <2> QED
    BY <2>1, <2>2
<1>7. ASSUME NEW d \in Cores, d # c
      PROVE  CoreSound(d)'
  <2> DEFINE new == {e}
  <2>1. /\ runtime'.head >= runtime.head /\ runtime'.head # runtime.head
        /\ new \subseteq Entry /\ \A x \in new : x.id > runtime.head
        /\ ledger' = ledger \cup new
    BY <1>1, <1>2
  <2>2. mem'[d] = mem[d] /\ plan'[d] = plan[d] /\ pc'[d] = pc[d]
    BY <1>7
  <2> HIDE DEF new
  <2>3. CoreSound(d)
    BY <1>1
  <2> QED
    BY <1>1, <1>2, <2>1, <2>2, <2>3, CoreFrame
<1> QED
  BY <1>1, <1>4, <1>6, <1>7, IndInvNextParts

(* Every step of a Core keeps the inductive invariant.                      *)
LEMMA IndStep ==
    ASSUME IndInv, [Next]_vars
    PROVE  IndInv'
<1>0. /\ TypeOK /\ LedgerShape /\ TypeAndSequence /\ TypeAndSequence' /\ TypeOK'
      /\ \A d \in Cores : CoreSound(d)
      /\ ledger \subseteq Entry /\ runtime.head \in Nat
      /\ runtime.head < nextId
      /\ \A e \in ledger : e.id <= runtime.head
      /\ runtime \in RuntimeState
      /\ mem \in [Cores -> [runtime : RuntimeState, view : View]]
      /\ pc \in [Cores -> {"down", "starting", "idle", "compacting", "reloading"}]
      /\ plan \in [Cores -> Plan]
  <2>1. TypeOK /\ LedgerShape /\ runtime.head < nextId
    BY IndInvParts DEF LedgerShape, IdsOrdered
  <2>2. TypeAndSequence /\ TypeAndSequence'
    BY <2>1, TypeStep DEF TypeAndSequence
  <2> QED
    BY <2>1, <2>2, IndInvParts, HeadsTyped DEF TypeAndSequence, TypeOK, LedgerShape, IdsOrdered
<1> DEFINE Others(c) ==
        \A d \in Cores \ {c} : mem'[d] = mem[d] /\ plan'[d] = plan[d] /\ pc'[d] = pc[d]
<1>u. ASSUME NEW c \in Cores, CoreSound(c),
             ledger' = ledger,
             runtime'.head = runtime.head, runtime'.cursor = runtime.cursor,
             mem'[c] = mem[c],
             pc'[c] = "compacting" => pc[c] = "compacting" /\ plan'[c] = plan[c]
      PROVE  CoreSound(c)'
  <2> DEFINE new == {}
  <2>1. ledger' = ledger \cup new /\ new \subseteq Entry /\ \A e \in new : e.id > runtime.head
    BY <1>u
  <2>2. runtime'.head >= runtime.head
    BY <1>0, <1>u
  <2> HIDE DEF new
  <2> QED
    BY <1>0, <1>u, <2>1, <2>2, CoreFrame
<1>1. ASSUME NEW c \in Cores, AcquireLock(c)
      PROVE  IndInv'
  <2>1. Others(c) /\ ledger' = ledger /\ runtime' = runtime /\ summarized' = summarized
        /\ mem' = mem /\ pc'[c] # "compacting"
    BY <1>0, <1>1 DEF AcquireLock
  <2>2. CoreSound(c)'
    BY <1>0, <1>u, <2>1
  <2> QED
    BY <1>0, <2>1, <2>2, LocalStep
<1>2. ASSUME NEW c \in Cores, Load(c)
      PROVE  IndInv'
  <2>1. Others(c) /\ ledger' = ledger /\ runtime' = runtime /\ summarized' = summarized
        /\ mem'[c] = [runtime |-> runtime, view |-> Project(ledger)] /\ pc'[c] # "compacting"
    BY <1>0, <1>2 DEF Load
  <2>2. CoreSound(c)'
    BY <1>0, <2>1, CoreLoaded
  <2> QED
    BY <1>0, <2>1, <2>2, LocalStep
<1>3. ASSUME NEW c \in Cores, Crash(c)
      PROVE  IndInv'
  <2>1. Others(c) /\ ledger' = ledger /\ runtime' = runtime /\ summarized' = summarized
        /\ mem'[c] = EmptyMemory /\ pc'[c] # "compacting"
    BY <1>0, <1>3 DEF Crash
  <2>2. CoreSound(c)'
    BY <1>0, <2>1, CoreCrashed
  <2> QED
    BY <1>0, <2>1, <2>2, LocalStep
<1>4. ASSUME NEW c \in Cores, DropLock(c)
      PROVE  IndInv'
  <2>1. Others(c) /\ ledger' = ledger /\ runtime' = runtime /\ summarized' = summarized
        /\ mem' = mem /\ pc' = pc /\ plan' = plan
    BY <1>4 DEF DropLock
  <2>2. CoreSound(c)'
    BY <1>0, <1>u, <2>1
  <2> QED
    BY <1>0, <2>1, <2>2, LocalStep
<1>5. ASSUME NEW c \in Cores, NEW b \in Batches, NEW kind \in PatchKinds,
             CommitMessages(c, b, kind)
      PROVE  IndInv'
  <2> DEFINE new == NewEntries(b, nextId)
  <2>1. /\ AppendMessages(c, b, kind)
        /\ mem'[c] = InstallCommit(mem[c], new, runtime')
        /\ Others(c) /\ summarized' = summarized /\ pc'[c] = "idle"
    BY <1>0, <1>5 DEF CommitMessages
  <2>2. /\ mem[c].runtime.head = runtime.head
        /\ new \subseteq Entry
        /\ \A e \in new : e.role # "compaction" /\ e.id > runtime.head /\ e.id <= runtime'.head
        /\ ledger' = ledger \cup new
        /\ runtime' \in RuntimeState
        /\ runtime'.head > runtime.head
    BY <1>0, <2>1, AppendStep
  <2>3. runtime'.head \in Nat
    BY <2>2, BoundAssumption DEF RuntimeState
  <2> HIDE DEF new
  <2>4. mem[c].view = Project(ledger)
    <3>1. Prefix(ledger, runtime.head) = ledger
      BY <1>0, PrefixWhole
    <3> QED
      BY <1>0, <2>2, <3>1 DEF CoreSound
  <2>5. Prefix(ledger', runtime'.head) = ledger'
    <3>1. \A e \in ledger : e.id <= runtime'.head
      BY <1>0, <2>2, <2>3, EntryFacts
    <3>2. \A e \in ledger' : e.id <= runtime'.head
      BY <2>2, <3>1
    <3> QED
      BY <3>2, PrefixWhole
  <2>6. Project(ledger') = [summary |-> Project(ledger).summary,
                            messages |-> Project(ledger).messages \cup new]
    <3>1. Latest(ledger') = Latest(ledger) /\ Active(ledger') = Active(ledger) \cup new
      BY <1>0, <2>2, AppendProject
    <3> QED
      BY <3>1 DEF Project
  <2>7. mem'[c].view = Project(ledger') /\ mem'[c].runtime = runtime'
    <3>1. mem[c].view \in View
      BY <1>0
    <3> QED
      BY <2>1, <2>4, <2>6, <3>1 DEF InstallCommit, View
  <2>8. runtime'.head <= runtime'.head
    BY <2>3
  <2>9. CoreSound(c)'
    BY <2>1, <2>5, <2>7, <2>8 DEF CoreSound
  <2> QED
    BY <1>0, <2>1, <2>9, MessageStep
<1>6. ASSUME NEW c \in Cores, NEW b \in Batches, NEW kind \in PatchKinds,
             CommitUnacknowledged(c, b, kind)
      PROVE  IndInv'
  <2> DEFINE new == NewEntries(b, nextId)
  <2>1. /\ AppendMessages(c, b, kind)
        /\ mem' = mem /\ plan' = plan /\ pc' = pc /\ summarized' = summarized
    BY <1>6 DEF CommitUnacknowledged
  <2>2. /\ new \subseteq Entry
        /\ \A e \in new : e.id > runtime.head
        /\ ledger' = ledger \cup new
        /\ runtime' \in RuntimeState
        /\ runtime'.head > runtime.head
    BY <1>0, <2>1, AppendStep
  <2> HIDE DEF new
  <2>3. runtime'.head >= runtime.head /\ runtime'.head # runtime.head
    BY <1>0, <2>2, BoundAssumption DEF RuntimeState
  <2>4. CoreSound(c)'
    BY <1>0, <2>1, <2>2, <2>3, CoreFrame
  <2> QED
    BY <1>0, <2>1, <2>4, MessageStep
<1>7. ASSUME NEW c \in Cores, NEW b \in Batches, NEW k \in 1..Len(b), RollBack(c, k)
      PROVE  IndInv'
  <2>1. Others(c) /\ ledger' = ledger /\ runtime' = runtime /\ summarized' = summarized
        /\ mem' = mem /\ pc' = pc /\ plan' = plan
    BY <1>7 DEF RollBack
  <2>2. CoreSound(c)'
    BY <1>0, <1>u, <2>1
  <2> QED
    BY <1>0, <2>1, <2>2, LocalStep
<1>8. ASSUME NEW c \in Cores, CommitRuntimeOnly(c)
      PROVE  IndInv'
  <2>1. /\ Others(c) /\ ledger' = ledger /\ summarized' = summarized
        /\ pc[c] = "idle" /\ pc' = pc
        /\ runtime' = PersistRuntimeState(mem[c].runtime, "continuity", runtime.head)
        /\ mem'[c] = InstallCommit(mem[c], {}, runtime')
        /\ mem[c].runtime.head = runtime.head
    BY <1>0, <1>8 DEF CommitRuntimeOnly, MatchingHead
  <2>2. runtime'.head = runtime.head /\ runtime'.cursor = runtime.cursor
    BY <2>1 DEF PersistRuntimeState
  <2>3. mem'[c].view = mem[c].view /\ mem'[c].runtime = runtime'
    <3>1. mem[c].view \in View
      BY <1>0
    <3> QED
      BY <2>1, <3>1 DEF InstallCommit, View
  <2>4. mem[c].view = Project(Prefix(ledger, runtime.head)) /\ runtime.head <= runtime.head
    BY <1>0, <2>1 DEF CoreSound
  <2>5. CoreSound(c)'
    BY <2>1, <2>2, <2>3, <2>4 DEF CoreSound
  <2> QED
    BY <1>0, <2>1, <2>2, <2>5, LocalStep
<1>9. ASSUME NEW c \in Cores, NEW cut \in 0..MaxId, BeginCompaction(c, cut)
      PROVE  IndInv'
  <2>1. /\ Others(c) /\ ledger' = ledger /\ runtime' = runtime /\ summarized' = summarized
        /\ mem' = mem /\ plan'[c] = Prepare(cut, 1)
        /\ cut \in CutPoints(Active(ledger)) /\ 1 \in 1..2
    BY <1>0, <1>9 DEF BeginCompaction
  <2>2. CoreSound(c)'
    BY <1>0, <2>1, CorePrepared
  <2> QED
    BY <1>0, <2>1, <2>2, LocalStep
<1>10. ASSUME NEW c \in Cores, NEW cut \in 0..MaxId, RecomputeCompaction(c, cut)
       PROVE  IndInv'
  <2>1. /\ Others(c) /\ ledger' = ledger /\ runtime' = runtime /\ summarized' = summarized
        /\ mem' = mem /\ plan'[c] = Prepare(cut, 2)
        /\ cut \in CutPoints(Active(ledger)) /\ 2 \in 1..2
    BY <1>0, <1>10 DEF RecomputeCompaction
  <2>2. CoreSound(c)'
    BY <1>0, <2>1, CorePrepared
  <2> QED
    BY <1>0, <2>1, <2>2, LocalStep
<1>11. ASSUME NEW c \in Cores, NEW k \in {0, 1}, AbandonCompaction(c, k)
       PROVE  IndInv'
  <2>1. Others(c) /\ ledger' = ledger /\ runtime' = runtime /\ summarized' = summarized
        /\ mem' = mem /\ pc'[c] # "compacting"
    BY <1>0, <1>11 DEF AbandonCompaction
  <2>2. CoreSound(c)'
    BY <1>0, <1>u, <2>1
  <2> QED
    BY <1>0, <2>1, <2>2, LocalStep
<1>12. ASSUME NEW c \in Cores, CommitCompaction(c)
       PROVE  IndInv'
  <2> DEFINE e == CompactionEntry(plan[c], nextId)
  <2>1. /\ pc[c] = "compacting" /\ AppendCompaction(c) /\ Others(c) /\ pc'[c] = "reloading"
        /\ mem'[c] = [runtime |-> runtime',
                       view |-> [summary |-> {nextId}, messages |-> plan[c].tail]]
    BY <1>0, <1>12 DEF CommitCompaction
  <2>2. /\ plan[c].head = runtime.head
        /\ e \in Entry /\ e.id = nextId /\ e.role = "compaction"
        /\ e.firstKept = plan[c].firstKept
        /\ ledger' = ledger \cup {e}
        /\ runtime' \in RuntimeState
        /\ runtime'.head = nextId
    BY <1>0, <2>1, CompactStep
  <2>3. /\ e.firstKept # 0 => \E m \in Active(ledger) : m.id = e.firstKept
        /\ plan[c].tail = KeptTail(Active(ledger), e.firstKept)
    BY <1>0, <2>1, <2>2, FreshCandidate DEF IndInv, LedgerShape
  <2> HIDE DEF e
  <2>4. nextId \in Nat /\ \A d \in ledger : d.id < e.id
    BY <1>0, <2>2, HeadsTyped, EntryFacts
  <2>5. Latest(ledger') = {e} /\ Active(ledger') = KeptTail(Active(ledger), e.firstKept)
    BY <1>0, <2>2, <2>3, <2>4, CompactProject
  <2>6. Project(ledger') = mem'[c].view
    <3>1. Project(ledger') = [summary |-> {nextId}, messages |-> Active(ledger')]
      BY <2>2, <2>5, LatestProject
    <3>2. Active(ledger') = plan[c].tail
      BY <2>3, <2>5
    <3> QED
      BY <2>1, <3>1, <3>2
  <2>7. Prefix(ledger', runtime'.head) = ledger'
    <3>1. \A d \in ledger' : d.id <= runtime'.head
      BY <1>0, <2>2, <2>4, EntryFacts
    <3> QED
      BY <3>1, PrefixWhole
  <2>8. mem'[c].runtime = runtime' /\ runtime'.head <= runtime'.head
    BY <2>1, <2>2, <2>4
  <2>9. CoreSound(c)'
    BY <2>1, <2>6, <2>7, <2>8 DEF CoreSound
  <2> QED
    BY <1>0, <2>1, <2>9, CandidateStep
<1>13. ASSUME NEW c \in Cores, CompactionUnacknowledged(c)
       PROVE  IndInv'
  <2> DEFINE new == {CompactionEntry(plan[c], nextId)}
  <2>1. /\ pc[c] = "compacting" /\ AppendCompaction(c) /\ Others(c) /\ pc'[c] = "idle"
        /\ mem' = mem
    BY <1>0, <1>13 DEF CompactionUnacknowledged
  <2>2. /\ new \subseteq Entry
        /\ \A e \in new : e.id > runtime.head
        /\ ledger' = ledger \cup new
        /\ runtime'.head = nextId
        /\ nextId > runtime.head
    BY <1>0, <2>1, CompactStep
  <2> HIDE DEF new
  <2>3. runtime'.head >= runtime.head /\ runtime'.head # runtime.head
    BY <1>0, <2>2, HeadsTyped
  <2>4. CoreSound(c)'
    BY <1>0, <2>1, <2>2, <2>3, CoreFrame
  <2> QED
    BY <1>0, <2>1, <2>4, CandidateStep
<1>14. ASSUME NEW c \in Cores, NEW readable \in BOOLEAN, FinishReload(c, readable)
       PROVE  IndInv'
  <2>1. /\ Others(c) /\ ledger' = ledger /\ runtime' = runtime /\ summarized' = summarized
        /\ pc'[c] # "compacting"
        /\ \/ mem'[c] = mem[c]
           \/ mem'[c] = [runtime |-> runtime, view |-> Project(ledger)]
    BY <1>0, <1>14 DEF FinishReload
  <2>2. CoreSound(c)'
    <3>1. CASE mem'[c] = mem[c]
      BY <1>0, <1>u, <2>1, <3>1
    <3>2. CASE mem'[c] = [runtime |-> runtime, view |-> Project(ledger)]
      BY <1>0, <2>1, <3>2, CoreLoaded
    <3> QED
      BY <2>1, <3>1, <3>2
  <2> QED
    BY <1>0, <2>1, <2>2, LocalStep
<1>15. CASE UNCHANGED vars
  <2>1. /\ LedgerShape' /\ NothingDroppedUnsummarized'
    BY <1>15, IndInvParts DEF vars, LedgerShape, IdsOrdered, LatestExists, GroupsContiguous,
          ChainValid, BoundariesLegal, NothingDroppedUnsummarized
  <2>2. ASSUME NEW c \in Cores
        PROVE  CoreSound(c)'
    BY <1>0, <1>u, <1>15 DEF vars
  <2> QED
    BY <1>0, <2>1, <2>2, IndInvNextParts
<1> QED
  BY <1>1, <1>2, <1>3, <1>4, <1>5, <1>6, <1>7, <1>8, <1>9, <1>10, <1>11, <1>12, <1>13, <1>14,
     <1>15 DEF Next, CommitStep, CompactionStep

(* An empty ledger with every Core down satisfies it.                       *)
LEMMA IndInit == Init => IndInv
<1> SUFFICES ASSUME Init
             PROVE  IndInv
  OBVIOUS
<1>1. /\ TypeOK
      /\ ledger = {} /\ nextId = 1 /\ runtime.head = 0 /\ runtime.cursor = 0
      /\ \A c \in Cores : mem[c] = EmptyMemory /\ pc[c] = "down"
  BY TypeInit DEF Init, EmptyMemory
<1>2. Messages(ledger) = {} /\ Compactions(ledger) = {}
  BY <1>1 DEF Messages, Compactions
<1>3. LedgerShape
  BY <1>1, <1>2 DEF LedgerShape, IdsOrdered, LatestExists, GroupsContiguous, ChainValid,
                    BoundariesLegal
<1>4. ASSUME NEW c \in Cores
      PROVE  CoreSound(c)
  <2>1. Prefix(ledger, mem[c].runtime.head) = {}
    BY <1>1 DEF Prefix
  <2>2. mem[c].view = Project({}) /\ mem[c].runtime.head = 0 /\ mem[c].runtime.cursor = 0
    BY <1>1, EmptyProject DEF EmptyMemory
  <2> QED
    BY <1>1, <2>1, <2>2 DEF CoreSound
<1>5. NothingDroppedUnsummarized
  BY <1>2 DEF NothingDroppedUnsummarized
<1> QED
  BY <1>1, <1>3, <1>4, <1>5, IndInvParts

(* The inductive invariant holds in every reachable state.                 *)
THEOREM Inductive == Spec => []IndInv
BY IndInit, IndStep, PTL DEF Spec

(* What a Core shows the model is always the projection of the ledger up to *)
(* the head it expects: incremental installs, candidates and full reloads   *)
(* agree for any number of overlapping Cores and any batches.              *)
THEOREM ViewsAreProjections == Spec => []ViewIsPrefixProjection
<1>1. IndInv => ViewIsPrefixProjection
  BY DEF IndInv
<1> QED
  BY <1>1, Inductive, PTL

(* No message leaves the projection without having been summarized.        *)
THEOREM NothingDropped == Spec => []NothingDroppedUnsummarized
<1>1. IndInv => NothingDroppedUnsummarized
  BY DEF IndInv
<1> QED
  BY <1>1, Inductive, PTL

(* A legal boundary never separates a tool result from its call.           *)
LEMMA ActiveGroupsWhole ==
    ASSUME TypeOK, LedgerShape
    PROVE  ToolGroupsWhole(Messages(ledger)) /\ ToolGroupsWhole(Active(ledger))
<1>1. ASSUME NEW t \in Messages(ledger), t.role = "tool"
      PROVE  \E a \in Messages(ledger) :
                /\ a.id = t.call /\ a.role = "assistant" /\ a.id < t.id
                /\ \A e \in ledger : a.id < e.id /\ e.id <= t.id => e.role = "tool"
  <2>1. t \in ledger
    BY DEF Messages
  <2> QED
    BY <1>1, <2>1 DEF LedgerShape, GroupsContiguous, Messages
<1>2. ASSUME NEW t \in Active(ledger), t.role = "tool"
      PROVE  \E a \in Active(ledger) : a.id = t.call /\ a.role = "assistant"
  <2>1. t \in Messages(ledger)
    BY DEF Active
  <2>2. PICK a \in Messages(ledger) :
               /\ a.id = t.call /\ a.role = "assistant" /\ a.id < t.id
               /\ \A e \in ledger : a.id < e.id /\ e.id <= t.id => e.role = "tool"
    BY <1>1, <1>2, <2>1
  <2>3. ASSUME NEW c \in Latest(ledger)
        PROVE  Kept(a, c)
    <3>1. /\ c \in Compactions(ledger) /\ c \in ledger /\ c.role = "compaction"
          /\ a \in ledger /\ t \in ledger
      BY <2>1 DEF Latest, Compactions, Messages
    <3>2. c.id \in Nat /\ a.id \in Nat /\ t.id \in Nat /\ c.firstKept \in Nat
      BY <3>1, EntryFacts
    <3>3. Kept(t, c)
      BY DEF Active
    <3>4. CASE t.id > c.id
      <4>1. ~(a.id < c.id)
        BY <2>2, <3>1, <3>2, <3>4
      <4>2. a.id # c.id
        BY <2>2, <3>1 DEF LedgerShape, IdsOrdered
      <4> QED
        BY <3>2, <4>1, <4>2 DEF Kept
    <3>5. CASE c.firstKept # 0 /\ t.id >= c.firstKept
      <4>1. PICK m \in Messages(ledger) : m.id = c.firstKept /\ m.role # "tool"
        BY <3>1, <3>5 DEF LedgerShape, BoundariesLegal
      <4>2. m \in ledger
        BY DEF Messages
      <4>3. ~(a.id < c.firstKept)
        BY <2>2, <3>2, <3>5, <4>1, <4>2
      <4> QED
        BY <3>2, <3>5, <4>3 DEF Kept
    <3> QED
      BY <3>3, <3>4, <3>5 DEF Kept
  <2> QED
    BY <2>2, <2>3 DEF Active
<1> QED
  BY <1>1, <1>2 DEF ToolGroupsWhole

(* Whatever was committed and whenever the process died, the next start     *)
(* can load the ledger: it passes every check of projectAgentLedger.        *)
THEOREM CanonicalStateLoads == Spec => []AlwaysLoadable
<1>1. IndInv => AlwaysLoadable
  <2> SUFFICES ASSUME IndInv
               PROVE  AlwaysLoadable
    OBVIOUS
  <2>1. TypeOK /\ LedgerShape
    BY IndInvParts
  <2>2. BoundaryValid(ledger)
    BY <2>1 DEF BoundaryValid, LedgerShape, BoundariesLegal, Latest
  <2> QED
    BY <2>1, <2>2, ActiveGroupsWhole DEF AlwaysLoadable, Loadable, LedgerShape, IdsOrdered
<1> QED
  BY <1>1, Inductive, PTL

(* The cursor of one commit: kept, or advanced from the stored value, as    *)
(* the head check makes the committing Core's value the stored one.         *)
LEMMA CursorStep ==
    ASSUME IndInv, NEW c \in Cores, NEW b \in Batches, NEW kind \in PatchKinds,
           AppendMessages(c, b, kind)
    PROVE  runtime'.cursor \in {runtime.cursor, runtime.cursor + 1}
<1>1. mem[c].runtime.head = runtime.head
  BY DEF AppendMessages, MatchingHead
<1>2. mem[c].runtime.cursor = runtime.cursor
  BY <1>1, IndInvParts DEF CoreSound
<1> QED
  BY <1>2 DEF AppendMessages, PersistRuntimeState

(* The stored mailbox cursor never moves back, so no row is disclosed again *)
(* because an overlapping Core wrote an older cursor.                      *)
THEOREM CursorsOnlyAdvance == Spec => CursorNeverRollsBack
<1>1. ASSUME IndInv, [Next]_vars
      PROVE  runtime'.cursor >= runtime.cursor
  <2>1. TypeOK /\ runtime.cursor \in Nat
    BY <1>1 DEF IndInv, TypeOK, RuntimeState
  <2>2. CASE \E c \in Cores, b \in Batches, kind \in PatchKinds : AppendMessages(c, b, kind)
    BY <1>1, <2>1, <2>2, CursorStep
  <2>3. CASE \E c \in Cores : AppendCompaction(c)
    <3>1. runtime.head < nextId
      BY <1>1 DEF IndInv, IdsOrdered
    <3> QED
      BY <2>1, <2>3, <3>1, CompactStep
  <2>4. CASE runtime'.cursor = runtime.cursor
    BY <2>1, <2>4
  <2> QED
    BY <1>1, <2>2, <2>3, <2>4
       DEF Next, CommitStep, CompactionStep, AcquireLock, Load, Crash, DropLock, CommitMessages,
           CommitUnacknowledged, RollBack, CommitRuntimeOnly, PersistRuntimeState,
           BeginCompaction, RecomputeCompaction, AbandonCompaction, CommitCompaction,
           CompactionUnacknowledged, FinishReload, vars
<1>2. IndInv /\ [Next]_vars => [runtime'.cursor >= runtime.cursor]_vars
  BY <1>1
<1> QED
  BY <1>2, Inductive, PTL DEF Spec, CursorNeverRollsBack

-----------------------------------------------------------------------------
(* AgentLedger implements LedgerHistory.                                   *)

(* How far each Core has read is the only part of the mapping that is not   *)
(* a variable: a step changes it for the Core that takes the step.         *)
LEMMA SeenStep ==
    ASSUME TypeOK, NEW c \in Cores,
           \A d \in Cores \ {c} : mem'[d] = mem[d] /\ plan'[d] = plan[d] /\ pc'[d] = pc[d]
    PROVE  Seen' = [Seen EXCEPT ![c] = Seen'[c]]
<1>1. \A d \in Cores \ {c} : Seen'[d] = Seen[d]
  BY DEF Seen
<1>2. Seen = [d \in Cores |-> Seen[d]] /\ Seen' = [d \in Cores |-> Seen'[d]]
  BY DEF Seen
<1> QED
  BY <1>1, <1>2

(* The new entries of a batch bring every result with its call.            *)
LEMMA BatchIsWhole ==
    ASSUME NEW b \in Batches, NEW first \in Nat \ {0}, first + Len(b) - 1 <= MaxId
    PROVE  History!WholeBatch(NewEntries(b, first))
BY NewGroups DEF History!WholeBatch

(* A step that reads canonical state, or forgets what was read.            *)
LEMMA ReadOrForget ==
    ASSUME TypeOK, NEW c \in Cores,
           \A d \in Cores \ {c} : mem'[d] = mem[d] /\ plan'[d] = plan[d] /\ pc'[d] = pc[d],
           ledger' = ledger, runtime'.head = runtime.head, runtime'.cursor = runtime.cursor,
           Seen'[c] = runtime.head \/ Seen'[c] \in 0..Seen[c]
    PROVE  History!Next
<1>1. Seen' = [Seen EXCEPT ![c] = Seen'[c]]
  BY SeenStep
<1>2. CASE Seen'[c] = runtime.head
  BY <1>1, <1>2 DEF History!Next, History!Observe
<1>3. CASE Seen'[c] \in 0..Seen[c]
  BY <1>1, <1>3 DEF History!Next, History!Forget
<1> QED
  BY <1>2, <1>3

(* A step that appends.                                                    *)
LEMMA AppendExtends ==
    ASSUME TypeOK, IdsOrdered, NEW c \in Cores,
           \A d \in Cores \ {c} : mem'[d] = mem[d] /\ plan'[d] = plan[d] /\ pc'[d] = pc[d],
           Seen[c] = runtime.head,
           NEW new, new \subseteq Entry,
           ledger' = ledger \cup new,
           \A e \in new : e.id > runtime.head /\ e.id <= runtime'.head,
           \E e \in new : e.id = runtime'.head,
           runtime'.head > runtime.head,
           History!WholeBatch(new),
           runtime'.cursor \in {runtime.cursor, runtime.cursor + 1},
           Seen'[c] \in 0..runtime'.head
    PROVE  History!Next
<1>1. Seen' = [Seen EXCEPT ![c] = Seen'[c]]
  BY SeenStep
<1>2. \A e \in ledger : e.id <= runtime.head /\ e.id \in Nat
  BY EntryFacts DEF IdsOrdered
<1>3. runtime.head \in Nat /\ \A e \in new : e.id \in Nat
  BY HeadsTyped, BoundAssumption DEF Entry, Ids
<1>4. \A e \in new : e \notin ledger
  BY <1>2, <1>3
<1>5. ledger' \ ledger = new
  BY <1>4
<1>6. History!Extend(c)
  BY <1>1, <1>5 DEF History!Extend
<1> QED
  BY <1>6 DEF History!Next

(* Every step of the ledger is a step of the linear history, or none.       *)
LEMMA HistoryStep ==
    ASSUME IndInv, [Next]_vars
    PROVE  [History!Next]_(History!hvars)
<1>0. /\ TypeOK /\ IdsOrdered /\ runtime.head \in Nat /\ nextId \in Nat \ {0}
      /\ runtime.head < nextId
      /\ \A c \in Cores : /\ mem[c].runtime.head \in Nat /\ plan[c].head \in Nat
                         /\ CoreSound(c)
      /\ mem \in [Cores -> [runtime : RuntimeState, view : View]]
      /\ pc \in [Cores -> {"down", "starting", "idle", "compacting", "reloading"}]
      /\ plan \in [Cores -> Plan]
  BY IndInvParts, HeadsTyped DEF TypeOK, LedgerShape, IdsOrdered
<1>s. \A c \in Cores :
          /\ pc[c] = "compacting" => Seen[c] = plan[c].head
          /\ pc[c] # "compacting" => Seen[c] = mem[c].runtime.head
          /\ pc'[c] = "compacting" => Seen'[c] = plan'[c].head
          /\ pc'[c] # "compacting" => Seen'[c] = mem'[c].runtime.head
  BY DEF Seen
<1> DEFINE Others(c) ==
        \A d \in Cores \ {c} : mem'[d] = mem[d] /\ plan'[d] = plan[d] /\ pc'[d] = pc[d]
<1> DEFINE Stored == ledger' = ledger /\ runtime'.head = runtime.head
                        /\ runtime'.cursor = runtime.cursor
<1>1. ASSUME NEW c \in Cores, AcquireLock(c)
      PROVE  History!Next
  <2>1. Others(c) /\ Stored /\ Seen'[c] = Seen[c] /\ Seen[c] \in Nat
    BY <1>0, <1>1, <1>s DEF AcquireLock
  <2> QED
    BY <1>0, <2>1, ReadOrForget
<1>2. ASSUME NEW c \in Cores, Load(c)
      PROVE  History!Next
  <2>1. Others(c) /\ Stored /\ Seen'[c] = runtime.head
    BY <1>0, <1>2, <1>s DEF Load
  <2> QED
    BY <1>0, <2>1, ReadOrForget
<1>3. ASSUME NEW c \in Cores, Crash(c)
      PROVE  History!Next
  <2>1. Others(c) /\ Stored /\ Seen'[c] = 0 /\ Seen[c] \in Nat
    BY <1>0, <1>3, <1>s DEF Crash, EmptyMemory
  <2> QED
    BY <1>0, <2>1, ReadOrForget
<1>4. ASSUME NEW c \in Cores, DropLock(c)
      PROVE  UNCHANGED History!hvars
  BY <1>4 DEF DropLock, History!hvars, Seen
<1>5. ASSUME NEW c \in Cores, NEW b \in Batches, NEW kind \in PatchKinds,
             AppendMessages(c, b, kind), Others(c), pc[c] = "idle", pc'[c] = "idle",
             mem'[c].runtime = runtime' \/ mem'[c] = mem[c]
      PROVE  History!Next
  <2> DEFINE new == NewEntries(b, nextId)
  <2>1. /\ mem[c].runtime.head = runtime.head
        /\ new \subseteq Entry
        /\ \A e \in new : e.id > runtime.head /\ e.id <= runtime'.head
        /\ \E e \in new : e.id = runtime'.head
        /\ ledger' = ledger \cup new
        /\ runtime' \in RuntimeState
        /\ runtime'.head > runtime.head
    BY <1>0, <1>5, AppendStep
  <2>2. History!WholeBatch(new)
    BY <1>0, <1>5, BatchIsWhole DEF AppendMessages
  <2>3. runtime'.cursor \in {runtime.cursor, runtime.cursor + 1}
    BY <1>5, CursorStep
  <2>4. Seen[c] = runtime.head
    BY <1>5, <1>s, <2>1
  <2>5. Seen'[c] \in 0..runtime'.head
    <3>1. runtime'.head \in Nat
      BY <2>1, BoundAssumption DEF RuntimeState
    <3>2. Seen'[c] = mem'[c].runtime.head
      BY <1>5, <1>s
    <3> QED
      BY <1>0, <1>5, <2>1, <3>1, <3>2
  <2> HIDE DEF new
  <2> QED
    BY <1>0, <1>5, <2>1, <2>2, <2>3, <2>4, <2>5, AppendExtends
<1>6. ASSUME NEW c \in Cores, NEW b \in Batches, NEW kind \in PatchKinds,
             CommitMessages(c, b, kind) \/ CommitUnacknowledged(c, b, kind)
      PROVE  History!Next
  <2>1. AppendMessages(c, b, kind) /\ Others(c) /\ pc[c] = "idle" /\ pc'[c] = "idle"
    BY <1>0, <1>6 DEF CommitMessages, CommitUnacknowledged
  <2>2. mem'[c].runtime = runtime' \/ mem'[c] = mem[c]
    BY <1>0, <1>6 DEF CommitMessages, CommitUnacknowledged, InstallCommit
  <2> QED
    BY <1>5, <2>1, <2>2
<1>7. ASSUME NEW c \in Cores, NEW b \in Batches, NEW k \in 1..Len(b), RollBack(c, k)
      PROVE  UNCHANGED History!hvars
  BY <1>7 DEF RollBack, History!hvars, Seen
<1>8. ASSUME NEW c \in Cores, CommitRuntimeOnly(c)
      PROVE  History!Next
  <2>1. /\ Others(c) /\ pc[c] = "idle" /\ pc'[c] = "idle" /\ ledger' = ledger
        /\ runtime' = PersistRuntimeState(mem[c].runtime, "continuity", runtime.head)
        /\ mem'[c] = InstallCommit(mem[c], {}, runtime')
    BY <1>0, <1>8 DEF CommitRuntimeOnly
  <2>2. Stored /\ mem'[c].runtime.head = runtime.head
    BY <2>1 DEF PersistRuntimeState, InstallCommit
  <2>3. Seen'[c] = runtime.head
    BY <1>s, <2>1, <2>2
  <2> QED
    BY <1>0, <2>1, <2>2, <2>3, ReadOrForget
<1>9. ASSUME NEW c \in Cores, NEW cut \in 0..MaxId,
             BeginCompaction(c, cut) \/ RecomputeCompaction(c, cut)
      PROVE  History!Next
  <2>1. /\ Others(c) /\ Stored /\ pc'[c] = "compacting"
        /\ plan'[c] = Prepare(cut, 1) \/ plan'[c] = Prepare(cut, 2)
    BY <1>0, <1>9 DEF BeginCompaction, RecomputeCompaction
  <2>2. Seen'[c] = runtime.head
    BY <1>s, <2>1 DEF Prepare
  <2> QED
    BY <1>0, <2>1, <2>2, ReadOrForget
<1>10. ASSUME NEW c \in Cores, NEW k \in {0, 1}, AbandonCompaction(c, k)
       PROVE  History!Next
  <2>1. /\ Others(c) /\ Stored /\ pc[c] = "compacting" /\ pc'[c] = "idle" /\ mem' = mem
    BY <1>0, <1>10 DEF AbandonCompaction
  <2>2. mem[c].runtime.head <= plan[c].head
    BY <1>0, <2>1 DEF CoreSound, CandidateSound
  <2>3. Seen'[c] \in 0..Seen[c]
    BY <1>0, <1>s, <2>1, <2>2
  <2> QED
    BY <1>0, <2>1, <2>3, ReadOrForget
<1>11. ASSUME NEW c \in Cores, CommitCompaction(c) \/ CompactionUnacknowledged(c)
       PROVE  History!Next
  <2> DEFINE new == {CompactionEntry(plan[c], nextId)}
  <2>1. /\ AppendCompaction(c) /\ Others(c) /\ pc[c] = "compacting" /\ pc'[c] # "compacting"
        /\ mem'[c].runtime = runtime' \/ mem'[c] = mem[c]
    BY <1>0, <1>11 DEF CommitCompaction, CompactionUnacknowledged
  <2>2. /\ plan[c].head = runtime.head
        /\ new \subseteq Entry
        /\ \A e \in new : e.id = nextId /\ e.role = "compaction"
        /\ new # {}
        /\ ledger' = ledger \cup new
        /\ runtime'.head = nextId
        /\ runtime'.cursor = runtime.cursor
    BY <1>0, <2>1, CompactStep
  <2>3. History!WholeBatch(new)
    BY <2>2 DEF History!WholeBatch
  <2> HIDE DEF new
  <2>4. Seen[c] = runtime.head
    BY <1>s, <2>1, <2>2
  <2>5. Seen'[c] \in 0..runtime'.head
    <3>1. Seen'[c] = mem'[c].runtime.head
      BY <1>s, <2>1
    <3>2. mem[c].runtime.head <= runtime.head
      BY <1>0 DEF CoreSound
    <3> QED
      BY <1>0, <2>1, <2>2, <3>1, <3>2
  <2>6. /\ \A e \in new : e.id > runtime.head /\ e.id <= runtime'.head
        /\ \E e \in new : e.id = runtime'.head
        /\ runtime'.head > runtime.head
    BY <1>0, <2>2
  <2> QED
    BY <1>0, <2>1, <2>2, <2>3, <2>4, <2>5, <2>6, AppendExtends
<1>12. ASSUME NEW c \in Cores, NEW readable \in BOOLEAN, FinishReload(c, readable)
       PROVE  History!Next
  <2>1. /\ Others(c) /\ Stored /\ pc[c] = "reloading" /\ pc'[c] = "idle"
        /\ mem'[c] = mem[c] \/ mem'[c].runtime = runtime
    BY <1>0, <1>12 DEF FinishReload
  <2>2. Seen'[c] = runtime.head \/ Seen'[c] \in 0..Seen[c]
    BY <1>0, <1>s, <2>1
  <2> QED
    BY <1>0, <2>1, <2>2, ReadOrForget
<1>13. CASE UNCHANGED vars
  BY <1>13 DEF vars, History!hvars, Seen
<1> QED
  BY <1>1, <1>2, <1>3, <1>4, <1>6, <1>7, <1>8, <1>9, <1>10, <1>11, <1>12, <1>13
     DEF Next, CommitStep, CompactionStep

(* Overlapping, crashing and racing Cores build one linear history.        *)
THEOREM LinearHistory == Spec => ImplementsHistory
<1>1. Init => History!Init
  <2> SUFFICES ASSUME Init
               PROVE  History!Init
    OBVIOUS
  <2>1. ledger = {} /\ runtime.head = 0 /\ runtime.cursor = 0
    BY DEF Init, EmptyMemory
  <2>2. Seen = [c \in Cores |-> 0]
    BY DEF Init, EmptyMemory, Seen
  <2> QED
    BY <2>1, <2>2 DEF History!Init
<1>2. IndInv /\ [Next]_vars => [History!Next]_(History!hvars)
  BY HistoryStep
<1> QED
  BY <1>1, <1>2, Inductive, PTL DEF Spec, ImplementsHistory, History!Spec

-----------------------------------------------------------------------------
(* One live Core and reliable acknowledgements.                            *)

(* The advisory lock excludes a second Core, a running Core's control state *)
(* is the stored one, and a candidate stays fresh until it is committed.   *)
SoloInv ==
    /\ IndInv
    /\ \A c \in Cores : pc[c] # "down" => lock = c
    /\ \A c \in Cores :
          pc[c] \in {"idle", "compacting", "reloading"} => mem[c].runtime = runtime
    /\ \A c \in Cores :
          pc[c] = "compacting" => /\ plan[c].head = runtime.head
                                  /\ plan[c].continuity = runtime.continuity + 1

(* With one lock that holds and answers that arrive, every step keeps the   *)
(* stronger invariant and the continuity revision never goes back.          *)
LEMMA SoloStep ==
    ASSUME LockMayDrop = FALSE, AckMayBeLost = FALSE, SoloInv, [Next]_vars
    PROVE  SoloInv' /\ [runtime'.continuity >= runtime.continuity]_vars
<1> DEFINE Solo(c) ==
        /\ pc[c] # "down" => lock = c
        /\ pc[c] \in {"idle", "compacting", "reloading"} => mem[c].runtime = runtime
        /\ pc[c] = "compacting" => /\ plan[c].head = runtime.head
                                   /\ plan[c].continuity = runtime.continuity + 1
<1>0. /\ TypeOK /\ runtime.head < nextId /\ IndInv' /\ \A c \in Cores : Solo(c)
      /\ pc \in [Cores -> {"down", "starting", "idle", "compacting", "reloading"}]
      /\ mem \in [Cores -> [runtime : RuntimeState, view : View]]
      /\ plan \in [Cores -> Plan]
      /\ runtime.continuity \in Nat
      /\ NoCore \notin Cores
  <2>1. IndInv
    BY DEF SoloInv
  <2> QED
    BY <2>1, IndStep, CoreAssumption, BoundAssumption
       DEF SoloInv, IndInv, TypeOK, IdsOrdered, RuntimeState
<1>g. ASSUME \A c \in Cores : Solo(c)', runtime'.continuity >= runtime.continuity
      PROVE  SoloInv' /\ [runtime'.continuity >= runtime.continuity]_vars
  BY <1>0, <1>g DEF SoloInv
<1>m. ASSUME NEW c \in Cores, pc[c] # "down"
      PROVE  \A d \in Cores \ {c} : pc[d] = "down"
  BY <1>0, <1>m
<1>1. ASSUME NEW c \in Cores, AcquireLock(c)
      PROVE  SoloInv' /\ [runtime'.continuity >= runtime.continuity]_vars
  <2>1. /\ lock = NoCore /\ lock' = c /\ pc' = [pc EXCEPT ![c] = "starting"]
        /\ runtime' = runtime /\ mem' = mem /\ plan' = plan
    BY <1>1 DEF AcquireLock
  <2>2. \A d \in Cores : pc[d] = "down"
    BY <1>0, <2>1
  <2> QED
    BY <1>0, <1>g, <2>1, <2>2
<1>2. ASSUME NEW c \in Cores, Load(c)
      PROVE  SoloInv' /\ [runtime'.continuity >= runtime.continuity]_vars
  <2>1. /\ lock' = lock /\ pc' = [pc EXCEPT ![c] = "idle"] /\ runtime' = runtime
        /\ plan' = plan /\ mem' = [mem EXCEPT ![c] =
                                [runtime |-> runtime, view |-> Project(ledger)]]
        /\ pc[c] = "starting"
    BY <1>2 DEF Load
  <2>2. \A d \in Cores \ {c} : pc[d] = "down"
    BY <1>m, <2>1
  <2> QED
    BY <1>0, <1>g, <2>1, <2>2
<1>3. ASSUME NEW c \in Cores, Crash(c)
      PROVE  SoloInv' /\ [runtime'.continuity >= runtime.continuity]_vars
  <2>1. /\ pc[c] # "down" /\ pc' = [pc EXCEPT ![c] = "down"] /\ runtime' = runtime
    BY <1>3 DEF Crash
  <2>2. \A d \in Cores : pc'[d] = "down"
    BY <1>0, <1>m, <2>1
  <2> QED
    BY <1>0, <1>g, <2>1, <2>2
<1>4. ASSUME NEW c \in Cores, DropLock(c)
      PROVE  FALSE
  BY <1>4 DEF DropLock
<1>5. ASSUME NEW c \in Cores, NEW b \in Batches, NEW kind \in PatchKinds,
             CommitMessages(c, b, kind)
      PROVE  SoloInv' /\ [runtime'.continuity >= runtime.continuity]_vars
  <2>1. /\ pc[c] = "idle" /\ pc' = pc /\ lock' = lock /\ plan' = plan
        /\ mem' = [mem EXCEPT ![c] = InstallCommit(mem[c], NewEntries(b, nextId), runtime')]
        /\ runtime' = PersistRuntimeState(mem[c].runtime, kind, nextId + Len(b) - 1)
    BY <1>5 DEF CommitMessages, AppendMessages
  <2>2. mem'[c].runtime = runtime'
    BY <1>0, <2>1 DEF InstallCommit
  <2>3. \A d \in Cores \ {c} : pc[d] = "down"
    BY <1>m, <2>1
  <2>4. mem[c].runtime = runtime
    BY <1>0, <2>1
  <2>5. runtime'.continuity >= runtime.continuity
    BY <1>0, <2>1, <2>4 DEF PersistRuntimeState
  <2> QED
    BY <1>0, <1>g, <2>1, <2>2, <2>3, <2>5
<1>6. ASSUME NEW c \in Cores, NEW b \in Batches, NEW kind \in PatchKinds,
             CommitUnacknowledged(c, b, kind)
      PROVE  FALSE
  BY <1>6 DEF CommitUnacknowledged
<1>7. ASSUME NEW c \in Cores, NEW b \in Batches, NEW k \in 1..Len(b), RollBack(c, k)
      PROVE  SoloInv' /\ [runtime'.continuity >= runtime.continuity]_vars
  BY <1>0, <1>g, <1>7 DEF RollBack
<1>8. ASSUME NEW c \in Cores, CommitRuntimeOnly(c)
      PROVE  SoloInv' /\ [runtime'.continuity >= runtime.continuity]_vars
  <2>1. /\ pc[c] = "idle" /\ pc' = pc /\ lock' = lock /\ plan' = plan
        /\ mem' = [mem EXCEPT ![c] = InstallCommit(mem[c], {}, runtime')]
        /\ runtime' = PersistRuntimeState(mem[c].runtime, "continuity", runtime.head)
    BY <1>8 DEF CommitRuntimeOnly
  <2>2. mem'[c].runtime = runtime'
    BY <1>0, <2>1 DEF InstallCommit
  <2>3. \A d \in Cores \ {c} : pc[d] = "down"
    BY <1>m, <2>1
  <2>4. mem[c].runtime = runtime
    BY <1>0, <2>1
  <2>5. runtime'.continuity >= runtime.continuity
    BY <1>0, <2>1, <2>4 DEF PersistRuntimeState
  <2> QED
    BY <1>0, <1>g, <2>1, <2>2, <2>3, <2>5
<1>9. ASSUME NEW c \in Cores, NEW cut \in 0..MaxId, BeginCompaction(c, cut)
      PROVE  SoloInv' /\ [runtime'.continuity >= runtime.continuity]_vars
  <2>1. /\ pc[c] = "idle" /\ pc' = [pc EXCEPT ![c] = "compacting"] /\ lock' = lock
        /\ mem' = mem /\ runtime' = runtime /\ plan' = [plan EXCEPT ![c] = Prepare(cut, 1)]
    BY <1>9 DEF BeginCompaction
  <2>2. Prepare(cut, 1).head = runtime.head
        /\ Prepare(cut, 1).continuity = runtime.continuity + 1
    BY DEF Prepare
  <2>3. \A d \in Cores \ {c} : pc[d] = "down"
    BY <1>m, <2>1
  <2> QED
    BY <1>0, <1>g, <2>1, <2>2, <2>3
<1>10. ASSUME NEW c \in Cores, NEW cut \in 0..MaxId, RecomputeCompaction(c, cut)
       PROVE  FALSE
  BY <1>0, <1>10 DEF RecomputeCompaction, MatchingHead
<1>11. ASSUME NEW c \in Cores, NEW k \in {0, 1}, AbandonCompaction(c, k)
       PROVE  SoloInv' /\ [runtime'.continuity >= runtime.continuity]_vars
  BY <1>0, <1>g, <1>11 DEF AbandonCompaction
<1>12. ASSUME NEW c \in Cores, CommitCompaction(c)
       PROVE  SoloInv' /\ [runtime'.continuity >= runtime.continuity]_vars
  <2>1. /\ pc[c] = "compacting" /\ pc' = [pc EXCEPT ![c] = "reloading"] /\ lock' = lock
        /\ mem' = [mem EXCEPT ![c] = [runtime |-> runtime',
                       view |-> [summary |-> {nextId}, messages |-> plan[c].tail]]]
        /\ runtime' = [runtime EXCEPT !.head = nextId, !.continuity = plan[c].continuity]
    BY <1>12 DEF CommitCompaction, AppendCompaction
  <2>2. \A d \in Cores \ {c} : pc[d] = "down"
    BY <1>m, <2>1
  <2>3. runtime \in RuntimeState /\ plan[c].continuity = runtime.continuity + 1
    BY <1>0, <2>1 DEF TypeOK
  <2>4. runtime'.continuity >= runtime.continuity
    BY <1>0, <2>1, <2>3 DEF RuntimeState
  <2> QED
    BY <1>0, <1>g, <2>1, <2>2, <2>4
<1>13. ASSUME NEW c \in Cores, CompactionUnacknowledged(c)
       PROVE  FALSE
  BY <1>13 DEF CompactionUnacknowledged
<1>14. ASSUME NEW c \in Cores, NEW readable \in BOOLEAN, FinishReload(c, readable)
       PROVE  SoloInv' /\ [runtime'.continuity >= runtime.continuity]_vars
  <2>1. /\ pc[c] = "reloading" /\ pc' = [pc EXCEPT ![c] = "idle"] /\ lock' = lock
        /\ runtime' = runtime
        /\ \/ mem' = mem
           \/ mem' = [mem EXCEPT ![c] = [runtime |-> runtime, view |-> Project(ledger)]]
    BY <1>14 DEF FinishReload
  <2>2. \A d \in Cores \ {c} : pc[d] = "down"
    BY <1>m, <2>1
  <2>3. mem'[c].runtime = runtime
    BY <1>0, <2>1
  <2> QED
    BY <1>0, <1>g, <2>1, <2>2, <2>3
<1>15. CASE UNCHANGED vars
  BY <1>0, <1>g, <1>15 DEF vars
<1> QED
  BY <1>1, <1>2, <1>3, <1>4, <1>5, <1>6, <1>7, <1>8, <1>9, <1>10, <1>11, <1>12, <1>13, <1>14,
     <1>15 DEF Next, CommitStep, CompactionStep

(* It holds at the start.                                                   *)
LEMMA SoloInit == Init => SoloInv
<1>1. Init => IndInv
  BY IndInit
<1>2. Init => \A c \in Cores : pc[c] = "down"
  BY DEF Init
<1> QED
  BY <1>1, <1>2 DEF SoloInv

(* While the lock excludes a second Core and no acknowledgement is lost, a  *)
(* Core between two operations holds exactly what is stored: a failed       *)
(* commit or an abandoned compaction left nothing behind in its memory.    *)
THEOREM IdleCoresMirror ==
    ASSUME LockMayDrop = FALSE, AckMayBeLost = FALSE
    PROVE  Spec => []IdleCoreMirrorsLedger
<1>1. SoloInv => IdleCoreMirrorsLedger
  <2> SUFFICES ASSUME SoloInv, NEW c \in Cores, pc[c] = "idle"
               PROVE  mem[c] = [runtime |-> runtime, view |-> Project(ledger)]
    BY DEF IdleCoreMirrorsLedger
  <2>1. mem[c].runtime = runtime
    BY DEF SoloInv
  <2>2. Prefix(ledger, runtime.head) = ledger
    BY PrefixWhole DEF SoloInv, IndInv, IdsOrdered
  <2>3. mem[c].view = Project(ledger)
    BY <2>1, <2>2 DEF SoloInv, IndInv, ViewIsPrefixProjection
  <2>4. mem[c] \in [runtime : RuntimeState, view : View]
    BY DEF SoloInv, IndInv, TypeOK
  <2> QED
    BY <2>1, <2>3, <2>4
<1>2. SoloInv /\ [Next]_vars => SoloInv'
  BY SoloStep
<1> QED
  BY <1>1, <1>2, SoloInit, PTL DEF Spec

(* Under the same assumptions no commit overwrites a newer continuity,      *)
(* although a runtime-only commit does not move the head.                  *)
THEOREM ContinuityOnlyAdvances ==
    ASSUME LockMayDrop = FALSE, AckMayBeLost = FALSE
    PROVE  Spec => ContinuityNeverRollsBack
<1>1. SoloInv /\ [Next]_vars => SoloInv' /\ [runtime'.continuity >= runtime.continuity]_vars
  BY SoloStep
<1> QED
  BY <1>1, SoloInit, PTL DEF Spec, ContinuityNeverRollsBack
=============================================================================
