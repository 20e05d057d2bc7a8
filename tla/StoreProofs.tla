------------------------------ MODULE StoreProofs ------------------------------
(***************************************************************************)
(* What the Agent keeps in files: the notebook and the plain files of its  *)
(* workspace (agent/workspace/), and the website's repository              *)
(* (agent/tools/website.ts).  First the library's extremes and sorted      *)
(* listings, then the two stores, then FilesAreKept of the behaviours that *)
(* exercise one store at a time.  Then the paper account                   *)
(* (agent/tools/crypto-paper.ts): sums of its rows, and PaperAccounted.     *)
(* Last the memory (agent/memory-store.ts) and RememberedIsKept.            *)
(***************************************************************************)
EXTENDS MCDurableStores, AgentLedgerProofs, FiniteSetTheorems, SequenceTheorems, WellFoundedInduction, TLAPS

(* A nonempty set of natural numbers has a least element, which is its     *)
(* minimum.                                                                *)
LEMMA MinIsLeast ==
    ASSUME NEW S, S \subseteq Nat, S # {}
    PROVE  Min(S) \in S /\ \A y \in S : Min(S) <= y
<1> DEFINE R == OpToRel(<, Nat)
<1>1. PICK x \in S : \A y \in S : <<y, x>> \notin R
  <2>1. IsWellFoundedOn(R, Nat) BY NatLessThanWellFounded
  <2> HIDE DEF R
  <2> QED BY <2>1, WFMin, Zenon
<1>2. \A y \in S : ~(y < x) BY <1>1 DEF OpToRel
<1>3. \A y \in S : x <= y BY <1>2
<1> QED BY <1>3 DEF Min

(* A bounded one has a greatest element, which is its maximum.             *)
LEMMA MaxIsGreatest ==
    ASSUME NEW N \in Nat, NEW S, S \subseteq 0..N, S # {}
    PROVE  Max(S) \in S /\ \A y \in S : y <= Max(S)
<1> DEFINE U == {k \in Nat : \A y \in S : y <= k}
           n == Min(U)
<1>1. U \subseteq Nat /\ N \in U OBVIOUS
<1>2. n \in U /\ \A k \in U : n <= k
  <2> HIDE DEF U
  <2> QED BY <1>1, MinIsLeast
<1> HIDE DEF n
<1>3. n \in S
  <2> SUFFICES ASSUME n \notin S PROVE FALSE OBVIOUS
  <2>1. \A y \in S : y <= n - 1 BY <1>2
  <2>2. PICK y \in S : TRUE OBVIOUS
  <2>3. n - 1 \in U BY <1>2, <2>1, <2>2
  <2> QED BY <1>2, <2>3
<1> QED BY <1>2, <1>3 DEF Max

-----------------------------------------------------------------------------
(* Files and records: the inductive invariant of the workspace.            *)

(* The months are numbered from the first.                                 *)
LEMMA MonthsAreNumbered == \E k \in Nat \ {0} : Months = 1..k
<1>1. Cardinality(Months) \in Nat BY NotebookAssumption, FS_CardinalityType
<1>2. Cardinality(Months) # 0 BY <1>1, NotebookAssumption
<1> QED BY <1>1, <1>2, NotebookAssumption

(* SetToSeq lists a finite set, each element once.                         *)
LEMMA SetToSeqLists ==
    ASSUME NEW S, IsFiniteSet(S)
    PROVE  SetToSeq(S) \in Seq(S) /\ {SetToSeq(S)[i] : i \in 1..Len(SetToSeq(S))} = S
<1> DEFINE n == Cardinality(S)
           s == SetToSeq(S)
<1>1. n \in Nat BY FS_CardinalityType
<1>2. \E f \in [1..n -> S] : IsInjective(f)
  <2>1. IsFiniteSet(1..n) /\ Cardinality(1..n) = n BY <1>1, FS_Interval
  <2>2. ExistsBijection(1..n, S) BY <2>1, FS_SameCardinalityBij
  <2> QED BY <2>2 DEF ExistsBijection, Bijection, Injection
<1>3. s \in [1..n -> S] /\ IsInjective(s) BY <1>2 DEF SetToSeq
<1>4. s \in Surjection(1..n, S)
  <2>1. IsFiniteSet(1..n) /\ Cardinality(1..n) = n BY <1>1, FS_Interval
  <2>2. s \in Injection(1..n, S) BY <1>3 DEF Injection
  <2> HIDE DEF s
  <2>3. Cardinality(1..n) = Cardinality(S) <=> s \in Surjection(1..n, S)
    BY <2>2, FS_Injection
  <2> QED BY <2>1, <2>3
<1>5. s \in Seq(S) /\ Len(s) = n
  <2> HIDE DEF s, n
  <2> QED BY <1>1, <1>3
<1> HIDE DEF s
<1>6. {s[i] : i \in 1..n} = S
  <2> HIDE DEF n
  <2> QED BY <1>4 DEF Surjection
<1> QED BY <1>5, <1>6 DEF s

NoteRecord ==
    [id : Topics \X Nat, topic : Topics, month : Months, note : Notes, created : Nat, updated : Nat]

NotesOK ==
    /\ notes \subseteq NoteRecord /\ today \in Nat /\ begun \in Nat
    /\ promised \in [Topics -> SUBSET NoteRecord] /\ clean \subseteq Topics
    /\ \A n \in notes : n.updated <= today

(* No two records of a topic were last written at the same time.           *)
UpdatesDiffer == \A n, o \in notes : n.topic = o.topic /\ n.updated = o.updated => n = o

LastWritten(n) == \A o \in notes : o.topic = n.topic => o.updated <= n.updated
PromiseHolds ==
    \A t \in Topics : promised[t] # {} =>
        \E n \in notes : n.topic = t /\ n \in promised[t] /\ LastWritten(n)
CleanIsSingle ==
    \A t \in clean : \E n \in notes : n.topic = t /\ \A o \in notes : o.topic = t => o = n

(* A checkpoint in progress: its record is later than any other of the     *)
(* topic, its own file comes first, and the others hold what is left of    *)
(* the topic.                                                              *)
RewriteGoesOn(topic, record, left) ==
    /\ topic \in Topics \ clean /\ record \in NoteRecord
    /\ record.topic = topic /\ record.updated <= today /\ record \in promised[topic]
    /\ left \in Seq(Months) /\ left # <<>>
    /\ \E n \in notes : n.topic = topic
    /\ \A n \in notes : n.topic = topic /\ n # record =>
          n.updated < record.updated /\ \E i \in 1..Len(left) : left[i] = n.month
    /\ record \in notes => \A i \in 1..Len(left) : left[i] # record.month
    /\ record \notin notes => left[1] = record.month /\ \A i \in 2..Len(left) : left[i] # record.month
CheckpointOK ==
    checkpoint # NoCheckpoint => RewriteGoesOn(checkpoint.topic, checkpoint.record, checkpoint.left)

TopicsInLimit ==
    IsFiniteSet(CurrentTopics) /\ Cardinality(CurrentTopics \cap GeneralTopics) <= TopicLimit

NotebookInd ==
    NotesOK /\ UpdatesDiffer /\ PromiseHolds /\ CleanIsSingle /\ CheckpointOK /\ TopicsInLimit

(* A topic with records has a latest one, and only that one is its winner. *)
LEMMA WinnerIsLatest ==
    ASSUME NotesOK, UpdatesDiffer, NEW t, Matches(notes, t) # {}
    PROVE  /\ Winner(notes, t) \in notes /\ Winner(notes, t).topic = t /\ LastWritten(Winner(notes, t))
           /\ \A n \in notes : n.topic = t /\ LastWritten(n) => n = Winner(notes, t)
<1> DEFINE M == Matches(notes, t)
           times == {n.updated : n \in M}
<1>1. times \subseteq 0..today /\ times # {} BY DEF NotesOK, NoteRecord, Matches
<1>2. PICK n \in M : \A o \in M : o.updated <= n.updated
  <2>1. Max(times) \in times /\ \A y \in times : y <= Max(times)
    <3> HIDE DEF times
    <3> QED BY <1>1, MaxIsGreatest DEF NotesOK
  <2> QED BY <2>1
<1>3. M \subseteq notes /\ \A o \in notes : o.topic = t => o \in M BY DEF Matches
<1>4. \A o \in M : Newer(n, o)
  <2> SUFFICES ASSUME NEW o \in M PROVE Newer(n, o) OBVIOUS
  <2>1. o.updated \in Nat /\ n.updated \in Nat /\ n.created \in Nat BY <1>3 DEF NotesOK, NoteRecord
  <2>2. o.updated = n.updated => o = n BY <1>3 DEF UpdatesDiffer, Matches
  <2>3. o.updated <= n.updated BY <1>2
  <2>4. CASE o.updated = n.updated BY <2>1, <2>2, <2>4 DEF Newer
  <2>5. CASE o.updated # n.updated BY <2>1, <2>3, <2>5 DEF Newer
  <2> QED BY <2>4, <2>5
<1> DEFINE w == Winner(notes, t)
<1>5. w \in M /\ \A o \in M : Newer(w, o) BY <1>4 DEF Winner
<1> HIDE DEF w
<1>6. \A m \in M : (\A o \in M : o.updated <= m.updated) => m = w
  <2> SUFFICES ASSUME NEW m \in M, \A o \in M : o.updated <= m.updated PROVE m = w OBVIOUS
  <2>1. m.updated \in Nat /\ w.updated \in Nat BY <1>3, <1>5 DEF NotesOK, NoteRecord
  <2>2. w.updated <= m.updated /\ m.updated <= w.updated BY <1>5, <2>1 DEF Newer
  <2>3. w.updated = m.updated BY <2>1, <2>2
  <2> QED BY <1>3, <1>5, <2>3 DEF UpdatesDiffer, Matches
<1>7. n = w BY <1>2, <1>6
<1>8. LastWritten(w) /\ w \in notes /\ w.topic = t BY <1>2, <1>3, <1>5, <1>7 DEF LastWritten, Matches
<1>9. \A m \in notes : m.topic = t /\ LastWritten(m) => m = w BY <1>3, <1>6 DEF LastWritten, Matches
<1> QED BY <1>8, <1>9 DEF w

(* Files of an older version hold one record per month.                    *)
LEMMA WorkspaceStarts == WorkspaceInit => NotebookInd
<1> SUFFICES ASSUME WorkspaceInit PROVE NotebookInd OBVIOUS
<1>1. PICK topic \in Topics, months \in SUBSET Months, note \in Notes : notes = Legacy(topic, months, note)
  BY DEF WorkspaceInit
<1>2. PICK k \in Nat \ {0} : Months = 1..k BY MonthsAreNumbered
<1>3. Cardinality(Months) = k BY <1>2, FS_Interval
<1>4. /\ today = 2 * k /\ checkpoint = NoCheckpoint /\ begun = 0
      /\ promised = [t \in Topics |-> {}] /\ clean = {}
  BY <1>3 DEF WorkspaceInit
<1>5. \A n \in notes : \E m \in months :
          n = [id |-> <<topic, m>>, topic |-> topic, month |-> m, note |-> note, created |-> m, updated |-> m]
  BY <1>1 DEF Legacy, Record
<1>6. NotesOK
  <2>1. \A n \in notes : n \in NoteRecord /\ n.updated <= today BY <1>2, <1>4, <1>5 DEF NoteRecord
  <2>2. today \in Nat /\ promised \in [Topics -> SUBSET NoteRecord] BY <1>2, <1>4
  <2> QED BY <1>4, <2>1, <2>2 DEF NotesOK
<1>7. UpdatesDiffer BY <1>5 DEF UpdatesDiffer
<1>8. CurrentTopics \subseteq {topic} BY <1>5 DEF CurrentTopics
<1>9. TopicsInLimit
  <2>1. IsFiniteSet({topic}) /\ Cardinality({topic}) = 1 BY FS_Singleton
  <2>2. IsFiniteSet(CurrentTopics) BY <1>8, <2>1, FS_Subset
  <2>3. (CurrentTopics \cap GeneralTopics) \in SUBSET {topic} BY <1>8
  <2>4. Cardinality(CurrentTopics \cap GeneralTopics) <= 1 BY <2>1, <2>3, FS_Subset
  <2>5. IsFiniteSet(CurrentTopics \cap GeneralTopics) BY <2>1, <2>3, FS_Subset
  <2>6. Cardinality(CurrentTopics \cap GeneralTopics) \in Nat BY <2>5, FS_CardinalityType
  <2> QED BY <2>2, <2>4, <2>6, NotebookAssumption DEF TopicsInLimit
<1> QED BY <1>4, <1>6, <1>7, <1>9 DEF NotebookInd, PromiseHolds, CleanIsSingle, CheckpointOK

(* A new topic's record is its only one.                                   *)
LEMMA RecordIsCreated ==
    ASSUME NotebookInd, NEW topic \in Topics, NEW note \in Notes, CreateRecord(topic, note)
    PROVE  NotebookInd'
<1>0. PICK record :
         record = Record(<<topic, begun + 100>>, topic, Month(today), note, today + 1, today + 1)
  OBVIOUS
<1> USE DEF NotebookInd
<1>1. /\ notes' = notes \cup {record} /\ today' = today + 1 /\ begun' = begun + 1
      /\ promised' = [promised EXCEPT ![topic] = {record}] /\ clean' = clean \cup {topic}
      /\ checkpoint' = NoCheckpoint
  BY <1>0 DEF CreateRecord, Acknowledged
<1>2. Month(today) \in Months
  <2>1. PICK k \in Nat \ {0} : Months = 1..k BY MonthsAreNumbered
  <2>2. Cardinality(Months) = k BY <2>1, FS_Interval
  <2>3. 1 + (today % k) \in Months BY <2>1 DEF NotesOK
  <2> QED BY <2>2, <2>3 DEF Month
<1>3. record \in NoteRecord /\ record.topic = topic /\ record.updated = today + 1
  BY <1>0, <1>2 DEF Record, NoteRecord, NotesOK
<1>4. \A n \in notes : n.topic # topic BY DEF CreateRecord, Matches
<1>5. \A n \in notes : n.updated \in Nat /\ n.updated <= today BY DEF NotesOK, NoteRecord
<1>6. NotesOK' BY <1>1, <1>3, <1>5 DEF NotesOK
<1>7. UpdatesDiffer' BY <1>1, <1>3, <1>4 DEF UpdatesDiffer
<1>8. \A n \in notes' : n.topic = topic <=> n = record BY <1>1, <1>3, <1>4
<1>9. PromiseHolds'
  <2> SUFFICES ASSUME NEW t \in Topics, promised'[t] # {}
               PROVE  \E n \in notes' : n.topic = t /\ n \in promised'[t] /\ LastWritten(n)'
    BY DEF PromiseHolds
  <2>1. CASE t = topic
    <3>1. LastWritten(record)' BY <1>3, <1>8 DEF LastWritten, NotesOK
    <3> QED BY <1>1, <1>3, <2>1, <3>1 DEF NotesOK
  <2>2. CASE t # topic
    <3>1. PICK n \in notes : n.topic = t /\ n \in promised[t] /\ LastWritten(n)
      BY <1>1, <2>2 DEF PromiseHolds, NotesOK
    <3>2. LastWritten(n)' BY <1>1, <1>3, <2>2, <3>1 DEF LastWritten
    <3> QED BY <1>1, <2>2, <3>1, <3>2 DEF NotesOK
  <2> QED BY <2>1, <2>2
<1>10. CleanIsSingle' BY <1>1, <1>3, <1>4, <1>8 DEF CleanIsSingle
<1>11. TopicsInLimit'
  <2>1. CurrentTopics' = CurrentTopics \cup {topic} /\ topic \notin CurrentTopics
    BY <1>1, <1>3, <1>4 DEF CurrentTopics
  <2>2. IsFiniteSet(CurrentTopics \cap GeneralTopics) BY FS_Subset DEF TopicsInLimit
  <2>3. CASE topic \in GeneralTopics
    <3>1. Cardinality(CurrentTopics \cap GeneralTopics) < TopicLimit BY <2>3 DEF CreateRecord
    <3>2. CurrentTopics' \cap GeneralTopics = (CurrentTopics \cap GeneralTopics) \cup {topic}
      BY <2>1, <2>3
    <3>3. Cardinality(CurrentTopics' \cap GeneralTopics) = Cardinality(CurrentTopics \cap GeneralTopics) + 1
      BY <2>1, <2>2, <3>2, FS_AddElement
    <3>4. Cardinality(CurrentTopics \cap GeneralTopics) \in Nat BY <2>2, FS_CardinalityType
    <3>5. IsFiniteSet(CurrentTopics') BY <2>1, FS_AddElement DEF TopicsInLimit
    <3> QED BY <3>1, <3>3, <3>4, <3>5, NotebookAssumption DEF TopicsInLimit
  <2>4. CASE topic \notin GeneralTopics
    <3>1. CurrentTopics' \cap GeneralTopics = CurrentTopics \cap GeneralTopics BY <2>1, <2>4
    <3>2. IsFiniteSet(CurrentTopics') BY <2>1, FS_AddElement DEF TopicsInLimit
    <3> QED BY <3>1, <3>2 DEF TopicsInLimit
  <2> QED BY <2>3, <2>4
<1> QED BY <1>1, <1>6, <1>7, <1>9, <1>10, <1>11 DEF CheckpointOK

(* Everything but the notebook's files stays with what it is stated of.    *)
LEMMA NotesStay ==
    ASSUME NotebookInd, UNCHANGED <<notes, today, begun, promised, clean>>, CheckpointOK'
    PROVE  NotebookInd'
BY DEF NotebookInd, NotesOK, UpdatesDiffer, PromiseHolds, LastWritten, CleanIsSingle, TopicsInLimit,
   CurrentTopics

(* A checkpoint begins with the winner's file.                             *)
LEMMA RewriteBegins ==
    ASSUME NotebookInd, NEW topic \in Topics, NEW note \in Notes, BeginRewrite(topic, note)
    PROVE  NotebookInd'
<1> USE DEF NotebookInd
<1>1. PICK w : w = Winner(notes, topic) OBVIOUS
<1>2. PICK record : record = [w EXCEPT !.note = note, !.updated = today + 1] OBVIOUS
<1>3. PICK left : left = Rewrites(w.month, FilesOf(topic)) OBVIOUS
<1>4. w \in notes /\ w.topic = topic /\ LastWritten(w) BY <1>1, WinnerIsLatest DEF BeginRewrite
<1>5. /\ w \in NoteRecord /\ record \in NoteRecord
      /\ record.topic = topic /\ record.month = w.month /\ record.updated = today + 1
  <2>1. w \in NoteRecord BY <1>4 DEF NotesOK
  <2>2. today + 1 \in Nat BY DEF NotesOK
  <2> QED BY <1>2, <1>4, <2>1, <2>2 DEF NoteRecord
<1>6. CASE w.note = note /\ Matches(notes, topic) = {w}
  <2>1. /\ UNCHANGED <<notes, today>> /\ begun' = begun + 1
        /\ promised' = [promised EXCEPT ![topic] = {w}] /\ clean' = clean \cup {topic}
        /\ checkpoint' = NoCheckpoint
    BY <1>1, <1>6 DEF BeginRewrite, Acknowledged
  <2>2. NotesOK' BY <1>5, <2>1 DEF NotesOK
  <2>3. \A n : LastWritten(n) <=> LastWritten(n)' BY <2>1 DEF LastWritten
  <2>4. PromiseHolds' BY <1>4, <2>1, <2>3 DEF NotesOK, PromiseHolds
  <2>5. \A o \in notes : o.topic = topic => o = w BY <1>6 DEF Matches
  <2>6. CleanIsSingle' BY <1>4, <2>1, <2>5 DEF CleanIsSingle
  <2> QED BY <2>1, <2>2, <2>4, <2>6 DEF UpdatesDiffer, CheckpointOK, TopicsInLimit, CurrentTopics
<1>7. CASE ~(w.note = note /\ Matches(notes, topic) = {w})
  <2>1. /\ notes' = notes /\ today' = today + 1 /\ begun' = begun + 1
        /\ promised' = [promised EXCEPT ![topic] = {w, record}] /\ clean' = clean \ {topic}
        /\ checkpoint' = [topic |-> topic, note |-> note, record |-> record, left |-> left]
    BY <1>1, <1>2, <1>3, <1>7 DEF BeginRewrite
  <2>2. NotesOK' BY <1>5, <2>1 DEF NotesOK, NoteRecord
  <2>3. \A n : LastWritten(n) <=> LastWritten(n)' BY <2>1 DEF LastWritten
  <2>4. PromiseHolds' BY <1>4, <2>1, <2>3 DEF NotesOK, PromiseHolds
  <2>5. CleanIsSingle' BY <2>1 DEF CleanIsSingle
  <2>6. RewriteGoesOn(topic, record, left)'
    <3> DEFINE rest == SetToSeq(FilesOf(topic) \ {w.month})
    <3>1. PICK k \in Nat \ {0} : Months = 1..k BY MonthsAreNumbered
    <3>2. (FilesOf(topic) \ {w.month}) \in SUBSET Months BY DEF FilesOf, Matches, NotesOK, NoteRecord
    <3>3. IsFiniteSet(FilesOf(topic) \ {w.month}) BY <3>1, <3>2, FS_Interval, FS_Subset
    <3>4. /\ rest \in Seq(FilesOf(topic) \ {w.month})
          /\ {rest[i] : i \in 1..Len(rest)} = FilesOf(topic) \ {w.month}
      BY <3>3, SetToSeqLists
    <3> HIDE DEF rest
    <3>5. rest \in Seq(Months) /\ Len(rest) \in Nat BY <3>2, <3>4, SeqMonotonic, LenProperties
    <3>6. left = <<w.month>> \o rest BY <1>3 DEF Rewrites, rest
    <3>7. w.month \in Months BY <1>5 DEF NoteRecord
    <3>8. /\ left \in Seq(Months) /\ Len(left) = 1 + Len(rest)
          /\ left[1] = w.month /\ \A i \in 2..Len(left) : left[i] = rest[i - 1]
      <4>1. <<w.month>> \in Seq(Months) /\ Len(<<w.month>>) = 1 /\ <<w.month>>[1] = w.month BY <3>7
      <4>2. /\ left \in Seq(Months) /\ Len(left) = 1 + Len(rest)
            /\ \A i \in 1..(1 + Len(rest)) : left[i] = IF i <= 1 THEN <<w.month>>[i] ELSE rest[i - 1]
        BY <3>5, <3>6, <4>1, ConcatProperties
      <4> HIDE DEF rest
      <4> QED BY <3>5, <4>1, <4>2
    <3>9. \A i \in 2..Len(left) : left[i] # w.month
      <4> TAKE i \in 2..Len(left)
      <4>1. i - 1 \in 1..Len(rest) BY <3>5, <3>8
      <4>2. rest[i - 1] \in FilesOf(topic) \ {w.month} BY <3>4, <4>1
      <4> QED BY <3>8, <4>2
    <3>10. \A n \in notes : n.topic = topic => \E i \in 1..Len(left) : left[i] = n.month
      <4> SUFFICES ASSUME NEW n \in notes, n.topic = topic PROVE \E i \in 1..Len(left) : left[i] = n.month
        OBVIOUS
      <4>1. n.month \in FilesOf(topic) BY DEF FilesOf, Matches
      <4>2. CASE n.month = w.month BY <3>5, <3>8, <4>2
      <4>3. CASE n.month # w.month
        <5>1. PICK j \in 1..Len(rest) : rest[j] = n.month BY <3>4, <4>1, <4>3
        <5>2. j + 1 \in 2..Len(left) /\ (j + 1) - 1 = j BY <3>5, <3>8
        <5>3. left[j + 1] = n.month BY <3>8, <5>1, <5>2
        <5> QED BY <5>2, <5>3
      <4> QED BY <4>2, <4>3
    <3>11. \A n \in notes : n.updated \in Nat /\ n.updated <= today BY DEF NotesOK, NoteRecord
    <3>12. record \notin notes BY <1>5, <3>11 DEF NotesOK
    <3>13. /\ topic \in Topics \ clean' /\ record \in promised'[topic] /\ record.updated <= today'
           /\ left # <<>>
      BY <1>5, <2>1, <3>5, <3>8 DEF NotesOK
    <3>14. \A n \in notes : n.updated < record.updated BY <1>5, <3>11 DEF NotesOK
    <3> QED BY <1>4, <1>5, <2>1, <3>8, <3>9, <3>10, <3>12, <3>13, <3>14 DEF RewriteGoesOn
  <2>7. CheckpointOK' BY <2>1, <2>6 DEF CheckpointOK
  <2> QED BY <2>1, <2>2, <2>4, <2>5, <2>7 DEF UpdatesDiffer, TopicsInLimit, CurrentTopics
<1> QED BY <1>6, <1>7

(* One file of the topic is rewritten: its records go, and in the first    *)
(* file the checkpoint's record takes their place.                         *)
LEMMA FileIsRewritten ==
    ASSUME NotebookInd, RewriteFile
    PROVE  NotebookInd'
<1> USE DEF NotebookInd
<1>1. PICK topic, record, left :
         topic = checkpoint.topic /\ record = checkpoint.record /\ left = checkpoint.left
  OBVIOUS
<1>2. left # <<>> /\ checkpoint # NoCheckpoint BY <1>1 DEF RewriteFile, NoCheckpoint
<1>3. RewriteGoesOn(topic, record, left) BY <1>1, <1>2 DEF CheckpointOK
<1>4. PICK month : month = Head(left) OBVIOUS
<1>5. /\ notes' = {n \in notes : n.topic # topic \/ n.month # month}
                  \cup (IF record.month = month THEN {record} ELSE {})
      /\ UNCHANGED <<today, begun>>
  BY <1>1, <1>4 DEF RewriteFile
<1>6. /\ left \in Seq(Months) /\ Len(left) \in Nat \ {0} /\ month = left[1]
      /\ topic \in Topics \ clean /\ record \in NoteRecord /\ record.topic = topic
      /\ record.updated <= today /\ record \in promised[topic]
  BY <1>2, <1>3, <1>4 DEF RewriteGoesOn
<1>7. record \in notes'
  <2>1. CASE record \in notes
    <3>1. record.month # month BY <1>3, <1>6, <2>1 DEF RewriteGoesOn
    <3> QED BY <1>5, <2>1, <3>1
  <2>2. CASE record \notin notes
    <3>1. record.month = month BY <1>3, <1>6, <2>2 DEF RewriteGoesOn
    <3> QED BY <1>5, <3>1
  <2> QED BY <2>1, <2>2
<1>8. \A n \in notes' : n # record => n \in notes /\ (n.topic = topic => n.month # month)
  BY <1>5
<1>9. \A n \in notes : n.topic # topic => n \in notes' BY <1>5
<1>10. \A n \in notes' : n.topic = topic /\ n # record =>
           n.updated < record.updated /\ n.month # month /\ \E i \in 1..Len(left) : left[i] = n.month
  BY <1>3, <1>8 DEF RewriteGoesOn
<1>11. notes' \subseteq NoteRecord /\ \A n \in notes' : n.updated <= today
  BY <1>6, <1>8 DEF NotesOK
<1>12. UpdatesDiffer'
  <2> SUFFICES ASSUME NEW n \in notes', NEW o \in notes', n.topic = o.topic, n.updated = o.updated
               PROVE  n = o
    BY DEF UpdatesDiffer
  <2>1. n.updated \in Nat /\ record.updated \in Nat BY <1>6, <1>11 DEF NoteRecord
  <2>2. CASE n = record BY <1>6, <1>10, <2>1, <2>2
  <2>3. CASE o = record BY <1>6, <1>10, <2>1, <2>3
  <2>4. CASE n # record /\ o # record BY <1>8, <2>4 DEF UpdatesDiffer
  <2> QED BY <2>2, <2>3, <2>4
<1>13. LastWritten(record)'
  <2> SUFFICES ASSUME NEW o \in notes', o.topic = topic PROVE o.updated <= record.updated
    BY <1>6 DEF LastWritten
  <2>1. o.updated \in Nat /\ record.updated \in Nat BY <1>6, <1>11 DEF NoteRecord
  <2> QED BY <1>10, <2>1
<1>14. \A n \in notes : n.topic # topic /\ LastWritten(n) => LastWritten(n)'
  BY <1>6, <1>8 DEF LastWritten
<1>15. \A t \in Topics \ {topic} : promised[t] # {} =>
          \E n \in notes' : n.topic = t /\ n \in promised[t] /\ LastWritten(n)'
  <2> SUFFICES ASSUME NEW t \in Topics \ {topic}, promised[t] # {}
               PROVE  \E n \in notes' : n.topic = t /\ n \in promised[t] /\ LastWritten(n)'
    OBVIOUS
  <2>1. PICK n \in notes : n.topic = t /\ n \in promised[t] /\ LastWritten(n) BY DEF PromiseHolds
  <2> QED BY <1>9, <1>14, <2>1
<1>16. \A t \in clean \ {topic} : \E n \in notes' : n.topic = t /\ \A o \in notes' : o.topic = t => o = n
  <2> SUFFICES ASSUME NEW t \in clean \ {topic}
               PROVE  \E n \in notes' : n.topic = t /\ \A o \in notes' : o.topic = t => o = n
    OBVIOUS
  <2>1. PICK n \in notes : n.topic = t /\ \A o \in notes : o.topic = t => o = n BY DEF CleanIsSingle
  <2> QED BY <1>6, <1>8, <1>9, <2>1
<1>17. TopicsInLimit'
  <2>1. \A n \in notes' : n.topic \in CurrentTopics
    <3>1. topic \in CurrentTopics BY <1>3 DEF RewriteGoesOn, CurrentTopics
    <3> QED BY <1>6, <1>8, <3>1 DEF CurrentTopics
  <2>2. CurrentTopics' \in SUBSET CurrentTopics
        /\ (CurrentTopics \cap GeneralTopics)' \in SUBSET (CurrentTopics \cap GeneralTopics)
    BY <2>1 DEF CurrentTopics
  <2>3. IsFiniteSet(CurrentTopics \cap GeneralTopics) BY FS_Subset DEF TopicsInLimit
  <2>4. /\ IsFiniteSet(CurrentTopics')
        /\ IsFiniteSet((CurrentTopics \cap GeneralTopics)')
        /\ Cardinality((CurrentTopics \cap GeneralTopics)') <= Cardinality(CurrentTopics \cap GeneralTopics)
    BY <2>2, <2>3, FS_Subset DEF TopicsInLimit
  <2>5. /\ Cardinality(CurrentTopics \cap GeneralTopics) \in Nat
        /\ Cardinality((CurrentTopics \cap GeneralTopics)') \in Nat
    BY <2>3, <2>4, FS_CardinalityType
  <2>6. Cardinality((CurrentTopics \cap GeneralTopics)') <= TopicLimit
    BY <2>4, <2>5, NotebookAssumption DEF TopicsInLimit
  <2> QED BY <2>4, <2>6 DEF TopicsInLimit
<1>18. CASE Len(left) = 1
  <2>1. /\ promised' = [promised EXCEPT ![topic] = {record}] /\ clean' = clean \cup {topic}
        /\ checkpoint' = NoCheckpoint
    BY <1>1, <1>18 DEF RewriteFile, Acknowledged
  <2>2. NotesOK' BY <1>5, <1>6, <1>11, <2>1 DEF NotesOK
  <2>3. PromiseHolds' BY <1>6, <1>7, <1>13, <1>15, <2>1 DEF PromiseHolds, NotesOK
  <2>4. \A o \in notes' : o.topic = topic => o = record BY <1>6, <1>10, <1>18
  <2>5. CleanIsSingle' BY <1>6, <1>7, <1>16, <2>1, <2>4 DEF CleanIsSingle
  <2> QED BY <1>12, <1>17, <2>1, <2>2, <2>3, <2>5 DEF CheckpointOK
<1>19. CASE Len(left) # 1
  <2>1. UNCHANGED <<promised, clean>> /\ checkpoint' = [checkpoint EXCEPT !.left = Tail(@)]
    BY <1>1, <1>19 DEF RewriteFile
  <2>2. NotesOK' BY <1>5, <1>11, <2>1 DEF NotesOK
  <2>3. PromiseHolds'
    <3>1. \A t \in Topics : promised[t] # {} =>
             \E n \in notes' : n.topic = t /\ n \in promised[t] /\ LastWritten(n)'
      <4> TAKE t \in Topics
      <4>1. CASE t = topic BY <1>6, <1>7, <1>13, <4>1
      <4>2. CASE t # topic BY <1>15, <4>2
      <4> QED BY <4>1, <4>2
    <3> QED BY <2>1, <3>1 DEF PromiseHolds
  <2>4. CleanIsSingle' BY <1>6, <1>16, <2>1 DEF CleanIsSingle
  <2>5. PICK rest : rest = Tail(left) OBVIOUS
  <2>6. rest \in Seq(Months) /\ Len(rest) = Len(left) - 1 /\ \A i \in 1..Len(rest) : rest[i] = left[i + 1]
    BY <1>6, <2>5
  <2>7. \A i \in 2..Len(left) : i - 1 \in 1..Len(rest) /\ rest[i - 1] = left[i] BY <1>6, <2>6
  <2>8. \A n \in notes' : n.topic = topic /\ n # record =>
            n.updated < record.updated /\ \E i \in 1..Len(rest) : rest[i] = n.month
    <3> SUFFICES ASSUME NEW n \in notes', n.topic = topic, n # record
                 PROVE  n.updated < record.updated /\ \E i \in 1..Len(rest) : rest[i] = n.month
      OBVIOUS
    <3>1. PICK i \in 1..Len(left) : left[i] = n.month BY <1>10
    <3>2. i \in 2..Len(left) BY <1>6, <1>10, <3>1
    <3> QED BY <1>10, <2>7, <3>1, <3>2
  <2>9. \A i \in 1..Len(rest) : rest[i] # record.month
    <3>1. \A i \in 2..Len(left) : left[i] # record.month BY <1>3, <1>6 DEF RewriteGoesOn
    <3> QED BY <1>6, <2>6, <3>1
  <2>10. rest # <<>> BY <1>6, <1>19, <2>6
  <2>11. RewriteGoesOn(topic, record, rest)'
    BY <1>5, <1>6, <1>7, <2>1, <2>6, <2>8, <2>9, <2>10 DEF RewriteGoesOn
  <2>12. checkpoint'.topic = topic /\ checkpoint'.record = record /\ checkpoint'.left = rest
    BY <1>1, <2>1, <2>5
  <2>13. CheckpointOK' BY <2>11, <2>12 DEF CheckpointOK
  <2> QED BY <1>12, <1>17, <2>2, <2>3, <2>4, <2>13
<1> QED BY <1>18, <1>19

(* The Agent's own calls name a revision they know: the content they       *)
(* replace was read or written before.                                     *)
LEMMA PlainStepStays ==
    ASSUME NEW p \in Paths, ~blind, blind \in BOOLEAN,
           \/ ReadPlain(p)
           \/ \E c \in Contents : CreatePlain(p, c) \/ OperatorEdits(p, c)
           \/ \E revision \in Contents :
                 \/ \E c \in Contents : OverwritePlain(p, c, revision)
                 \/ DeletePlain(p, revision)
                 \/ \E q \in Paths : MovePlain(p, q, revision)
    PROVE  ~blind' /\ blind' \in BOOLEAN /\ UNCHANGED notebookVars
BY DEF ReadPlain, CreatePlain, OperatorEdits, OverwritePlain, DeletePlain, MovePlain, Replaces,
   RevisionHolds

WorkspaceInd == NotebookInd /\ ~blind /\ blind \in BOOLEAN

(* A workspace of plain files, its notebook perhaps with records already.  *)
LEMMA WorkspaceBegins == WorkspaceInit => WorkspaceInd
<1>1. WorkspaceInit => ~blind /\ blind \in BOOLEAN BY DEF WorkspaceInit
<1> QED BY <1>1, WorkspaceStarts DEF WorkspaceInd

(* A checkpoint, one file of it at a time, and every operation on a plain  *)
(* file keep the invariant.                                                *)
LEMMA WorkspaceGoesOn == WorkspaceInd /\ [WorkspaceNext]_workspaceVars => WorkspaceInd'
<1> SUFFICES ASSUME NotebookInd, ~blind, blind \in BOOLEAN, [WorkspaceNext]_workspaceVars
             PROVE  NotebookInd' /\ ~blind' /\ blind' \in BOOLEAN
  BY DEF WorkspaceInd
<1>1. ASSUME NEW t \in Topics, NEW note \in Notes, CreateRecord(t, note) \/ BeginRewrite(t, note)
      PROVE  NotebookInd' /\ UNCHANGED blind
  BY <1>1, RecordIsCreated, RewriteBegins DEF CreateRecord, BeginRewrite, fileVars
<1>2. CASE RewriteFile BY <1>2, FileIsRewritten DEF RewriteFile, fileVars
<1>3. CASE RewriteStops BY <1>3, NotesStay DEF RewriteStops, fileVars, CheckpointOK
<1>4. ASSUME UNCHANGED notebookVars PROVE NotebookInd'
  <2>1. CheckpointOK' BY <1>4 DEF notebookVars, NotebookInd, CheckpointOK, RewriteGoesOn
  <2> QED BY <1>4, <2>1, NotesStay DEF notebookVars
<1>5. CASE \E p \in Paths :
              \/ ReadPlain(p)
              \/ \E c \in Contents : CreatePlain(p, c) \/ OperatorEdits(p, c)
              \/ \E revision \in Contents :
                    \/ \E c \in Contents : OverwritePlain(p, c, revision)
                    \/ DeletePlain(p, revision)
                    \/ \E q \in Paths : MovePlain(p, q, revision)
  BY <1>4, <1>5, PlainStepStays
<1>6. CASE UNCHANGED workspaceVars BY <1>4, <1>6 DEF workspaceVars, fileVars
<1> QED BY <1>1, <1>2, <1>3, <1>5, <1>6 DEF WorkspaceNext

(* The latest record of a topic is the one it shows.                       *)
LEMMA WorkspaceIsKept == WorkspaceInd => WorkspaceKept
<1> SUFFICES ASSUME NotebookInd, ~blind PROVE WorkspaceKept BY DEF WorkspaceInd
<1>1. ASSUME NEW t \in Topics, promised[t] # {}
      PROVE  /\ Matches(notes, t) # {} /\ Winner(notes, t) \in promised[t]
             /\ t \in clean => Cardinality(Matches(notes, t)) = 1
  <2>1. PICK n \in notes : n.topic = t /\ n \in promised[t] /\ LastWritten(n)
    BY <1>1 DEF NotebookInd, PromiseHolds
  <2>2. Matches(notes, t) # {} BY <2>1 DEF Matches
  <2>3. Winner(notes, t) = n BY <2>1, <2>2, WinnerIsLatest DEF NotebookInd
  <2>4. ASSUME t \in clean PROVE Cardinality(Matches(notes, t)) = 1
    <3>1. PICK m \in notes : m.topic = t /\ \A o \in notes : o.topic = t => o = m
      BY <2>4 DEF NotebookInd, CleanIsSingle
    <3>2. Matches(notes, t) = {m} BY <3>1 DEF Matches
    <3> QED BY <3>2, FS_Singleton
  <2> QED BY <2>1, <2>2, <2>3, <2>4
<1> QED BY <1>1 DEF WorkspaceKept, NotebookShowsLatest, NothingUnreadIsLost, NotebookInd, TopicsInLimit

(* For any topics, months, files and number of checkpoints: a topic shows  *)
(* what its last checkpoint wrote, or the state before or after one that   *)
(* stopped, and no call replaces a plain file's content the Agent does not *)
(* know.                                                                   *)
THEOREM WorkspaceStaysKept == WorkspaceSpec => []WorkspaceKept
BY WorkspaceBegins, WorkspaceGoesOn, WorkspaceIsKept, PTL DEF WorkspaceSpec

-----------------------------------------------------------------------------
(* The website's repository: the inductive invariant.                      *)

GitTypeOK ==
    /\ {working, staged, head, remote} \subseteq [SiteAll -> {NoVersion} \cup Versions]
    /\ seenVersion \in [SiteFiles -> {NoVersion} \cup Versions]
    /\ overwritten \in BOOLEAN

(* What was inspected is what is committed: files outside the site are in  *)
(* neither HEAD nor origin, and an index that was inspected changes none.  *)
SiteInd ==
    /\ GitTypeOK /\ SiteIsKept
    /\ \A f \in OtherFiles : head[f] = NoVersion
    /\ publishing = "inspected" => StagedFiles \subseteq SiteFiles

(* An edit of the tool replaces what the Agent has seen, or nothing.       *)
LEMMA NothingUnseenReplaced ==
    ASSUME SiteInd, NEW f \in SiteFiles, working[f] = NoVersion \/ CurrentRevision(f), Overwrites(f)
    PROVE  ~overwritten' /\ overwritten' \in BOOLEAN
BY DEF SiteInd, SiteIsKept, CurrentRevision, Overwrites

(* Steps that leave index, HEAD and origin alone keep all but the types.   *)
LEMMA TreeStepStays ==
    ASSUME SiteInd, UNCHANGED <<staged, head, remote, toolCommits, publishing>>,
           working' \in [SiteAll -> {NoVersion} \cup Versions],
           seenVersion' \in [SiteFiles -> {NoVersion} \cup Versions],
           ~overwritten', overwritten' \in BOOLEAN
    PROVE  SiteInd'
BY DEF SiteInd, GitTypeOK, SiteIsKept, StagedFiles

(* The repository begins clean, without the owner's other files.           *)
LEMMA SiteBegins == SiteInit => SiteInd
BY DEF SiteInit, SiteInd, GitTypeOK, SiteIsKept, SiteAll

(* Every edit of the tool and of the owner, and every step of a publish,   *)
(* keep the invariant.                                                     *)
LEMMA SiteGoesOn == SiteInd /\ [SiteNext]_siteVars => SiteInd'
<1> SUFFICES ASSUME SiteInd, [SiteNext]_siteVars PROVE SiteInd' OBVIOUS
<1> DEFINE VersionOrNone == {NoVersion} \cup Versions
<1>0. /\ working \in [SiteAll -> VersionOrNone] /\ staged \in [SiteAll -> VersionOrNone]
      /\ head \in [SiteAll -> VersionOrNone]
      /\ seenVersion \in [SiteFiles -> VersionOrNone] /\ SiteFiles \subseteq SiteAll
      /\ overwritten \in BOOLEAN /\ ~overwritten
  BY DEF SiteInd, GitTypeOK, SiteIsKept, SiteAll
<1>1. ASSUME NEW f \in SiteFiles, ReadSite(f) PROVE SiteInd'
  BY <1>0, <1>1, TreeStepStays DEF ReadSite, gitVars
<1>2. ASSUME NEW f \in SiteFiles, NEW v \in Versions, WriteSite(f, v) PROVE SiteInd'
  BY <1>0, <1>2, TreeStepStays, NothingUnseenReplaced DEF WriteSite
<1>3. ASSUME NEW f \in SiteFiles, DeleteSite(f) PROVE SiteInd'
  BY <1>0, <1>3, TreeStepStays, NothingUnseenReplaced DEF DeleteSite
<1>4. ASSUME NEW f \in SiteFiles, NEW g \in SiteFiles \ {f}, MoveSite(f, g) PROVE SiteInd'
  BY <1>0, <1>4, TreeStepStays, NothingUnseenReplaced DEF MoveSite
<1>5. ASSUME NEW f \in SiteAll, NEW v \in Versions, OwnerEdits(f, v) PROVE SiteInd'
  BY <1>0, <1>5, TreeStepStays DEF OwnerEdits
<1>6. ASSUME NEW f \in SiteAll, OwnerStages(f) PROVE SiteInd'
  BY <1>0, <1>6 DEF OwnerStages, SiteInd, GitTypeOK, SiteIsKept
<1>7. ASSUME NEW p, p # "inspected", PublishGoesTo(p) PROVE SiteInd'
  BY <1>7 DEF PublishGoesTo, PublishUnchanged, gitVars, SiteInd, GitTypeOK, SiteIsKept
<1>8. CASE BeginPublish \/ CheckPasses BY <1>7, <1>8 DEF BeginPublish, CheckPasses
<1>9. CASE ChooseSpecs
  BY <1>9 DEF ChooseSpecs, PublishUnchanged, gitVars, SiteInd, GitTypeOK, SiteIsKept
<1>10. CASE AddSpecs
  <2>1. staged' \in [SiteAll -> VersionOrNone] BY <1>0, <1>10 DEF AddSpecs
  <2> QED BY <1>10, <2>1 DEF AddSpecs, PublishUnchanged, SiteInd, GitTypeOK, SiteIsKept
<1>11. CASE InspectIndex
  BY <1>11 DEF InspectIndex, IndexIsSafe, StagedFiles, PublishGoesTo, PublishUnchanged, gitVars,
       SiteInd, GitTypeOK, SiteIsKept
<1>12. CASE ResetIndex
  <2>1. staged' \in [SiteAll -> VersionOrNone] BY <1>0, <1>12 DEF ResetIndex
  <2> QED BY <1>12, <2>1 DEF ResetIndex, PublishUnchanged, SiteInd, GitTypeOK, SiteIsKept
<1>13. CASE CommitSite
  <2>1. StagedFiles \subseteq SiteFiles BY <1>13 DEF CommitSite, SiteInd
  <2>2. \A f \in OtherFiles : staged[f] = head[f]
    BY <2>1, SiteAssumption DEF StagedFiles, SiteAll
  <2> QED BY <1>0, <1>13, <2>1, <2>2 DEF CommitSite, SiteInd, GitTypeOK, SiteIsKept
<1>14. CASE Push
  BY <1>0, <1>14 DEF Push, PublishUnchanged, SiteInd, GitTypeOK, SiteIsKept
<1>15. CASE PublishFails
  BY <1>15 DEF PublishFails, PublishUnchanged, gitVars, SiteInd, GitTypeOK, SiteIsKept
<1>16. CASE UNCHANGED siteVars
  BY <1>16 DEF siteVars, SiteInd, GitTypeOK, SiteIsKept, StagedFiles
<1> QED BY <1>1, <1>2, <1>3, <1>4, <1>5, <1>6, <1>8, <1>9, <1>10, <1>11, <1>12, <1>13, <1>14,
           <1>15, <1>16
        DEF SiteNext

(* What the tool commits and pushes are files of the site, and no edit     *)
(* replaces a version the Agent has not seen, whatever the owner does in   *)
(* between, for any files, trees and number of the owner's edits.          *)
THEOREM SiteStaysKept == SiteSpec => []SiteIsKept
<1>1. SiteInd => SiteIsKept BY DEF SiteInd
<1> QED BY <1>1, SiteBegins, SiteGoesOn, PTL DEF SiteSpec

-----------------------------------------------------------------------------
(* The stores together.                                                    *)

(* Workspace and site hold what was written in every behaviour of the      *)
(* stores, whichever of them it exercises.                                 *)
THEOREM FilesStayKept == StoresSpec => []FilesAreKept
<1>1. StoresInit => WorkspaceInd /\ SiteInd
  BY WorkspaceBegins, SiteBegins DEF StoresInit
<1>2. WorkspaceInd /\ SiteInd /\ [StoresNext]_storeVars => (WorkspaceInd /\ SiteInd)'
  <2>1. [StoresNext]_storeVars => [WorkspaceNext]_workspaceVars /\ [SiteNext]_siteVars
    BY DEF StoresNext, storeVars
  <2> QED BY <2>1, WorkspaceGoesOn, SiteGoesOn
<1>3. WorkspaceInd /\ SiteInd => FilesAreKept
  BY WorkspaceIsKept DEF FilesAreKept, SiteInd
<1> QED BY <1>1, <1>2, <1>3, PTL DEF StoresSpec

-----------------------------------------------------------------------------
(* The paper account: sums of amounts.                                     *)

(* A sum is the last of its partial sums, each of which is a number.       *)
LEMMA TotalIs ==
    ASSUME NEW q \in Seq(Int), NEW N, N = Len(q)
    PROVE  \E f \in [0..N -> Int] :
              f[0] = 0 /\ (\A k \in 1..N : f[k] = f[k - 1] + q[k]) /\ Total(q) = f[N]
<1> DEFINE Sums(m, f) == \A k \in 0..m : f[k] = (IF k = 0 THEN 0 ELSE f[k - 1] + q[k])
           sum == CHOOSE f : f = [k \in 0..N |-> IF k = 0 THEN 0 ELSE f[k - 1] + q[k]]
           Bad == {m \in 0..N : ~\E f \in [0..m -> Int] : Sums(m, f)}
<1>0. N \in Nat /\ \A k \in 1..N : q[k] \in Int BY LenProperties, ElementOfSeq
<1>1. Bad = {}
  <2> SUFFICES ASSUME Bad # {} PROVE FALSE OBVIOUS
  <2>1. PICK m \in Bad : \A y \in Bad : m <= y
    <3>1. Bad \subseteq Nat BY <1>0
    <3> HIDE DEF Bad
    <3> QED BY <3>1, MinIsLeast
  <2>2. CASE m = 0
    <3>1. [k \in 0..m |-> 0] \in [0..m -> Int] /\ Sums(m, [k \in 0..m |-> 0]) BY <2>2
    <3> QED BY <2>1, <3>1
  <2>3. CASE m # 0
    <3>1. m - 1 \in 0..N /\ m - 1 \notin Bad /\ m \in 1..N
      <4>1. m \in 0..N BY <2>1
      <4> HIDE DEF Bad
      <4> QED BY <1>0, <2>1, <2>3, <4>1
    <3>2. PICK f \in [0..(m - 1) -> Int] : Sums(m - 1, f)
      <4> HIDE DEF Sums
      <4> QED BY <3>1
    <3>3. PICK g : g = [k \in 0..m |-> IF k = m THEN f[m - 1] + q[m] ELSE f[k]] OBVIOUS
    <3>4. \A k \in 0..m : k # m => k \in 0..(m - 1) /\ (k # 0 => k - 1 \in 0..(m - 1) /\ k - 1 # m)
      BY <3>1
    <3>5. g \in [0..m -> Int] BY <1>0, <3>1, <3>3, <3>4
    <3>6. Sums(m, g)
      <4> SUFFICES ASSUME NEW k \in 0..m PROVE g[k] = (IF k = 0 THEN 0 ELSE g[k - 1] + q[k])
        OBVIOUS
      <4>1. CASE k = m
        <5>1. g[m] = f[m - 1] + q[m] /\ g[m - 1] = f[m - 1] BY <3>1, <3>3
        <5> QED BY <3>1, <4>1, <5>1
      <4>2. CASE k # m
        <5>1. g[k] = f[k] /\ (k # 0 => g[k - 1] = f[k - 1]) BY <3>1, <3>3, <3>4, <4>2
        <5> QED BY <3>2, <3>4, <4>2, <5>1
      <4> QED BY <4>1, <4>2
    <3> QED BY <2>1, <3>5, <3>6
  <2> QED BY <2>2, <2>3
<1>2. sum = [k \in 0..N |-> IF k = 0 THEN 0 ELSE sum[k - 1] + q[k]]
  <2>1. PICK f \in [0..N -> Int] : Sums(N, f)
    <3>1. N \in 0..N BY <1>0
    <3>2. N \notin Bad BY <1>1
    <3> HIDE DEF Sums
    <3> QED BY <3>1, <3>2
  <2>2. f = [k \in 0..N |-> IF k = 0 THEN 0 ELSE f[k - 1] + q[k]] BY <2>1
  <2> QED BY <2>2
<1>3. Total(q) = sum[N] BY DEF Total
<1> HIDE DEF sum
<1>4. PICK s : s = sum OBVIOUS
<1>5. \A n \in 0..N : s[n] = (IF n = 0 THEN 0 ELSE s[n - 1] + q[n])
  <2>1. PICK t : t = [k \in 0..N |-> IF k = 0 THEN 0 ELSE s[k - 1] + q[k]] OBVIOUS
  <2>2. s = t BY <1>2, <1>4, <2>1
  <2>3. \A n \in 0..N : t[n] = (IF n = 0 THEN 0 ELSE s[n - 1] + q[n]) BY <2>1
  <2> QED BY <2>2, <2>3
<1>6. 0 \in 0..N /\ \A n \in 1..N : n \in 0..N /\ n # 0 BY <1>0
<1>7. s[0] = 0 /\ \A n \in 1..N : s[n] = s[n - 1] + q[n] BY <1>5, <1>6
<1>8. \A n \in 0..N : s[n] \in Int
  <2> DEFINE Odd == {n \in 0..N : s[n] \notin Int}
  <2> SUFFICES ASSUME Odd # {} PROVE FALSE OBVIOUS
  <2>1. PICK m \in Odd : \A y \in Odd : m <= y
    <3>1. Odd \subseteq Nat BY <1>0
    <3> HIDE DEF Odd
    <3> QED BY <3>1, MinIsLeast
  <2>2. m # 0 BY <1>7, <2>1
  <2>3. m - 1 \in 0..N /\ m - 1 \notin Odd /\ m \in 1..N BY <1>0, <2>1, <2>2
  <2> QED BY <1>0, <1>7, <2>1, <2>3
<1>9. s \in [0..N -> Int]
  <2>1. s = [k \in 0..N |-> IF k = 0 THEN 0 ELSE s[k - 1] + q[k]] BY <1>2, <1>4
  <2>2. s = [k \in 0..N |-> s[k]] BY <2>1, <1>5
  <2> QED BY <1>8, <2>2
<1> QED BY <1>3, <1>4, <1>7, <1>9

(* A row more adds its amount.                                             *)
LEMMA TotalExtends ==
    ASSUME NEW q \in Seq(Int), NEW r \in Seq(Int), Len(r) = Len(q) + 1,
           \A i \in 1..Len(q) : r[i] = q[i]
    PROVE  Total(r) = Total(q) + r[Len(r)] /\ Total(q) \in Int
<1>1. PICK N : N = Len(q) OBVIOUS
<1>2. N \in Nat /\ Len(r) = N + 1 BY <1>1, LenProperties
<1>3. PICK f \in [0..N -> Int] : f[0] = 0 /\ (\A k \in 1..N : f[k] = f[k - 1] + q[k]) /\ Total(q) = f[N]
  BY <1>1, TotalIs
<1>4. PICK g \in [0..(N + 1) -> Int] :
         g[0] = 0 /\ (\A k \in 1..(N + 1) : g[k] = g[k - 1] + r[k]) /\ Total(r) = g[N + 1]
  BY <1>2, TotalIs
<1>5. \A k \in 0..N : f[k] = g[k]
  <2> DEFINE Odd == {k \in 0..N : f[k] # g[k]}
  <2> SUFFICES ASSUME Odd # {} PROVE FALSE OBVIOUS
  <2>1. PICK m \in Odd : \A y \in Odd : m <= y
    <3>1. Odd \subseteq Nat BY <1>2
    <3> HIDE DEF Odd
    <3> QED BY <3>1, MinIsLeast
  <2>2. m # 0 BY <1>3, <1>4, <2>1
  <2>3. m - 1 \in 0..N /\ m - 1 \notin Odd /\ m \in 1..N /\ m \in 1..(N + 1)
    BY <1>2, <2>1, <2>2
  <2>4. f[m] = f[m - 1] + q[m] /\ g[m] = g[m - 1] + r[m] /\ r[m] = q[m] BY <1>1, <1>3, <1>4, <2>3
  <2> QED BY <2>1, <2>3, <2>4
<1>6. g[N + 1] = g[N] + r[N + 1] /\ N \in 0..N BY <1>2, <1>4
<1> QED BY <1>2, <1>3, <1>4, <1>5, <1>6

(* Amounts of nothing add up to nothing.                                   *)
LEMMA TotalOfZeros ==
    ASSUME NEW q \in Seq(Int), \A i \in 1..Len(q) : q[i] = 0
    PROVE  Total(q) = 0
<1>1. PICK N : N = Len(q) OBVIOUS
<1>2. N \in Nat BY <1>1, LenProperties
<1>3. PICK f \in [0..N -> Int] : f[0] = 0 /\ (\A k \in 1..N : f[k] = f[k - 1] + q[k]) /\ Total(q) = f[N]
  BY <1>1, TotalIs
<1>4. \A k \in 0..N : f[k] = 0
  <2> DEFINE Odd == {k \in 0..N : f[k] # 0}
  <2> SUFFICES ASSUME Odd # {} PROVE FALSE OBVIOUS
  <2>1. PICK m \in Odd : \A y \in Odd : m <= y
    <3>1. Odd \subseteq Nat BY <1>2
    <3> HIDE DEF Odd
    <3> QED BY <3>1, MinIsLeast
  <2>2. m # 0 BY <1>3, <2>1
  <2>3. m - 1 \in 0..N /\ m - 1 \notin Odd /\ m \in 1..N BY <1>2, <2>1, <2>2
  <2> QED BY <1>1, <1>3, <2>1, <2>3
<1> QED BY <1>2, <1>3, <1>4


(* A sum of numbers is a number.                                           *)
LEMMA TotalIsNumber ==
    ASSUME NEW q \in Seq(Int)
    PROVE  Total(q) \in Int
<1>1. PICK N : N = Len(q) OBVIOUS
<1>2. N \in Nat BY <1>1, LenProperties
<1>3. PICK f \in [0..N -> Int] : Total(q) = f[N] BY <1>1, TotalIs
<1> QED BY <1>2, <1>3

-----------------------------------------------------------------------------
(* The paper account: the inductive invariant.                             *)

(* Rows hold numbers and are of this generation or an earlier one.         *)
RowsOK ==
    /\ \E S : orders \in Seq(S)
    /\ \A i \in 1..Len(orders) :
          /\ orders[i].generation \in 1..generation /\ orders[i].side \in {"buy", "sell"}
          /\ orders[i].quantity \in Nat /\ orders[i].notional \in Nat
          /\ orders[i].fee \in Nat /\ orders[i].realized \in Int

Trade(stage, side, source, symbol, quantity, id, price, equity) ==
    [stage |-> stage, side |-> side, source |-> source, symbol |-> symbol, quantity |-> quantity,
     id |-> id, price |-> price, equity |-> equity]

(* A checked order of the Agent's own is within its limits.                *)
Small(source, side, symbol, quantity, price, equity) ==
    source = "self" /\ side = "buy" =>
        /\ symbol \in SelfSymbols
        /\ OrderCost(quantity * price) * 100 <= equity * SelfOrderPercent

OrderOK ==
    order # NoOrder =>
        \E stage \in {"quoted", "checked"}, side \in {"buy", "sell"}, source \in {"owner", "self"},
           s \in Symbols, q \in 1..MaxQuantity, id \in OrderIds, price \in Prices : \E equity :
              /\ order = Trade(stage, side, source, s, q, id, price, equity)
              /\ stage = "checked" => Small(source, side, s, q, price, equity)

MoneyOK ==
    /\ cash \in Int /\ realized \in Int /\ generation \in Nat \ {0}
    /\ position \in [Symbols -> Int] /\ cost \in [Symbols -> Int]

PaperInd == MoneyOK /\ RowsOK /\ OrderOK /\ PaperAccounted

(* The amounts of the rows are numbers, one per row.                       *)
LEMMA AmountsAreNumbers ==
    ASSUME RowsOK, NEW s
    PROVE  /\ Flows \in Seq(Int) /\ Profits \in Seq(Int) /\ Bought(s) \in Seq(Int) /\ Spent(s) \in Seq(Int)
           /\ Len(Flows) = Len(orders) /\ Len(Profits) = Len(orders)
           /\ Len(Bought(s)) = Len(orders) /\ Len(Spent(s)) = Len(orders)
           /\ Len(orders) \in Nat
<1>1. PICK N : N = Len(orders) OBVIOUS
<1>2. N \in Nat BY <1>1, LenProperties DEF RowsOK
<1>3. \A f \in [1..N -> Int] : f \in Seq(Int) /\ Len(f) = N BY <1>2, SeqDef
<1>4. \A i \in 1..N : /\ Flow(orders[i]) \in Int /\ orders[i].realized \in Int
                      /\ orders[i].quantity \in Int /\ 0 - orders[i].quantity \in Int
                      /\ orders[i].realized - Flow(orders[i]) \in Int
  <2> SUFFICES ASSUME NEW i \in 1..N
               PROVE  /\ Flow(orders[i]) \in Int /\ orders[i].realized \in Int
                      /\ orders[i].quantity \in Int /\ 0 - orders[i].quantity \in Int
                      /\ orders[i].realized - Flow(orders[i]) \in Int
    OBVIOUS
  <2>1. /\ orders[i].quantity \in Nat /\ orders[i].notional \in Nat /\ orders[i].fee \in Nat
        /\ orders[i].realized \in Int
    BY <1>1 DEF RowsOK
  <2>2. Flow(orders[i]) \in Int BY <2>1 DEF Flow
  <2>3. PICK x \in Int : x = Flow(orders[i]) BY <2>2
  <2> QED BY <2>1, <2>3
<1>5. Flows \in [1..N -> Int] BY <1>1, <1>4 DEF Flows
<1>6. Profits \in [1..N -> Int] BY <1>1, <1>4 DEF Profits
<1>7. Bought(s) \in [1..N -> Int] BY <1>1, <1>4 DEF Bought
<1>8. Spent(s) \in [1..N -> Int] BY <1>1, <1>4 DEF Spent
<1> QED BY <1>1, <1>2, <1>3, <1>5, <1>6, <1>7, <1>8

(* A step that adds a row of this generation.                              *)
RowFills(o) ==
    /\ orders' = Append(orders, o) /\ UNCHANGED generation
    /\ o.generation = generation /\ o.side \in {"buy", "sell"} /\ o.quantity \in Nat
    /\ o.notional \in Nat /\ o.fee \in Nat /\ o.realized \in Int /\ ~Known(o.id)
    /\ o.source = "self" /\ o.side = "buy" =>
          o.symbol \in SelfSymbols /\ (o.notional + o.fee) * 100 <= o.equity * SelfOrderPercent

(* A row of this generation more adds its own amounts.                     *)
LEMMA RowAdds ==
    ASSUME RowsOK, RowsOK', NEW o, RowFills(o), NEW s
    PROVE  /\ Total(Flows)' = Total(Flows) + Flow(o)
           /\ Total(Profits)' = Total(Profits) + o.realized
           /\ Total(Bought(s))' = Total(Bought(s))
                 + (IF o.symbol # s THEN 0 ELSE IF o.side = "buy" THEN o.quantity ELSE 0 - o.quantity)
           /\ Total(Spent(s))' = Total(Spent(s)) + (IF o.symbol # s THEN 0 ELSE o.realized - Flow(o))
<1>0. /\ orders' = Append(orders, o) /\ UNCHANGED generation /\ o.generation = generation
  BY DEF RowFills
<1>1. PICK N : N = Len(orders) OBVIOUS
<1>2. PICK S : orders \in Seq(S) BY DEF RowsOK
<1>3. N \in Nat /\ Len(orders') = N + 1 /\ orders'[N + 1] = o
      /\ \A i \in 1..N : orders'[i] = orders[i]
  BY <1>0, <1>1, <1>2, LenProperties, AppendProperties
<1>4. /\ Flows \in Seq(Int) /\ Profits \in Seq(Int) /\ Bought(s) \in Seq(Int) /\ Spent(s) \in Seq(Int)
      /\ Len(Flows) = N /\ Len(Profits) = N /\ Len(Bought(s)) = N /\ Len(Spent(s)) = N
  BY <1>1, AmountsAreNumbers
<1>5. /\ Flows' \in Seq(Int) /\ Profits' \in Seq(Int) /\ Bought(s)' \in Seq(Int) /\ Spent(s)' \in Seq(Int)
      /\ Len(Flows') = N + 1 /\ Len(Profits') = N + 1 /\ Len(Bought(s)') = N + 1 /\ Len(Spent(s)') = N + 1
  <2>1. \A f \in [1..(N + 1) -> Int] : f \in Seq(Int) /\ Len(f) = N + 1 BY <1>3, SeqDef
  <2>2. \A i \in 1..(N + 1) :
           /\ Flow(orders'[i]) \in Int /\ orders'[i].realized \in Int
           /\ orders'[i].quantity \in Int /\ 0 - orders'[i].quantity \in Int
           /\ orders'[i].realized - Flow(orders'[i]) \in Int
    <3>1. PICK rows : rows = orders' OBVIOUS
    <3>2. \A i \in 1..(N + 1) : /\ rows[i].quantity \in Nat /\ rows[i].notional \in Nat
                                /\ rows[i].fee \in Nat /\ rows[i].realized \in Int
      BY <1>3, <3>1 DEF RowsOK
    <3>3. ASSUME NEW i \in 1..(N + 1)
          PROVE  /\ Flow(rows[i]) \in Int /\ rows[i].realized \in Int
                 /\ rows[i].quantity \in Int /\ 0 - rows[i].quantity \in Int
                 /\ rows[i].realized - Flow(rows[i]) \in Int
      <4>1. Flow(rows[i]) \in Int
        <5>1. 0 - (rows[i].notional + rows[i].fee) \in Int /\ rows[i].notional - rows[i].fee \in Int
          BY <3>2
        <5> QED BY <5>1 DEF Flow
      <4> QED BY <3>2, <4>1
    <3> QED BY <3>1, <3>3
  <2>3. Flows' \in [1..(N + 1) -> Int] BY <1>3, <2>2 DEF Flows
  <2>4. Profits' \in [1..(N + 1) -> Int] BY <1>3, <2>2 DEF Profits
  <2>5. Bought(s)' \in [1..(N + 1) -> Int] BY <1>3, <2>2 DEF Bought
  <2>6. Spent(s)' \in [1..(N + 1) -> Int] BY <1>3, <2>2 DEF Spent
  <2> QED BY <2>1, <2>3, <2>4, <2>5, <2>6
<1>6. N + 1 \in 1..(N + 1) /\ 1..N \subseteq 1..(N + 1) BY <1>3
<1>7. (\A i \in 1..N : Flows'[i] = Flows[i]) /\ Flows'[N + 1] = Flow(o)
  BY <1>0, <1>1, <1>3, <1>6 DEF Flows, Now
<1>8. (\A i \in 1..N : Profits'[i] = Profits[i]) /\ Profits'[N + 1] = o.realized
  BY <1>0, <1>1, <1>3, <1>6 DEF Profits, Now
<1>9. /\ \A i \in 1..N : Bought(s)'[i] = Bought(s)[i]
      /\ Bought(s)'[N + 1]
            = (IF o.symbol # s THEN 0 ELSE IF o.side = "buy" THEN o.quantity ELSE 0 - o.quantity)
  BY <1>0, <1>1, <1>3, <1>6 DEF Bought, NowOf, Now
<1>10. /\ \A i \in 1..N : Spent(s)'[i] = Spent(s)[i]
       /\ Spent(s)'[N + 1] = (IF o.symbol # s THEN 0 ELSE o.realized - Flow(o))
  BY <1>0, <1>1, <1>3, <1>6 DEF Spent, NowOf, Now
<1>11. ASSUME NEW q \in Seq(Int), NEW r \in Seq(Int), Len(q) = N, Len(r) = N + 1,
              \A i \in 1..N : r[i] = q[i]
       PROVE  Total(r) = Total(q) + r[N + 1]
  BY <1>11, TotalExtends
<1>12. Total(Flows') = Total(Flows) + Flow(o)
  <2>1. PICK q : q = Flows OBVIOUS
  <2>2. PICK r : r = Flows' OBVIOUS
  <2>3. q \in Seq(Int) /\ r \in Seq(Int) /\ Len(q) = N /\ Len(r) = N + 1 BY <1>4, <1>5, <2>1, <2>2
  <2>4. (\A i \in 1..N : r[i] = q[i]) /\ r[N + 1] = Flow(o) BY <1>7, <2>1, <2>2
  <2>5. Total(r) = Total(q) + r[N + 1] BY <1>11, <2>3, <2>4
  <2> QED BY <2>1, <2>2, <2>4, <2>5
<1>13. Total(Profits') = Total(Profits) + o.realized BY <1>4, <1>5, <1>8, <1>11
<1>14. Total(Bought(s)') = Total(Bought(s)) + Bought(s)'[N + 1] BY <1>4, <1>5, <1>9, <1>11
<1>15. Total(Spent(s)') = Total(Spent(s)) + Spent(s)'[N + 1] BY <1>4, <1>5, <1>10, <1>11
<1> QED BY <1>9, <1>10, <1>12, <1>13, <1>14, <1>15

(* A fee is a number between nothing and its notional.                     *)
LEMMA FeeIs ==
    ASSUME NEW n \in Nat
    PROVE  Fee(n) \in Nat /\ Fee(n) <= n
<1>1. FeePercent \in Nat /\ FeePercent <= 100 BY PaperAssumption
<1>2. PICK f : f = FeePercent OBVIOUS
<1>3. n * f \in Nat /\ n * f <= n * 100 BY <1>1, <1>2
<1>4. PICK x \in Nat : x = n * f BY <1>3
<1>5. x \div 100 \in Nat /\ x \div 100 <= n BY <1>3, <1>4
<1> QED BY <1>2, <1>4, <1>5 DEF Fee

(* The share of a cost, of the whole position all of it.                   *)
LEMMA ShareIs ==
    ASSUME NEW c \in Int, NEW q \in Nat \ {0}, NEW p \in Int, p >= q
    PROVE  (c * q) \div p \in Int /\ (p = q => (c * q) \div p = c)
<1>1. PICK x \in Int : x = c * q OBVIOUS
<1>2. x \div p \in Int BY SMT
<1>3. ASSUME p = q PROVE x \div q = c
  <2>1. x = q * c BY <1>1
  <2> QED BY <2>1
<1> QED BY <1>1, <1>2, <1>3

(* What a new row does to the table.                                       *)
LEMMA RowIsKept ==
    ASSUME PaperInd, NEW o, RowFills(o)
    PROVE  /\ RowsOK' /\ SelfOrdersAreSmall'
           /\ \A i, j \in 1..Len(orders') : orders'[i].id = orders'[j].id => i = j
<1> USE DEF RowFills
<1>1. PICK N : N = Len(orders) OBVIOUS
<1>2. PICK S : orders \in Seq(S) BY DEF PaperInd, RowsOK
<1>3. N \in Nat /\ Len(orders') = N + 1 /\ orders'[N + 1] = o
      /\ \A i \in 1..N : orders'[i] = orders[i]
  BY <1>1, <1>2, LenProperties, AppendProperties
<1>4. 1..(N + 1) = 1..N \cup {N + 1} /\ N + 1 \notin 1..N BY <1>3
<1>5. orders' \in Seq(S \cup {o})
  <2>1. orders \in Seq(S \cup {o}) BY <1>2
  <2> QED BY <2>1, AppendProperties
<1>6. RowsOK'
  <2>1. generation \in Nat \ {0} BY DEF PaperInd, MoneyOK
  <2>2. \A i \in 1..(N + 1) :
          /\ orders'[i].generation \in 1..generation /\ orders'[i].side \in {"buy", "sell"}
          /\ orders'[i].quantity \in Nat /\ orders'[i].notional \in Nat
          /\ orders'[i].fee \in Nat /\ orders'[i].realized \in Int
    <3> SUFFICES ASSUME NEW i \in 1..(N + 1)
                 PROVE  /\ orders'[i].generation \in 1..generation /\ orders'[i].side \in {"buy", "sell"}
                        /\ orders'[i].quantity \in Nat /\ orders'[i].notional \in Nat
                        /\ orders'[i].fee \in Nat /\ orders'[i].realized \in Int
      OBVIOUS
    <3>1. CASE i = N + 1 BY <1>3, <2>1, <3>1
    <3>2. CASE i \in 1..N BY <1>1, <1>3, <3>2 DEF PaperInd, RowsOK
    <3> QED BY <1>4, <3>1, <3>2
  <2> QED BY <1>3, <1>5, <2>2 DEF RowsOK
<1>7. \A i, j \in 1..Len(orders') : orders'[i].id = orders'[j].id => i = j
  <2>1. \A i \in 1..N : orders[i].id # o.id BY <1>1 DEF Known
  <2>2. \A i, j \in 1..N : orders[i].id = orders[j].id => i = j
    BY <1>1 DEF PaperInd, PaperAccounted, AccountIsItsOrders
  <2> QED BY <1>3, <1>4, <2>1, <2>2
<1>8. SelfOrdersAreSmall'
  <2> SUFFICES ASSUME NEW i \in 1..(N + 1), orders'[i].source = "self", orders'[i].side = "buy"
               PROVE  /\ orders'[i].symbol \in SelfSymbols
                      /\ (orders'[i].notional + orders'[i].fee) * 100
                            <= orders'[i].equity * SelfOrderPercent
    BY <1>3 DEF SelfOrdersAreSmall
  <2>1. CASE i = N + 1 BY <1>3, <2>1
  <2>2. CASE i \in 1..N
    <3>1. orders'[i] = orders[i] BY <1>3, <2>2
    <3> QED BY <1>1, <2>2, <3>1 DEF PaperInd, PaperAccounted, SelfOrdersAreSmall
  <2> QED BY <1>4, <2>1, <2>2
<1> QED BY <1>6, <1>7, <1>8

(* An order that fills: the account and its row in one step.               *)
LEMMA ExecuteStays ==
    ASSUME PaperInd, NEW answered \in BOOLEAN, Execute(answered)
    PROVE  PaperInd'
<1> USE PaperAssumption
<1>1. order # NoOrder /\ order.stage = "checked" /\ ~Known(order.id)
  BY DEF Execute, NewOrder, NoOrder
<1>2. PICK stage \in {"quoted", "checked"}, side \in {"buy", "sell"}, source \in {"owner", "self"},
           s \in Symbols, q \in 1..MaxQuantity, id \in OrderIds, price \in Prices : \E equity :
              /\ order = Trade(stage, side, source, s, q, id, price, equity)
              /\ stage = "checked" => Small(source, side, s, q, price, equity)
  BY <1>1 DEF PaperInd, OrderOK
<1>2a. PICK equity : /\ order = Trade(stage, side, source, s, q, id, price, equity)
                     /\ stage = "checked" => Small(source, side, s, q, price, equity)
  BY <1>2
<1>3. /\ order.side = side /\ order.source = source /\ order.symbol = s /\ order.quantity = q
      /\ order.id = id /\ order.price = price /\ order.equity = equity /\ stage = "checked"
  BY <1>1, <1>2a DEF Trade
<1>4. q \in Nat \ {0} /\ price \in Nat OBVIOUS
<1>5. PICK n \in Nat : n = q * price BY <1>4
<1>6. PICK f \in Nat : f = Fee(n) /\ f <= n BY FeeIs
<1>7. Small(source, side, s, q, price, equity) BY <1>3, <1>2a
<1>8. OrderOK'
  <2>1. order' = NoOrder \/ order' = [order EXCEPT !.stage = "checked"] BY DEF Execute
  <2>2. [order EXCEPT !.stage = "checked"] = order BY <1>1, <1>3, <1>2a DEF Trade
  <2> QED BY <2>1, <2>2 DEF OrderOK, PaperInd
<1>9. /\ cash \in Int /\ realized \in Int /\ generation \in Nat \ {0} /\ UNCHANGED generation
      /\ position \in [Symbols -> Int] /\ cost \in [Symbols -> Int]
      /\ cash = InitialCash + Total(Flows) /\ cash >= 0 /\ realized = Total(Profits)
      /\ \A t \in Symbols : /\ position[t] = Total(Bought(t)) /\ position[t] >= 0
                            /\ cost[t] = Total(Spent(t)) /\ (position[t] = 0 => cost[t] = 0)
  BY DEF PaperInd, MoneyOK, PaperAccounted, AccountIsItsOrders, Execute
<1>9a. /\ Total(Flows) \in Int /\ Total(Profits) \in Int
       /\ \A t : Total(Bought(t)) \in Int /\ Total(Spent(t)) \in Int
  <2>1. RowsOK BY DEF PaperInd
  <2>2. \A t : Flows \in Seq(Int) /\ Profits \in Seq(Int) /\ Bought(t) \in Seq(Int) /\ Spent(t) \in Seq(Int)
    BY <2>1, AmountsAreNumbers, Zenon
  <2> QED BY <2>2, TotalIsNumber
<1>10. CASE side = "buy"
  <2>1. PICK o : o = Row("buy", s, q, price, 0) OBVIOUS
  <2>2. /\ cash >= n + f /\ cash' = cash - (n + f) /\ UNCHANGED realized
        /\ position' = [position EXCEPT ![s] = position[s] + q]
        /\ cost' = [cost EXCEPT ![s] = cost[s] + (n + f)]
        /\ orders' = Append(orders, o)
    BY <1>3, <1>5, <1>6, <1>10, <2>1 DEF Execute
  <2>3. /\ o.generation = generation /\ o.side = "buy" /\ o.quantity = q /\ o.notional = n /\ o.fee = f
        /\ o.realized = 0 /\ o.id = id /\ o.source = source /\ o.symbol = s /\ o.equity = equity
    BY <1>3, <1>5, <1>6, <2>1 DEF Row
  <2>4. source = "self" => s \in SelfSymbols /\ (n + f) * 100 <= equity * SelfOrderPercent
    BY <1>5, <1>6, <1>7, <1>10 DEF Small, OrderCost
  <2>5. RowFills(o) BY <1>1, <1>3, <1>4, <1>9, <2>2, <2>3, <2>4 DEF RowFills
  <2>5a. /\ RowsOK' /\ SelfOrdersAreSmall'
         /\ \A i, j \in 1..Len(orders') : orders'[i].id = orders'[j].id => i = j
    BY <2>5, RowIsKept, Zenon
  <2>6. Flow(o) = 0 - (n + f) /\ o.realized - Flow(o) = n + f BY <2>3 DEF Flow
  <2>7. ASSUME NEW t \in Symbols
        PROVE  /\ Total(Flows)' = Total(Flows) - (n + f) /\ Total(Profits)' = Total(Profits)
               /\ Total(Bought(t))' = Total(Bought(t)) + (IF t = s THEN q ELSE 0)
               /\ Total(Spent(t))' = Total(Spent(t)) + (IF t = s THEN n + f ELSE 0)
    <3>1. RowsOK BY DEF PaperInd
    <3>2. /\ Total(Flows)' = Total(Flows) + Flow(o)
          /\ Total(Profits)' = Total(Profits) + o.realized
          /\ Total(Bought(t))' = Total(Bought(t))
                + (IF o.symbol # t THEN 0 ELSE IF o.side = "buy" THEN o.quantity ELSE 0 - o.quantity)
          /\ Total(Spent(t))' = Total(Spent(t)) + (IF o.symbol # t THEN 0 ELSE o.realized - Flow(o))
      BY <2>5, <2>5a, <3>1, RowAdds, Zenon
    <3> QED BY <1>4, <1>9a, <2>3, <2>6, <3>2
  <2>8. MoneyOK'
    <3>1. position[s] + q \in Int /\ cost[s] + (n + f) \in Int /\ cash - (n + f) \in Int BY <1>4, <1>9
    <3> QED BY <1>9, <2>2, <3>1 DEF MoneyOK
  <2>9. cash' = InitialCash + Total(Flows)' /\ cash' >= 0 /\ realized' = Total(Profits)'
    <3>1. Total(Flows)' = Total(Flows) - (n + f) /\ Total(Profits)' = Total(Profits) BY <2>7
    <3>2. PICK x \in Int, y \in Int : x = Total(Flows) /\ y = Total(Profits) BY <1>9a
    <3>3. PICK u : u = n + f OBVIOUS
    <3>4. u \in Int /\ InitialCash \in Int BY <3>3
    <3>5. cash' = (InitialCash + x) - u BY <1>9, <2>2, <3>2, <3>3
    <3>6. cash' = InitialCash + (x - u) BY <3>4, <3>5
    <3>7. cash' >= 0 BY <1>9, <2>2, <3>3, <3>4
    <3> QED BY <1>9, <2>2, <3>1, <3>2, <3>3, <3>6, <3>7
  <2>10. ASSUME NEW t \in Symbols
         PROVE  /\ position'[t] = Total(Bought(t))' /\ position'[t] >= 0
                /\ cost'[t] = Total(Spent(t))' /\ (position'[t] = 0 => cost'[t] = 0)
    <3>1. CASE t = s
      <4>1. PICK x \in Int, y \in Int : x = position[s] /\ y = cost[s] BY <1>9
      <4>2. x = Total(Bought(s)) /\ x >= 0 /\ y = Total(Spent(s)) BY <1>9, <4>1
      <4>3. position'[s] = x + q /\ cost'[s] = y + (n + f) BY <1>9, <2>2, <4>1
      <4>4. Total(Bought(s))' = x + q /\ Total(Spent(s))' = y + (n + f)
        BY <2>7, <3>1, <4>2, Zenon
      <4>5. x + q >= 0 /\ x + q # 0 BY <1>4, <4>2
      <4> QED BY <3>1, <4>3, <4>4, <4>5
    <3>2. CASE t # s BY <1>9, <2>2, <2>7, <3>2
    <3> QED BY <3>1, <3>2
  <2> QED BY <1>8, <2>5a, <2>8, <2>9, <2>10 DEF PaperInd, PaperAccounted, AccountIsItsOrders
<1>11. CASE side = "sell"
  <2>0. position[s] >= q /\ position[s] \in Int /\ cost[s] \in Int /\ position[s] # 0
    BY <1>3, <1>4, <1>9, <1>11 DEF Execute
  <2>1. PICK share \in Int : /\ share = (cost[s] * q) \div position[s]
                             /\ position[s] = q => share = cost[s]
    BY <1>4, <2>0, ShareIs
  <2>2. PICK o : o = Row("sell", s, q, price, (n - f) - share) OBVIOUS
  <2>3. /\ cash' = cash + (n - f) /\ realized' = realized + (n - f) - share
        /\ position' = [position EXCEPT ![s] = position[s] - q]
        /\ cost' = [cost EXCEPT ![s] = cost[s] - share]
        /\ orders' = Append(orders, o)
    BY <1>3, <1>5, <1>6, <1>11, <2>0, <2>1, <2>2 DEF Execute
  <2>4. /\ o.generation = generation /\ o.side = "sell" /\ o.quantity = q /\ o.notional = n /\ o.fee = f
        /\ o.realized = (n - f) - share /\ o.id = id /\ o.source = source /\ o.symbol = s
    BY <1>3, <1>5, <1>6, <2>2 DEF Row
  <2>5. RowFills(o)
    <3>1. (n - f) - share \in Int BY <2>1
    <3> QED BY <1>1, <1>3, <1>4, <1>9, <2>3, <2>4, <3>1 DEF RowFills
  <2>5a. /\ RowsOK' /\ SelfOrdersAreSmall'
         /\ \A i, j \in 1..Len(orders') : orders'[i].id = orders'[j].id => i = j
    BY <2>5, RowIsKept, Zenon
  <2>6. Flow(o) = n - f /\ o.realized - Flow(o) = 0 - share BY <2>4 DEF Flow
  <2>7. ASSUME NEW t \in Symbols
        PROVE  /\ Total(Flows)' = Total(Flows) + (n - f)
               /\ Total(Profits)' = Total(Profits) + (n - f) - share
               /\ Total(Bought(t))' = Total(Bought(t)) - (IF t = s THEN q ELSE 0)
               /\ Total(Spent(t))' = Total(Spent(t)) - (IF t = s THEN share ELSE 0)
    <3>1. RowsOK BY DEF PaperInd
    <3>2. /\ Total(Flows)' = Total(Flows) + Flow(o)
          /\ Total(Profits)' = Total(Profits) + o.realized
          /\ Total(Bought(t))' = Total(Bought(t))
                + (IF o.symbol # t THEN 0 ELSE IF o.side = "buy" THEN o.quantity ELSE 0 - o.quantity)
          /\ Total(Spent(t))' = Total(Spent(t)) + (IF o.symbol # t THEN 0 ELSE o.realized - Flow(o))
      BY <2>5, <2>5a, <3>1, RowAdds, Zenon
    <3> QED BY <1>4, <1>9a, <2>1, <2>4, <2>6, <3>2
  <2>8. MoneyOK'
    <3>0. /\ cash \in Int /\ realized \in Int /\ generation' \in Nat \ {0}
          /\ position \in [Symbols -> Int] /\ cost \in [Symbols -> Int]
      BY <1>9
    <3>1. cash' \in Int /\ realized' \in Int
      <4>1. n - f \in Int OBVIOUS
      <4> QED BY <2>1, <2>3, <3>0, <4>1
    <3>2. position[s] - q \in Int /\ cost[s] - share \in Int BY <1>4, <2>0, <2>1
    <3>3. position' \in [Symbols -> Int] BY <2>3, <3>0, <3>2
    <3>4. cost' \in [Symbols -> Int] BY <2>3, <3>0, <3>2
    <3> QED BY <3>0, <3>1, <3>3, <3>4 DEF MoneyOK
  <2>9. cash' = InitialCash + Total(Flows)' /\ cash' >= 0 /\ realized' = Total(Profits)'
    <3>1. Total(Flows)' = Total(Flows) + (n - f) /\ Total(Profits)' = Total(Profits) + (n - f) - share
      BY <2>7
    <3>2. PICK x \in Int, y \in Int : x = Total(Flows) /\ y = Total(Profits) BY <1>9a
    <3>3. PICK u : u = n - f OBVIOUS
    <3>4. u \in Int /\ u >= 0 /\ InitialCash \in Int BY <1>6, <3>3
    <3>5. cash' = (InitialCash + x) + u /\ cash = InitialCash + x BY <1>9, <2>3, <3>2, <3>3
    <3>6. cash' = InitialCash + (x + u) BY <3>4, <3>5
    <3>7. cash' >= 0 BY <1>9, <3>4, <3>5
    <3> QED BY <1>9, <2>3, <3>1, <3>2, <3>3, <3>6, <3>7
  <2>10. ASSUME NEW t \in Symbols
         PROVE  /\ position'[t] = Total(Bought(t))' /\ position'[t] >= 0
                /\ cost'[t] = Total(Spent(t))' /\ (position'[t] = 0 => cost'[t] = 0)
    <3>0. /\ Total(Bought(t))' = Total(Bought(t)) - (IF t = s THEN q ELSE 0)
          /\ Total(Spent(t))' = Total(Spent(t)) - (IF t = s THEN share ELSE 0)
      BY <2>7
    <3>3. PICK b \in Int, c \in Int : b = Total(Bought(t)) /\ c = Total(Spent(t)) BY <1>9a
    <3>4. /\ position[t] = b /\ b >= 0 /\ cost[t] = c /\ (b = 0 => c = 0)
          /\ t \in Symbols /\ position \in [Symbols -> Int] /\ cost \in [Symbols -> Int]
      BY <1>9, <3>3
    <3>1. CASE t = s
      <4>1. position'[t] = b - q /\ cost'[t] = c - share BY <2>3, <3>1, <3>4
      <4>2. b >= q /\ (b = q => share = c) BY <2>0, <2>1, <3>1, <3>4
      <4> QED BY <1>4, <3>0, <3>1, <3>3, <4>1, <4>2
    <3>2. CASE t # s
      <4>1. position'[t] = b /\ cost'[t] = c BY <2>3, <3>2, <3>4
      <4> QED BY <3>0, <3>2, <3>3, <3>4, <4>1
    <3> QED BY <3>1, <3>2
  <2> QED BY <1>8, <2>5a, <2>8, <2>9, <2>10 DEF PaperInd, PaperAccounted, AccountIsItsOrders
<1> QED BY <1>10, <1>11

(* A reset begins a generation that has no rows.                           *)
LEMMA ResetPaperStays ==
    ASSUME PaperInd, ResetPaper
    PROVE  PaperInd'
<1> USE PaperAssumption
<1>0. /\ order = NoOrder /\ cash' = InitialCash /\ realized' = 0 /\ generation' = generation + 1
      /\ position' = [s \in Symbols |-> 0] /\ cost' = [s \in Symbols |-> 0]
      /\ UNCHANGED <<orders, order>> /\ generation \in Nat \ {0}
  BY DEF ResetPaper, PaperInd, MoneyOK
<1>1. PICK N : N = Len(orders) OBVIOUS
<1>2. N \in Nat
  <2>1. PICK S : orders \in Seq(S) BY DEF PaperInd, RowsOK
  <2> QED BY <1>1, <2>1, LenProperties
<1>3. \A i \in 1..N : orders[i].generation \in 1..generation /\ ~Now(orders[i])'
  BY <1>0, <1>1 DEF PaperInd, RowsOK, Now
<1>4. PICK z : z = [i \in 1..N |-> 0] OBVIOUS
<1>5. z \in Seq(Int) /\ Len(z) = N /\ \A i \in 1..N : z[i] = 0 BY <1>2, <1>4, SeqDef
<1>6. Total(z) = 0 BY <1>5, TotalOfZeros
<1>7. Flows' = z /\ Profits' = z BY <1>0, <1>1, <1>3, <1>4 DEF Flows, Profits
<1>8. ASSUME NEW s PROVE Bought(s)' = z /\ Spent(s)' = z
  BY <1>0, <1>1, <1>3, <1>4 DEF Bought, Spent, NowOf, Now
<1>9. RowsOK'
  <2>1. \A i \in 1..N : orders[i].generation \in 1..(generation + 1) BY <1>0, <1>3
  <2> QED BY <1>0, <1>1, <2>1 DEF PaperInd, RowsOK
<1>10. MoneyOK' BY <1>0 DEF MoneyOK
<1>11. OrderOK' BY <1>0 DEF OrderOK
<1>12. AccountIsItsOrders'
  <2>1. cash' = InitialCash + Total(Flows') /\ cash' >= 0 /\ realized' = Total(Profits')
    BY <1>0, <1>6, <1>7
  <2>2. \A s \in Symbols : /\ position'[s] = Total(Bought(s)') /\ position'[s] >= 0
                           /\ cost'[s] = Total(Spent(s)') /\ (position'[s] = 0 => cost'[s] = 0)
    BY <1>0, <1>6, <1>8
  <2>3. \A i, j \in 1..Len(orders') : orders'[i].id = orders'[j].id => i = j
    BY <1>0 DEF PaperInd, PaperAccounted, AccountIsItsOrders
  <2> QED BY <2>1, <2>2, <2>3 DEF AccountIsItsOrders
<1>13. SelfOrdersAreSmall' BY <1>0 DEF PaperInd, PaperAccounted, SelfOrdersAreSmall
<1> QED BY <1>9, <1>10, <1>11, <1>12, <1>13 DEF PaperInd, PaperAccounted

(* Whatever is ordered, at any prices and fees, with lost answers, repeated *)
(* calls and resets: the account is the sum of its generation's orders,    *)
(* none is filled twice, and what the Agent buys on its own is within its   *)
(* share.                                                                  *)
THEOREM AccountStaysItsOrders == PaperSpec => []PaperAccounted
<1>1. PaperInit => PaperInd
  <2> SUFFICES ASSUME PaperInit PROVE PaperInd OBVIOUS
  <2> USE PaperAssumption
  <2>1. /\ orders = <<>> /\ Len(orders) = 0 /\ \A S : orders \in Seq(S)
        /\ cash = InitialCash /\ generation = 1 /\ realized = 0
        /\ position = [s \in Symbols |-> 0] /\ cost = [s \in Symbols |-> 0] /\ order = NoOrder
    BY EmptySeq DEF PaperInit
  <2>2. RowsOK BY <2>1 DEF RowsOK
  <2>3. \A s : /\ Total(Flows) = 0 /\ Total(Profits) = 0 /\ Total(Bought(s)) = 0 /\ Total(Spent(s)) = 0
    <3> SUFFICES ASSUME NEW s
                 PROVE  /\ Total(Flows) = 0 /\ Total(Profits) = 0
                        /\ Total(Bought(s)) = 0 /\ Total(Spent(s)) = 0
      OBVIOUS
    <3>1. /\ Flows \in Seq(Int) /\ Profits \in Seq(Int) /\ Bought(s) \in Seq(Int) /\ Spent(s) \in Seq(Int)
          /\ Len(Flows) = 0 /\ Len(Profits) = 0 /\ Len(Bought(s)) = 0 /\ Len(Spent(s)) = 0
      BY <2>1, <2>2, AmountsAreNumbers
    <3>2. \A q \in Seq(Int) : Len(q) = 0 => Total(q) = 0
      <4> SUFFICES ASSUME NEW q \in Seq(Int), Len(q) = 0 PROVE Total(q) = 0 OBVIOUS
      <4>1. \A i \in 1..Len(q) : q[i] = 0 OBVIOUS
      <4> QED BY <4>1, TotalOfZeros
    <3> QED BY <3>1, <3>2
  <2>4. AccountIsItsOrders BY <2>1, <2>3 DEF AccountIsItsOrders
  <2>5. MoneyOK /\ OrderOK /\ SelfOrdersAreSmall BY <2>1 DEF MoneyOK, OrderOK, SelfOrdersAreSmall
  <2> QED BY <2>2, <2>4, <2>5 DEF PaperInd, PaperAccounted
<1>2. ASSUME PaperInd, [PaperNext]_paperVars PROVE PaperInd'
  <2> USE <1>2
  <2>1. ASSUME UNCHANGED <<account, orders>>, OrderOK' PROVE PaperInd'
    <3>1. /\ cash' = cash /\ position' = position /\ cost' = cost /\ realized' = realized
          /\ generation' = generation /\ orders' = orders
      BY <2>1 DEF account
    <3>2. MoneyOK' BY <3>1 DEF PaperInd, MoneyOK
    <3>3. RowsOK' BY <3>1 DEF PaperInd, RowsOK
    <3>4. Flows' = Flows /\ Profits' = Profits /\ \A s : Bought(s)' = Bought(s) /\ Spent(s)' = Spent(s)
      BY <3>1 DEF Flows, Profits, Bought, Spent, NowOf, Now
    <3>5. AccountIsItsOrders' BY <3>1, <3>4 DEF PaperInd, PaperAccounted, AccountIsItsOrders
    <3>6. SelfOrdersAreSmall' BY <3>1 DEF PaperInd, PaperAccounted, SelfOrdersAreSmall
    <3> QED BY <2>1, <3>2, <3>3, <3>5, <3>6 DEF PaperInd, PaperAccounted
  <2>2. ASSUME NEW side \in {"buy", "sell"}, NEW source \in {"owner", "self"}, NEW s \in Symbols,
               NEW q \in 1..MaxQuantity, NEW id \in OrderIds, NEW price \in Prices,
               BeginOrder(side, source, s, q, id, price)
        PROVE  PaperInd'
    <3>1. order' \in {order, Trade("quoted", side, source, s, q, id, price, 0)}
      BY <2>2 DEF BeginOrder, Trade
    <3>2. OrderOK'
      <4>1. CASE order' = order BY <4>1 DEF PaperInd, OrderOK
      <4>2. CASE order' = Trade("quoted", side, source, s, q, id, price, 0)
        BY <4>2 DEF OrderOK
      <4> QED BY <3>1, <4>1, <4>2
    <3> QED BY <2>1, <2>2, <3>2 DEF BeginOrder
  <2>3. ASSUME NEW prices \in [Symbols -> Prices], CheckLimits(prices) PROVE PaperInd'
    <3>1. order # NoOrder /\ order.stage = "quoted" BY <2>3 DEF CheckLimits, NoOrder
    <3>2. PICK stage \in {"quoted", "checked"}, side \in {"buy", "sell"}, source \in {"owner", "self"},
               s \in Symbols, q \in 1..MaxQuantity, id \in OrderIds, price \in Prices : \E equity :
                  order = Trade(stage, side, source, s, q, id, price, equity)
      BY <3>1 DEF PaperInd, OrderOK
    <3>2a. PICK equity : order = Trade(stage, side, source, s, q, id, price, equity) BY <3>2
    <3>3. PICK e : e = Equity(prices) OBVIOUS
    <3>4. order' = Trade("checked", side, source, s, q, id, price, e)
      BY <2>3, <3>2a, <3>3 DEF CheckLimits, Trade
    <3>5. Small(source, side, s, q, price, e)
      <4>1. order.source = source /\ order.side = side /\ order.symbol = s /\ order.quantity = q
            /\ order.price = price
        BY <3>2a DEF Trade
      <4> QED BY <2>3, <3>3, <4>1 DEF CheckLimits, WithinSelfLimits, Small
    <3>6. OrderOK' BY <3>4, <3>5 DEF OrderOK
    <3> QED BY <2>1, <2>3, <3>6 DEF CheckLimits
  <2>4. CASE OrderFails
    <3>1. OrderOK' BY <2>4 DEF OrderFails, OrderOK
    <3> QED BY <2>1, <2>4, <3>1 DEF OrderFails
  <2>5. ASSUME NEW answered \in BOOLEAN, Execute(answered) PROVE PaperInd'
    BY <2>5, ExecuteStays
  <2>6. CASE FindDuplicate
    <3>1. OrderOK' BY <2>6 DEF FindDuplicate, OrderOK
    <3> QED BY <2>1, <2>6, <3>1 DEF FindDuplicate
  <2>7. CASE ResetPaper BY <2>7, ResetPaperStays
  <2>8. CASE UNCHANGED paperVars
    <3>1. OrderOK' BY <2>8 DEF paperVars, PaperInd, OrderOK
    <3> QED BY <2>1, <2>8, <3>1 DEF paperVars, account
  <2> QED BY <2>2, <2>3, <2>4, <2>5, <2>6, <2>7, <2>8 DEF PaperNext
<1>3. PaperInd => PaperAccounted BY DEF PaperInd
<1> QED BY <1>1, <1>2, <1>3, PTL DEF PaperSpec

-----------------------------------------------------------------------------
(* The memory (agent/memory-store.ts): the index of its hot words, what its  *)
(* sweep decides of a file, and RememberedIsKept.                           *)

(* No two places of the sequences hold entries of one id.                   *)
AllApart(seqs, N) ==
    \A k, l \in 1..N : \A a \in 1..Len(seqs[k]), b \in 1..Len(seqs[l]) :
        seqs[k][a].id = seqs[l][b].id => k = l /\ a = b

(* A sequence lists what the given ones list, and each id once.             *)
ListsAll(flat, seqs, N) ==
    /\ \A p \in 1..Len(flat) : \E k \in 1..N : \E a \in 1..Len(seqs[k]) : flat[p] = seqs[k][a]
    /\ \A k \in 1..N : \A a \in 1..Len(seqs[k]) : \E p \in 1..Len(flat) : flat[p] = seqs[k][a]
    /\ \A p, q \in 1..Len(flat) : flat[p].id = flat[q].id => p = q

(* Sequences put one after the other list what each of them lists, and      *)
(* nothing else; when no two places of theirs hold entries of one id, no    *)
(* two places of the result do.                                            *)
LEMMA FlatIs ==
    ASSUME NEW S, NEW N \in Nat, N > 0, NEW seqs \in [1..N -> Seq(S)], AllApart(seqs, N),
           NEW flat, flat = FlattenSeq(seqs)
    PROVE  flat \in Seq(S) /\ ListsAll(flat, seqs, N)
<1> DEFINE Puts(m, f) == \A i \in 1..m : f[i] = (IF i = 1 THEN seqs[i] ELSE f[i - 1] \o seqs[i])
           fl == CHOOSE f : f = [i \in 1..N |-> IF i = 1 THEN seqs[i] ELSE f[i - 1] \o seqs[i]]
           Bad == {m \in 1..N : ~\E f : f = [i \in 1..m |-> f[i]] /\ Puts(m, f)}
           Lists(s, m) == s \in Seq(S) /\ ListsAll(s, seqs, m)
<1>1. Bad = {}
  <2> SUFFICES ASSUME Bad # {} PROVE FALSE OBVIOUS
  <2>1. PICK m \in Bad : \A y \in Bad : m <= y
    <3>1. Bad \subseteq Nat OBVIOUS
    <3> HIDE DEF Bad
    <3> QED BY <3>1, MinIsLeast
  <2>2. CASE m = 1
    <3>1. PICK g : g = [i \in 1..m |-> seqs[i]] OBVIOUS
    <3>2. g = [i \in 1..m |-> g[i]] /\ Puts(m, g) BY <2>2, <3>1
    <3> QED BY <2>1, <3>2
  <2>3. CASE m # 1
    <3>1. m - 1 \in 1..N /\ m - 1 \notin Bad /\ m \in 1..N
      <4>1. m \in 1..N BY <2>1
      <4> HIDE DEF Bad
      <4> QED BY <2>1, <2>3, <4>1
    <3>2. PICK f : f = [i \in 1..(m - 1) |-> f[i]] /\ Puts(m - 1, f) BY <3>1
    <3>3. PICK g : g = [i \in 1..m |-> IF i = m THEN f[m - 1] \o seqs[m] ELSE f[i]] OBVIOUS
    <3>4. \A i \in 1..m : i # m => i \in 1..(m - 1) /\ (i # 1 => i - 1 \in 1..(m - 1) /\ i - 1 # m)
      BY <3>1
    <3>5. g = [i \in 1..m |-> g[i]] BY <3>3
    <3>6. Puts(m, g)
      <4> SUFFICES ASSUME NEW i \in 1..m PROVE g[i] = (IF i = 1 THEN seqs[i] ELSE g[i - 1] \o seqs[i])
        OBVIOUS
      <4>1. CASE i = m
        <5>1. m - 1 \in 1..m /\ m - 1 # m /\ m \in 1..m BY <3>1
        <5>2. g[m] = f[m - 1] \o seqs[m] /\ g[m - 1] = f[m - 1] BY <3>3, <5>1, Zenon
        <5> QED BY <2>3, <4>1, <5>2, Zenon
      <4>2. CASE i # m
        <5>1. g[i] = f[i] /\ (i # 1 => i - 1 \in 1..m /\ g[i - 1] = f[i - 1]) BY <3>1, <3>3, <3>4, <4>2
        <5>2. f[i] = (IF i = 1 THEN seqs[i] ELSE f[i - 1] \o seqs[i]) BY <3>2, <3>4, <4>2, Zenon
        <5> QED BY <5>1, <5>2, Zenon
      <4> QED BY <4>1, <4>2
    <3>7. \E h : h = [i \in 1..m |-> h[i]] /\ Puts(m, h)
      <4> HIDE DEF Puts
      <4> QED BY <3>5, <3>6, Zenon
    <3> QED BY <2>1, <3>7
  <2> QED BY <2>2, <2>3
<1>2. fl = [i \in 1..N |-> IF i = 1 THEN seqs[i] ELSE fl[i - 1] \o seqs[i]]
  <2>1. N \in 1..N /\ N \notin Bad BY <1>1
  <2>2. PICK f : f = [i \in 1..N |-> f[i]] /\ Puts(N, f) BY <2>1
  <2>3. f = [i \in 1..N |-> IF i = 1 THEN seqs[i] ELSE f[i - 1] \o seqs[i]] BY <2>2
  <2> QED BY <2>3, Zenon
<1>3. Len(seqs) = N
  <2>1. seqs \in Seq(Seq(S)) BY DEF Seq
  <2> QED BY <2>1, LenProperties
<1>4. flat = fl[N] BY <1>3 DEF FlattenSeq
<1> HIDE DEF fl
<1>5. PICK s : s = fl OBVIOUS
<1>6. \A i \in 1..N : s[i] = (IF i = 1 THEN seqs[i] ELSE s[i - 1] \o seqs[i])
  <2>1. PICK t : t = [i \in 1..N |-> IF i = 1 THEN seqs[i] ELSE s[i - 1] \o seqs[i]] OBVIOUS
  <2>2. s = t BY <1>2, <1>5, <2>1
  <2>3. \A i \in 1..N : t[i] = (IF i = 1 THEN seqs[i] ELSE s[i - 1] \o seqs[i]) BY <2>1
  <2> QED BY <2>2, <2>3
<1>7. ASSUME NEW m \in 2..N, NEW old, Lists(old, m - 1)
      PROVE  Lists(old \o seqs[m], m)
  <2>0. m \in 1..N /\ m - 1 \in 1..N OBVIOUS
  <2>1. old \in Seq(S) /\ seqs[m] \in Seq(S) BY <1>7, <2>0
  <2>2. PICK u : u = old \o seqs[m] OBVIOUS
  <2>3. PICK L : L = Len(old) OBVIOUS
  <2>4. PICK M : M = Len(seqs[m]) OBVIOUS
  <2>5. L \in Nat /\ M \in Nat BY <2>1, <2>3, <2>4, LenProperties
  <2>6. u \in Seq(S) /\ Len(u) = L + M /\ (\A p \in 1..L : u[p] = old[p])
        /\ (\A p \in 1..M : u[p + L] = seqs[m][p])
    <3>0. PICK y : y = seqs[m] OBVIOUS
    <3>1. u \in Seq(S) /\ Len(u) = L + M
      BY <2>1, <2>2, <2>3, <2>4, <3>0, ConcatProperties
    <3>2. \A p \in 1..(L + M) : u[p] = IF p <= L THEN old[p] ELSE seqs[m][p - L]
      <4>1. y \in Seq(S) /\ u = old \o y /\ L = Len(old) /\ M = Len(y) BY <2>1, <2>2, <2>3, <2>4, <3>0
      <4>2. \A p \in 1..(L + M) : u[p] = IF p <= L THEN old[p] ELSE y[p - L]
        BY <2>1, <4>1, ConcatProperties
      <4> QED BY <3>0, <4>2
    <3>3. \A p \in 1..L : u[p] = old[p]
      <4>1. \A p \in 1..L : p \in 1..(L + M) /\ p <= L BY <2>5
      <4> QED BY <3>2, <4>1
    <3>4. ASSUME NEW p \in 1..M PROVE u[p + L] = seqs[m][p]
      <4>1. p + L \in 1..(L + M) /\ ~(p + L <= L) /\ (p + L) - L = p BY <2>5
      <4> QED BY <3>2, <4>1
    <3> QED BY <3>1, <3>3, <3>4
  <2>7. \A p \in 1..Len(u) : p \in 1..L \/ \E a \in 1..M : p = a + L
    <3> SUFFICES ASSUME NEW p \in 1..(L + M), p \notin 1..L PROVE \E a \in 1..M : p = a + L
      BY <2>6
    <3>1. p - L \in 1..M /\ p = (p - L) + L BY <2>5
    <3> QED BY <3>1
  <2>8. \A p \in 1..L : p \in 1..Len(u) BY <2>5, <2>6
  <2>9. \A a \in 1..M : a + L \in 1..Len(u) BY <2>5, <2>6
  <2>10. ASSUME NEW p \in 1..Len(u)
         PROVE  \E k \in 1..m : \E a \in 1..Len(seqs[k]) : u[p] = seqs[k][a]
    <3>1. CASE p \in 1..L
      <4>1. u[p] = old[p] BY <2>6, <3>1
      <4>2. PICK k \in 1..(m - 1) : \E a \in 1..Len(seqs[k]) : old[p] = seqs[k][a]
        BY <1>7, <2>3, <3>1 DEF ListsAll
      <4>3. k \in 1..m OBVIOUS
      <4> QED BY <4>1, <4>2, <4>3
    <3>2. CASE p \notin 1..L
      <4>1. PICK a \in 1..M : p = a + L BY <2>7, <3>2
      <4>2. u[p] = seqs[m][a] BY <2>6, <4>1
      <4>3. m \in 1..m OBVIOUS
      <4> QED BY <2>4, <4>2, <4>3
    <3> QED BY <3>1, <3>2
  <2>11. ASSUME NEW k \in 1..m, NEW a \in 1..Len(seqs[k])
         PROVE  \E p \in 1..Len(u) : u[p] = seqs[k][a]
    <3>1. CASE k = m
      <4>1. a \in 1..M /\ u[a + L] = seqs[k][a] BY <2>4, <2>6, <3>1
      <4> QED BY <2>9, <4>1
    <3>2. CASE k # m
      <4>1. k \in 1..(m - 1) BY <3>2
      <4>2. PICK p \in 1..L : old[p] = seqs[k][a] BY <1>7, <2>3, <4>1 DEF ListsAll
      <4> QED BY <2>6, <2>8, <4>2
    <3> QED BY <3>1, <3>2
  <2>12. ASSUME NEW p \in 1..L, NEW b \in 1..M PROVE u[p].id # u[b + L].id
    <3>1. PICK k \in 1..(m - 1) : \E a \in 1..Len(seqs[k]) : old[p] = seqs[k][a] BY <1>7, <2>3 DEF ListsAll
    <3>2. PICK a \in 1..Len(seqs[k]) : old[p] = seqs[k][a] BY <3>1
    <3>3. k \in 1..N /\ k # m BY <2>0
    <3>4. b \in 1..Len(seqs[m]) BY <2>4
    <3>5. seqs[k][a].id # seqs[m][b].id BY <2>0, <3>3, <3>4 DEF AllApart
    <3> QED BY <2>6, <3>2, <3>5
  <2>13. ASSUME NEW p \in 1..Len(u), NEW q \in 1..Len(u), u[p].id = u[q].id PROVE p = q
    <3>1. CASE p \in 1..L /\ q \in 1..L
      <4>1. old[p].id = old[q].id BY <2>6, <2>13, <3>1
      <4> QED BY <1>7, <2>3, <3>1, <4>1 DEF ListsAll
    <3>2. CASE p \in 1..L /\ q \notin 1..L
      <4>1. PICK b \in 1..M : q = b + L BY <2>7, <3>2
      <4> QED BY <2>12, <2>13, <3>2, <4>1
    <3>3. CASE p \notin 1..L /\ q \in 1..L
      <4>1. PICK b \in 1..M : p = b + L BY <2>7, <3>3
      <4> QED BY <2>12, <2>13, <3>3, <4>1
    <3>4. CASE p \notin 1..L /\ q \notin 1..L
      <4>1. PICK a \in 1..M : p = a + L BY <2>7, <3>4
      <4>2. PICK b \in 1..M : q = b + L BY <2>7, <3>4
      <4>3. seqs[m][a].id = seqs[m][b].id BY <2>6, <2>13, <4>1, <4>2
      <4>4. a \in 1..Len(seqs[m]) /\ b \in 1..Len(seqs[m]) BY <2>4
      <4> QED BY <2>0, <4>1, <4>2, <4>3, <4>4 DEF AllApart
    <3> QED BY <3>1, <3>2, <3>3, <3>4
  <2>14. Lists(u, m) BY <2>6, <2>10, <2>11, <2>13 DEF ListsAll
  <2> HIDE DEF Lists
  <2> QED BY <2>2, <2>14
<1>8. Lists(seqs[1], 1)
  <2>1. 1 \in 1..N OBVIOUS
  <2>2. seqs[1] \in Seq(S) BY <2>1
  <2>3. \A k \in 1..1 : k = 1 OBVIOUS
  <2>4. 1 \in 1..1 OBVIOUS
  <2>5. \A p, q \in 1..Len(seqs[1]) : seqs[1][p].id = seqs[1][q].id => p = q BY <2>1 DEF AllApart
  <2> QED BY <2>2, <2>3, <2>4, <2>5, Zenon DEF ListsAll
<1>9. \A n \in 1..N : Lists(s[n], n)
  <2> DEFINE Odd == {n \in 1..N : ~Lists(s[n], n)}
  <2> HIDE DEF Lists
  <2> SUFFICES ASSUME Odd # {} PROVE FALSE OBVIOUS
  <2>1. PICK m \in Odd : \A y \in Odd : m <= y
    <3>1. Odd \subseteq Nat OBVIOUS
    <3> HIDE DEF Odd
    <3> QED BY <3>1, MinIsLeast
  <2>2. m # 1
    <3>1. 1 \in 1..N OBVIOUS
    <3>2. s[1] = seqs[1] BY <1>6, <3>1
    <3> QED BY <1>8, <2>1, <3>2
  <2>3. m \in 2..N /\ m - 1 \in 1..N /\ m - 1 < m BY <2>1, <2>2
  <2>4. m - 1 \notin Odd BY <2>1, <2>3
  <2>5. Lists(s[m - 1], m - 1) BY <2>3, <2>4
  <2>6. s[m] = s[m - 1] \o seqs[m] BY <1>6, <2>2, <2>3
  <2>7. Lists(s[m - 1] \o seqs[m], m) BY <1>7, <2>3, <2>5
  <2> QED BY <2>1, <2>6, <2>7
<1>10. Lists(flat, N)
  <2> HIDE DEF Lists
  <2>1. N \in 1..N OBVIOUS
  <2> QED BY <1>4, <1>5, <1>9, <2>1
<1> QED BY <1>10

-----------------------------------------------------------------------------
(* Long-term memory.                                                       *)

StoredEntry == [id : Nat, fact : Facts, tier : {"recent", "stable"},
                status : {"active", "disputed", "superseded"}, sources : SUBSET Sources,
                supersedes : SUBSET Nat]

(* A file: no two entries of one id, and ids that were given out.           *)
FileOf(es, last) ==
    /\ es \in Seq(StoredEntry)
    /\ \A j, k \in 1..Len(es) : es[j].id = es[k].id => j = k
    /\ \A k \in 1..Len(es) : es[k].id \in 1..last

DiscardedIds(ds) == {d.entry.id : d \in ds}

(* A superseded entry has its successor.                                   *)
Succeeded(es, ds) ==
    \A k \in 1..Len(es) : es[k].status = "superseded" =>
        \/ \E j \in 1..Len(es) : es[k].id \in es[j].supersedes
        \/ \E d \in ds : es[k].id \in d.entry.supersedes

(* What a writer does to the file: an entry stays, with what it supersedes,  *)
(* or is discarded as it was; one that becomes superseded gets a successor.  *)
FileMoves(es, ds, next, nextDs) ==
    /\ ds \subseteq nextDs
    /\ \A k \in 1..Len(es) :
          \/ \E p \in 1..Len(next) : next[p].id = es[k].id /\ next[p].supersedes = es[k].supersedes
          \/ \E d \in nextDs : d.entry = es[k]
    /\ \A p \in 1..Len(next) : next[p].status = "superseded" =>
          \/ \E k \in 1..Len(es) : es[k].id = next[p].id /\ es[k].status = "superseded"
          \/ \E q \in 1..Len(next) : next[p].id \in next[q].supersedes

(* What a writer or a review read is what the file was at that version, and  *)
(* a file is written only by the holder of its lock.                        *)
MemoryInd ==
    /\ lastEntry \in Nat /\ version \in Nat
    /\ FileOf(entries, lastEntry)
    /\ acknowledged \subseteq EntryIds(entries) \cup DiscardedIds(discarded)
    /\ \A d \in discarded : d.entry = d.seen
    /\ Succeeded(entries, discarded)
    /\ lockedBy \in {"none", "agent", "review"}
    /\ lockedBy # "none" => base = TheFile
    /\ lockedBy = "review" => review = "decided"
    /\ review \in {"idle", "started", "inspected", "decided"}
    /\ review \in {"inspected", "decided"} =>
          /\ reviewed.version \in Nat /\ reviewed.version <= version
          /\ reviewed.version = version => reviewed = TheFile
    /\ review = "decided" =>
          /\ decision \subseteq Operation
          /\ \A op \in decision : Valid(op, reviewed.entries)
          /\ \A op1, op2 \in decision : op1 # op2 => op1.ids \cap op2.ids = {}
    /\ ref # NoRef =>
          /\ ref.version \in Nat /\ ref.version <= version
          /\ ref.version = version => ref.id \in EntryIds(entries)
    /\ memoryCall.kind \in {"remember", "correct"} => memoryCall.fact \in Facts /\ memoryCall.source \in Sources
    /\ memoryCall.kind = "correct" => ref # NoRef

(* An entry is the one its id names.                                       *)
LEMMA EntryNamed ==
    ASSUME NEW es, NEW last, FileOf(es, last)
    PROVE  /\ \A k \in 1..Len(es) : EntryOf(es, es[k].id) = es[k]
           /\ \A i \in EntryIds(es) : \E k \in 1..Len(es) : es[k].id = i /\ EntryOf(es, i) = es[k]
<1>1. \A k \in 1..Len(es) : EntryOf(es, es[k].id) = es[k]
  <2> SUFFICES ASSUME NEW k \in 1..Len(es) PROVE EntryOf(es, es[k].id) = es[k] OBVIOUS
  <2>1. PICK i : i = es[k].id OBVIOUS
  <2>2. PICK c : c = CHOOSE j \in 1..Len(es) : es[j].id = i OBVIOUS
  <2>3. c \in 1..Len(es) /\ es[c].id = i BY <2>1, <2>2
  <2>4. c = k BY <2>1, <2>3 DEF FileOf
  <2> QED BY <2>1, <2>2, <2>4 DEF EntryOf
<1> QED BY <1>1 DEF EntryIds

(* Distinct ids are as many as the entries.                                *)
LEMMA IdsCounted ==
    ASSUME NEW es, NEW last, FileOf(es, last)
    PROVE  Cardinality(EntryIds(es)) = Len(es)
<1>1. PICK N : N = Len(es) OBVIOUS
<1>2. N \in Nat BY <1>1, LenProperties DEF FileOf
<1>3. PICK f : f = [k \in 1..N |-> es[k].id] OBVIOUS
<1>4. f \in Bijection(1..N, EntryIds(es))
  <2>1. f \in [1..N -> EntryIds(es)] BY <1>1, <1>3 DEF EntryIds
  <2>2. \A j, k \in 1..N : f[j] = f[k] => j = k BY <1>1, <1>3 DEF FileOf
  <2>3. \A i \in EntryIds(es) : \E k \in 1..N : f[k] = i BY <1>1, <1>3 DEF EntryIds
  <2> QED BY <2>1, <2>2, <2>3 DEF Bijection, Injection, Surjection, IsInjective
<1>5. ExistsBijection(1..N, EntryIds(es)) BY <1>4 DEF ExistsBijection
<1>6. IsFiniteSet(1..N) /\ Cardinality(1..N) = N BY <1>2, FS_Interval
<1>7. Cardinality(EntryIds(es)) = N BY <1>5, <1>6, FS_Bijection
<1> QED BY <1>1, <1>7

(* Moved that way, the file loses no entry and no successor.                *)
LEMMA FileStaysKept ==
    ASSUME NEW es, NEW ds, NEW next, NEW nextDs, FileMoves(es, ds, next, nextDs), Succeeded(es, ds)
    PROVE  /\ Succeeded(next, nextDs)
           /\ EntryIds(es) \cup DiscardedIds(ds) \subseteq EntryIds(next) \cup DiscardedIds(nextDs)
<1>0. ds \subseteq nextDs BY DEF FileMoves
<1>1. EntryIds(es) \subseteq EntryIds(next) \cup DiscardedIds(nextDs)
  <2> SUFFICES ASSUME NEW k \in 1..Len(es) PROVE es[k].id \in EntryIds(next) \cup DiscardedIds(nextDs)
    BY DEF EntryIds
  <2>1. CASE \E p \in 1..Len(next) : next[p].id = es[k].id BY <2>1 DEF EntryIds
  <2>2. CASE \E d \in nextDs : d.entry = es[k] BY <2>2 DEF DiscardedIds
  <2> QED BY <2>1, <2>2 DEF FileMoves
<1>2. DiscardedIds(ds) \subseteq DiscardedIds(nextDs) BY <1>0 DEF DiscardedIds
<1>3. ASSUME NEW p \in 1..Len(next), next[p].status = "superseded"
      PROVE  \/ \E q \in 1..Len(next) : next[p].id \in next[q].supersedes
             \/ \E d \in nextDs : next[p].id \in d.entry.supersedes
  <2>1. CASE \E k \in 1..Len(es) : es[k].id = next[p].id /\ es[k].status = "superseded"
    <3>1. PICK k \in 1..Len(es) : es[k].id = next[p].id /\ es[k].status = "superseded" BY <2>1
    <3>2. CASE \E j \in 1..Len(es) : es[k].id \in es[j].supersedes
      <4>1. PICK j \in 1..Len(es) : es[k].id \in es[j].supersedes BY <3>2
      <4>2. \/ \E q \in 1..Len(next) : next[q].id = es[j].id /\ next[q].supersedes = es[j].supersedes
            \/ \E d \in nextDs : d.entry = es[j]
        BY DEF FileMoves
      <4> QED BY <3>1, <4>1, <4>2
    <3>3. CASE \E d \in ds : es[k].id \in d.entry.supersedes BY <1>0, <3>1, <3>3
    <3> QED BY <3>1, <3>2, <3>3 DEF Succeeded
  <2>2. CASE \E q \in 1..Len(next) : next[p].id \in next[q].supersedes BY <2>2
  <2> QED BY <1>3, <2>1, <2>2 DEF FileMoves
<1> QED BY <1>1, <1>2, <1>3 DEF Succeeded

(* The inductive invariant says what RememberedIsKept says.                 *)
LEMMA IndImpliesRemembered == MemoryInd => RememberedIsKept
<1> SUFFICES ASSUME MemoryInd PROVE RememberedIsKept OBVIOUS
<1>1. acknowledged \subseteq EntryIds(entries) \cup {d.entry.id : d \in discarded}
  BY DEF MemoryInd, DiscardedIds
<1>2. \A d \in discarded : d.entry = d.seen BY DEF MemoryInd
<1>3. ASSUME NEW k \in 1..Len(entries), entries[k].status = "superseded"
      PROVE  \E e \in ToSet(entries) \cup {d.entry : d \in discarded} : entries[k].id \in e.supersedes
  <2>1. \/ \E j \in 1..Len(entries) : entries[k].id \in entries[j].supersedes
        \/ \E d \in discarded : entries[k].id \in d.entry.supersedes
    BY <1>3 DEF MemoryInd, Succeeded
  <2>2. \A j \in 1..Len(entries) : entries[j] \in ToSet(entries)
    <3>1. DOMAIN entries = 1..Len(entries) BY LenProperties DEF MemoryInd, FileOf
    <3> QED BY <3>1 DEF ToSet
  <2> QED BY <2>1, <2>2
<1>4. Cardinality(EntryIds(entries)) = Len(entries) BY IdsCounted DEF MemoryInd
<1> QED BY <1>1, <1>2, <1>3, <1>4 DEF RememberedIsKept

(* It holds of memory files as they are at the start.                       *)
LEMMA MemoryBegins == MemoryInit => MemoryInd
<1> SUFFICES ASSUME MemoryInit PROVE MemoryInd OBVIOUS
<1>1. entries = <<>> /\ Len(entries) = 0 /\ 1..Len(entries) = {} BY DEF MemoryInit
<1>2. FileOf(entries, lastEntry) /\ Succeeded(entries, discarded) BY <1>1 DEF FileOf, Succeeded
<1> QED BY <1>1, <1>2 DEF MemoryInit, MemoryInd, NoRef, NoMemoryCall

(* The steps that write nothing.                                           *)
LEMMA ReadersStay ==
    ASSUME MemoryInd,
           \/ \E i \in 1..MaxEntries : Recall(i)
           \/ \E kind \in {"remember", "correct"}, fact \in Facts, source \in Sources :
                 AskMemory(kind, fact, source)
           \/ AgentLocks \/ ReviewLocks \/ MemoryCallFails
           \/ StartReview \/ (\E due \in BOOLEAN : Inspect(due))
           \/ ReviewFails \/ ApplyFails \/ ForgetReviews
           \/ UNCHANGED memoryVars
    PROVE  MemoryInd'
<1>1. CASE \E i \in 1..MaxEntries : Recall(i)
  <2>1. PICK i \in 1..MaxEntries : Recall(i) BY <1>1
  <2>2. ref' = [id |-> i, version |-> version] /\ i \in EntryIds(entries) BY <2>1 DEF Recall
  <2>3. UNCHANGED <<entries, version, lastEntry, lockedBy, base, memoryCall, reviewAsked, review, reviewed,
                    decision, acknowledged, discarded>>
    BY <2>1 DEF Recall, file, worker
  <2> QED BY <1>1, <2>2, <2>3 DEF MemoryInd, EntryIds, DiscardedIds, TheFile, NoRef, NoMemoryCall
<1>2. CASE \E kind \in {"remember", "correct"}, fact \in Facts, source \in Sources :
              AskMemory(kind, fact, source)
  <2>1. PICK kind \in {"remember", "correct"}, fact \in Facts, source \in Sources :
           AskMemory(kind, fact, source)
    BY <1>2
  <2> QED BY <2>1 DEF AskMemory, MemoryInd, EntryIds, DiscardedIds, TheFile, file, worker
<1>3. CASE AgentLocks
  <2> QED BY <1>3 DEF AgentLocks, ReadLocked, LockFree, MemoryInd, EntryIds, DiscardedIds, TheFile, file, worker
<1>4. CASE ReviewLocks
  <2> QED BY <1>4 DEF ReviewLocks, ReadLocked, LockFree, MemoryInd, EntryIds, DiscardedIds, TheFile, file, worker
<1>5. CASE MemoryCallFails
  <2>1. lastEntry' = lastEntry /\ acknowledged' = acknowledged
    BY <1>5, FS_EmptySet DEF MemoryCallFails, Acknowledge, MemoryInd
  <2>2. UNCHANGED <<entries, version, review, reviewed, decision, discarded>>
        /\ memoryCall' = NoMemoryCall /\ ref' = NoRef /\ lockedBy' = "none"
    BY <1>5 DEF MemoryCallFails, Acknowledge, Unlock
  <2> QED BY <2>1, <2>2 DEF MemoryInd, EntryIds, DiscardedIds, TheFile, NoMemoryCall, NoRef
<1>6. CASE StartReview
  <2> QED BY <1>6 DEF StartReview, MemoryInd, EntryIds, DiscardedIds, TheFile, file
<1>7. CASE \E due \in BOOLEAN : Inspect(due)
  <2> QED BY <1>7 DEF Inspect, MemoryInd, EntryIds, DiscardedIds, TheFile, file
<1>8. CASE ReviewFails
  <2> QED BY <1>8 DEF ReviewFails, ReviewEnds, MemoryInd, EntryIds, DiscardedIds, TheFile, file
<1>9. CASE ApplyFails
  <2> QED BY <1>9 DEF ApplyFails, ReviewEnds, Unlock, MemoryInd, EntryIds, DiscardedIds, TheFile, file
<1>10. CASE ForgetReviews
  <2> QED BY <1>10 DEF ForgetReviews, Unlock, NoMemoryCall, MemoryInd, EntryIds, DiscardedIds, TheFile, file
<1>11. CASE UNCHANGED memoryVars
  <2> QED BY <1>11 DEF memoryVars, MemoryInd, EntryIds, DiscardedIds, TheFile
<1> QED BY <1>1, <1>2, <1>3, <1>4, <1>5, <1>6, <1>7, <1>8, <1>9, <1>10, <1>11

(* The model's decision is about what it was shown.                        *)
LEMMA DecideStays ==
    ASSUME MemoryInd, NEW ops, ops \subseteq {op \in Operation : Valid(op, reviewed.entries)},
           Decide(ops)
    PROVE  MemoryInd'
<1>1. ops \subseteq Operation /\ \A op \in ops : Valid(op, reviewed.entries) OBVIOUS
<1>2. \A op1, op2 \in ops : op1 # op2 => op1.ids \cap op2.ids = {} BY DEF Decide
<1>3. review = "inspected" /\ review' = "decided" /\ decision' = ops
      /\ UNCHANGED <<entries, version, lastEntry, lockedBy, base, memoryCall, ref, reviewed, acknowledged,
                     discarded>>
  BY DEF Decide, file
<1>4. \A op \in decision' : Valid(op, reviewed.entries)'
  <2>1. PICK r : r = reviewed.entries OBVIOUS
  <2>2. reviewed'.entries = r BY <1>3, <2>1
  <2>3. \A op \in ops : Valid(op, r) BY <1>1, <2>1
  <2>4. \A op \in ops : Valid(op, reviewed'.entries) BY <2>2, <2>3, Zenon
  <2> QED BY <1>3, <2>4
<1>5. decision' \subseteq Operation BY <1>1, <1>3
<1> QED BY <1>2, <1>3, <1>4, <1>5 DEF MemoryInd, EntryIds, DiscardedIds, TheFile

(* A writer that moves the file that way keeps the invariant.               *)
LEMMA WriterStays ==
    ASSUME MemoryInd,
           lastEntry' \in Nat, version' = version + 1, FileOf(entries', lastEntry'),
           FileMoves(entries, discarded, entries', discarded'),
           acknowledged' \subseteq acknowledged \cup EntryIds(entries'),
           \A d \in discarded' : d.entry = d.seen,
           lockedBy' = "none",
           UNCHANGED <<review, reviewed, decision>> \/ review' = "idle",
           UNCHANGED <<memoryCall, ref>> \/ (memoryCall' = NoMemoryCall /\ ref' = NoRef)
    PROVE  MemoryInd'
<1>1. Succeeded(entries', discarded')
      /\ EntryIds(entries) \cup DiscardedIds(discarded) \subseteq EntryIds(entries') \cup DiscardedIds(discarded')
  <2>1. Succeeded(entries, discarded) BY DEF MemoryInd
  <2> QED BY <2>1, FileStaysKept
<1>2. acknowledged' \subseteq EntryIds(entries') \cup DiscardedIds(discarded') BY <1>1 DEF MemoryInd
<1>3. version \in Nat /\ version' \in Nat BY DEF MemoryInd
<1>4. review' \in {"inspected", "decided"} =>
          /\ reviewed'.version \in Nat /\ reviewed'.version <= version'
          /\ reviewed'.version # version'
  <2> SUFFICES ASSUME review' \in {"inspected", "decided"}
               PROVE  /\ reviewed'.version \in Nat /\ reviewed'.version <= version'
                      /\ reviewed'.version # version'
    OBVIOUS
  <2>1. review' = review /\ reviewed' = reviewed OBVIOUS
  <2>2. reviewed.version \in Nat /\ reviewed.version <= version BY <2>1 DEF MemoryInd
  <2> QED BY <1>3, <2>1, <2>2
<1>5. review' = "decided" =>
          /\ decision' \subseteq Operation
          /\ \A op \in decision' : Valid(op, reviewed'.entries)
          /\ \A op1, op2 \in decision' : op1 # op2 => op1.ids \cap op2.ids = {}
  <2> SUFFICES ASSUME review' = "decided"
               PROVE  /\ decision' \subseteq Operation
                      /\ \A op \in decision' : Valid(op, reviewed'.entries)
                      /\ \A op1, op2 \in decision' : op1 # op2 => op1.ids \cap op2.ids = {}
    OBVIOUS
  <2>1. review = "decided" /\ reviewed' = reviewed /\ decision' = decision OBVIOUS
  <2>2. /\ decision \subseteq Operation
        /\ \A op \in decision : Valid(op, reviewed.entries)
        /\ \A op1, op2 \in decision : op1 # op2 => op1.ids \cap op2.ids = {}
    BY <2>1 DEF MemoryInd
  <2> QED BY <2>1, <2>2, Zenon
<1>6. review' \in {"idle", "started", "inspected", "decided"} BY DEF MemoryInd
<1>7. ref' # NoRef => ref'.version \in Nat /\ ref'.version <= version' /\ ref'.version # version'
  <2> SUFFICES ASSUME ref' # NoRef
               PROVE  ref'.version \in Nat /\ ref'.version <= version' /\ ref'.version # version'
    OBVIOUS
  <2>1. ref' = ref OBVIOUS
  <2>2. ref.version \in Nat /\ ref.version <= version BY <2>1 DEF MemoryInd
  <2> QED BY <1>3, <2>1, <2>2
<1>8. /\ memoryCall'.kind \in {"remember", "correct"} => memoryCall'.fact \in Facts /\ memoryCall'.source \in Sources
      /\ memoryCall'.kind = "correct" => ref' # NoRef
  <2>1. CASE UNCHANGED <<memoryCall, ref>> BY <2>1 DEF MemoryInd
  <2>2. CASE memoryCall' = NoMemoryCall BY <2>2 DEF NoMemoryCall
  <2> QED BY <2>1, <2>2
<1> QED BY <1>1, <1>2, <1>3, <1>4, <1>5, <1>6, <1>7, <1>8 DEF MemoryInd

(* Remembering: a fact the file has gets its evidence, or an entry is added. *)
LEMMA RememberStays ==
    ASSUME MemoryInd, Remember
    PROVE  MemoryInd'
<1> DEFINE es == base.entries
           same == {k \in 1..Len(es) : es[k].fact = memoryCall.fact}
           entry == NewEntry(memoryCall.fact, "recent", {memoryCall.source}, {})
<1>0. es = entries /\ memoryCall.fact \in Facts /\ memoryCall.source \in Sources
      /\ FileOf(entries, lastEntry) /\ lastEntry \in Nat /\ version \in Nat
  BY DEF Remember, MemoryInd, TheFile
<1>1. /\ lockedBy' = "none" /\ memoryCall' = NoMemoryCall /\ ref' = NoRef
      /\ UNCHANGED <<review, reviewed, decision, discarded>>
  BY DEF Remember, Acknowledge, Unlock
<1>2. CASE same # {}
  <2>1. lastEntry' = lastEntry /\ acknowledged' = acknowledged
    <3>1. Acknowledge({}) BY <1>2 DEF Remember
    <3> QED BY <1>0, <3>1, FS_EmptySet DEF Acknowledge
  <2>2. PICK k \in same : IF memoryCall.source \in es[k].sources
                          THEN UNCHANGED <<entries, version>>
                          ELSE Store([es EXCEPT ![k].sources = @ \cup {memoryCall.source}])
    BY <1>2 DEF Remember
  <2>3. CASE UNCHANGED <<entries, version>>
    BY <1>1, <2>1, <2>3 DEF MemoryInd, EntryIds, DiscardedIds, TheFile, NoMemoryCall, NoRef
  <2>4. CASE Store([entries EXCEPT ![k].sources = @ \cup {memoryCall.source}])
    <3>1. entries' = [entries EXCEPT ![k].sources = @ \cup {memoryCall.source}] /\ version' = version + 1
      BY <2>4 DEF Store
    <3>2. k \in 1..Len(entries) BY <1>0
    <3>3. entries \in Seq(StoredEntry) /\ entries[k] \in StoredEntry BY <1>0, <3>2, ElementOfSeq DEF FileOf
    <3>4. PICK e : e = [entries[k] EXCEPT !.sources = @ \cup {memoryCall.source}] OBVIOUS
    <3>5. e \in StoredEntry /\ e.id = entries[k].id /\ e.status = entries[k].status
          /\ e.supersedes = entries[k].supersedes
      BY <1>0, <3>3, <3>4 DEF StoredEntry
    <3>6. entries' = [entries EXCEPT ![k] = e] BY <3>1, <3>4
    <3>7. entries' \in Seq(StoredEntry) /\ Len(entries') = Len(entries) BY <3>2, <3>3, <3>5, <3>6, ExceptSeq
    <3>8. \A j \in 1..Len(entries) :
             /\ entries'[j].id = entries[j].id /\ entries'[j].status = entries[j].status
             /\ entries'[j].supersedes = entries[j].supersedes
      <4>1. DOMAIN entries = 1..Len(entries) BY <3>3, LenProperties
      <4> QED BY <3>5, <3>6, <4>1
    <3>9. FileOf(entries', lastEntry') BY <1>0, <2>1, <3>7, <3>8 DEF FileOf
    <3>10. FileMoves(entries, discarded, entries', discarded') BY <1>1, <3>7, <3>8 DEF FileMoves
    <3>11. \A d \in discarded' : d.entry = d.seen BY <1>1 DEF MemoryInd
    <3> QED BY <1>0, <1>1, <2>1, <3>1, <3>9, <3>10, <3>11, WriterStays
  <2> QED BY <1>0, <2>2, <2>3, <2>4
<1>3. CASE same = {}
  <2>1. PICK e : e = entry OBVIOUS
  <2>2. e \in StoredEntry /\ e.id = lastEntry + 1 /\ e.status = "active"
    BY <1>0, <2>1 DEF NewEntry, StoredEntry
  <2>3. entries' = Append(entries, e) /\ version' = version + 1
    BY <1>0, <1>3, <2>1 DEF Remember, Store
  <2>4. lastEntry' = lastEntry + 1 /\ acknowledged' = acknowledged \cup {e.id}
    <3>1. Acknowledge({e.id}) BY <1>3, <2>1 DEF Remember
    <3> QED BY <1>0, <3>1, FS_Singleton DEF Acknowledge
  <2>5. PICK n : n = Len(entries) OBVIOUS
  <2>6. n \in Nat /\ entries \in Seq(StoredEntry) BY <1>0, <2>5, LenProperties DEF FileOf
  <2>7. entries' \in Seq(StoredEntry) /\ Len(entries') = n + 1 /\ entries'[n + 1] = e
        /\ \A k \in 1..n : entries'[k] = entries[k]
    BY <2>2, <2>3, <2>5, <2>6, AppendProperties
  <2>8. \A k \in 1..(n + 1) : k \in 1..n \/ k = n + 1 BY <2>6
  <2>9. \A k \in 1..n : k \in 1..(n + 1) BY <2>6
  <2>10. FileOf(entries', lastEntry')
    <3>1. \A k \in 1..n : entries[k].id \in 1..lastEntry BY <1>0, <2>5 DEF FileOf
    <3>2. \A j, k \in 1..n : entries[j].id = entries[k].id => j = k BY <1>0, <2>5 DEF FileOf
    <3>3. \A k \in 1..(n + 1) : entries'[k].id \in 1..(lastEntry + 1) BY <1>0, <2>2, <2>7, <2>8, <3>1
    <3>4. \A k \in 1..n : entries'[k].id # entries'[n + 1].id BY <1>0, <2>2, <2>7, <3>1
    <3>5. \A j, k \in 1..(n + 1) : entries'[j].id = entries'[k].id => j = k BY <2>7, <2>8, <3>2, <3>4
    <3> QED BY <2>4, <2>7, <3>3, <3>5 DEF FileOf
  <2>11. FileMoves(entries, discarded, entries', discarded')
    <3>1. \A p \in 1..(n + 1) : entries'[p].status = "superseded" =>
             \E k \in 1..n : entries[k].id = entries'[p].id /\ entries[k].status = "superseded"
      BY <2>2, <2>7, <2>8
    <3> QED BY <1>1, <2>5, <2>7, <2>9, <3>1 DEF FileMoves
  <2>12. acknowledged' \subseteq acknowledged \cup EntryIds(entries')
    <3>1. n + 1 \in 1..(n + 1) BY <2>6
    <3> QED BY <2>4, <2>7, <3>1 DEF EntryIds
  <2>13. \A d \in discarded' : d.entry = d.seen BY <1>1 DEF MemoryInd
  <2>14. lastEntry' \in Nat BY <1>0, <2>4
  <2> QED BY <1>1, <2>3, <2>10, <2>11, <2>12, <2>13, <2>14, WriterStays
<1> QED BY <1>2, <1>3

(* What is inserted stands where it was put, and the rest around it.        *)
LEMMA InsertedIs ==
    ASSUME NEW S, NEW s \in Seq(S), NEW n, n = Len(s), NEW i \in 1..(n + 1), NEW e \in S,
           NEW t, t = InsertAt(s, i, e)
    PROVE  /\ t \in Seq(S) /\ Len(t) = n + 1 /\ t[i] = e
           /\ \A p \in 1..n : p < i => t[p] = s[p]
           /\ \A p \in 1..n : p >= i => t[p + 1] = s[p]
<1>0. n \in Nat /\ \A p \in 1..n : s[p] \in S BY LenProperties, ElementOfSeq
<1>1. PICK x : x = SubSeq(s, 1, i - 1) OBVIOUS
<1>2. PICK y : y = <<e>> OBVIOUS
<1>3. PICK z : z = SubSeq(s, i, n) OBVIOUS
<1>4. x \in Seq(S) /\ Len(x) = i - 1 /\ \A p \in 1..(i - 1) : x[p] = s[p]
  <2>1. 1 \in Int /\ i - 1 \in Int /\ \A p \in 1..(i - 1) : s[p] \in S BY <1>0
  <2>2. x \in Seq(S) /\ Len(x) = (IF 1 <= i - 1 THEN (i - 1) - 1 + 1 ELSE 0)
        /\ \A p \in 1..((i - 1) - 1 + 1) : x[p] = s[1 + p - 1]
    BY <1>1, <2>1, SubSeqProperties
  <2> QED BY <2>2
<1>5. z \in Seq(S) /\ Len(z) = n - i + 1 /\ \A p \in 1..(n - i + 1) : z[p] = s[i + p - 1]
  <2>1. i \in Int /\ n \in Int /\ \A p \in i..n : s[p] \in S BY <1>0
  <2>2. z \in Seq(S) /\ Len(z) = (IF i <= n THEN n - i + 1 ELSE 0)
        /\ \A p \in 1..(n - i + 1) : z[p] = s[i + p - 1]
    BY <1>3, <2>1, SubSeqProperties
  <2> QED BY <1>0, <2>2
<1>6. y \in Seq(S) /\ Len(y) = 1 /\ y[1] = e BY <1>2
<1>7. PICK w : w = x \o y OBVIOUS
<1>8. w \in Seq(S) /\ Len(w) = i
      /\ \A p \in 1..i : w[p] = IF p <= i - 1 THEN x[p] ELSE y[p - (i - 1)]
  <2>1. w \in Seq(S) /\ Len(w) = Len(x) + Len(y)
        /\ \A p \in 1..(Len(x) + Len(y)) : w[p] = IF p <= Len(x) THEN x[p] ELSE y[p - Len(x)]
    BY <1>4, <1>6, <1>7, ConcatProperties
  <2>2. Len(x) + Len(y) = i BY <1>0, <1>4, <1>6
  <2> QED BY <1>4, <2>1, <2>2
<1>9. t = w \o z BY <1>1, <1>2, <1>3, <1>7 DEF InsertAt
<1>10. t \in Seq(S) /\ Len(t) = n + 1
       /\ \A p \in 1..(n + 1) : t[p] = IF p <= i THEN w[p] ELSE z[p - i]
  <2>1. t \in Seq(S) /\ Len(t) = Len(w) + Len(z)
        /\ \A p \in 1..(Len(w) + Len(z)) : t[p] = IF p <= Len(w) THEN w[p] ELSE z[p - Len(w)]
    BY <1>5, <1>8, <1>9, ConcatProperties
  <2>2. Len(w) + Len(z) = n + 1 BY <1>0, <1>5, <1>8
  <2> QED BY <1>8, <2>1, <2>2
<1>11. t[i] = e
  <2>1. i \in 1..i /\ i <= i /\ ~(i <= i - 1) /\ i - (i - 1) = 1 BY <1>0
  <2> QED BY <1>6, <1>8, <1>10, <2>1
<1>12. ASSUME NEW p \in 1..n, p < i PROVE t[p] = s[p]
  <2>1. p \in 1..(n + 1) /\ p <= i /\ p \in 1..i /\ p <= i - 1 /\ p \in 1..(i - 1) BY <1>0, <1>12
  <2> QED BY <1>4, <1>8, <1>10, <2>1
<1>13. ASSUME NEW p \in 1..n, p >= i PROVE t[p + 1] = s[p]
  <2>1. p + 1 \in 1..(n + 1) /\ ~(p + 1 <= i) /\ (p + 1) - i \in 1..(n - i + 1)
        /\ i + ((p + 1) - i) - 1 = p
    BY <1>0, <1>13
  <2> QED BY <1>5, <1>10, <2>1
<1> QED BY <1>10, <1>11, <1>12, <1>13

(* A correction supersedes the entry the reference names.                   *)
LEMMA CorrectStays ==
    ASSUME MemoryInd, Correct
    PROVE  MemoryInd'
<1>0. base = TheFile /\ base.entries = entries /\ ref.version = version
      /\ memoryCall.fact \in Facts /\ memoryCall.source \in Sources /\ ref # NoRef
      /\ FileOf(entries, lastEntry) /\ lastEntry \in Nat /\ version \in Nat
  BY DEF Correct, MemoryInd, TheFile
<1>1. ref.id \in EntryIds(entries) BY <1>0 DEF MemoryInd
<1>2. PICK i : i = ref.id OBVIOUS
<1>3. PICK at : at = CHOOSE k \in 1..Len(entries) : entries[k].id = i OBVIOUS
<1>4. at \in 1..Len(entries) /\ entries[at].id = i BY <1>1, <1>2, <1>3 DEF EntryIds
<1>5. PICK e : e = NewEntry(memoryCall.fact, "recent", {memoryCall.source}, {i}) OBVIOUS
<1>6. PICK o : o = WithStatus(entries[at], "superseded") OBVIOUS
<1>7. PICK s : s = [entries EXCEPT ![at] = o] OBVIOUS
<1>8. /\ entries' = InsertAt(s, at + 1, e) /\ version' = version + 1
      /\ Acknowledge({e.id})
  BY <1>0, <1>2, <1>3, <1>5, <1>6, <1>7 DEF Correct, Store
<1>9. /\ lockedBy' = "none" /\ memoryCall' = NoMemoryCall /\ ref' = NoRef
      /\ UNCHANGED <<review, reviewed, decision, discarded>>
  BY DEF Correct, Acknowledge, Unlock
<1>10. lastEntry' = lastEntry + 1 /\ acknowledged' = acknowledged \cup {e.id}
  BY <1>0, <1>8, FS_Singleton DEF Acknowledge
<1>11. PICK n : n = Len(entries) OBVIOUS
<1>12. n \in Nat /\ entries \in Seq(StoredEntry) /\ \A k \in 1..n : entries[k] \in StoredEntry
  BY <1>0, <1>11, LenProperties, ElementOfSeq DEF FileOf
<1>13. o \in StoredEntry /\ o.id = i /\ o.supersedes = entries[at].supersedes
  <2>1. entries[at] \in StoredEntry BY <1>4, <1>11, <1>12
  <2> QED BY <1>4, <1>6, <2>1 DEF WithStatus, StoredEntry
<1>14. e \in StoredEntry /\ e.id = lastEntry + 1 /\ e.status = "active" /\ e.supersedes = {i}
  <2>1. i \in Nat BY <1>13 DEF StoredEntry
  <2> QED BY <1>0, <1>5, <2>1 DEF NewEntry, StoredEntry
<1>15. s \in Seq(StoredEntry) /\ Len(s) = n /\ \A k \in 1..n : s[k] = IF k = at THEN o ELSE entries[k]
  BY <1>4, <1>7, <1>11, <1>12, <1>13, ExceptSeq
<1>16. at + 1 \in 1..(n + 1) BY <1>4, <1>11, <1>12
<1>17. PICK t : t = entries' OBVIOUS
<1>18. /\ t \in Seq(StoredEntry) /\ Len(t) = n + 1 /\ t[at + 1] = e
       /\ \A p \in 1..n : p < at + 1 => t[p] = s[p]
       /\ \A p \in 1..n : p >= at + 1 => t[p + 1] = s[p]
  <2>1. n = Len(s) /\ t = InsertAt(s, at + 1, e) BY <1>8, <1>15, <1>17
  <2>2. PICK j : j = at + 1 OBVIOUS
  <2>3. j \in 1..(n + 1) /\ t = InsertAt(s, j, e) BY <1>16, <2>1, <2>2
  <2>4. /\ t \in Seq(StoredEntry) /\ Len(t) = n + 1 /\ t[j] = e
        /\ \A p \in 1..n : p < j => t[p] = s[p]
        /\ \A p \in 1..n : p >= j => t[p + 1] = s[p]
    BY <1>14, <1>15, <2>1, <2>3, InsertedIs
  <2> QED BY <2>2, <2>4
<1> DEFINE Put(k) == IF k < at + 1 THEN k ELSE k + 1
<1>19. \A k \in 1..n : /\ Put(k) \in 1..(n + 1) /\ Put(k) # at + 1
                       /\ t[Put(k)].id = entries[k].id /\ t[Put(k)].supersedes = entries[k].supersedes
                       /\ k # at => t[Put(k)] = entries[k]
  <2> SUFFICES ASSUME NEW k \in 1..n
               PROVE  /\ Put(k) \in 1..(n + 1) /\ Put(k) # at + 1
                      /\ t[Put(k)].id = entries[k].id /\ t[Put(k)].supersedes = entries[k].supersedes
                      /\ k # at => t[Put(k)] = entries[k]
    OBVIOUS
  <2>0. k \in Int /\ at \in Int BY <1>4, <1>11, <1>12
  <2>1. Put(k) \in 1..(n + 1) /\ Put(k) # at + 1 BY <1>12, <2>0
  <2>2. t[Put(k)] = s[k] BY <1>18, <2>0
  <2>3. s[k] = IF k = at THEN o ELSE entries[k] BY <1>15
  <2> QED BY <1>4, <1>13, <2>1, <2>2, <2>3
<1>20. \A p \in 1..(n + 1) : p = at + 1 \/ \E k \in 1..n : p = Put(k)
  <2> SUFFICES ASSUME NEW p \in 1..(n + 1), p # at + 1 PROVE \E k \in 1..n : p = Put(k) OBVIOUS
  <2>0. at \in Int /\ at >= 1 /\ at <= n BY <1>4, <1>11, <1>12
  <2>1. CASE p < at + 1
    <3>1. p \in 1..n /\ p = Put(p) BY <1>12, <2>0, <2>1
    <3> QED BY <3>1
  <2>2. CASE p > at + 1
    <3>1. p - 1 \in 1..n /\ p = Put(p - 1) BY <1>12, <2>0, <2>2
    <3> QED BY <3>1
  <2> QED BY <2>0, <2>1, <2>2
<1> HIDE DEF Put
<1>21. \A k \in 1..n : entries[k].id \in 1..lastEntry BY <1>0, <1>11 DEF FileOf
<1>22. \A j, k \in 1..n : entries[j].id = entries[k].id => j = k BY <1>0, <1>11 DEF FileOf
<1>23. FileOf(t, lastEntry')
  <2>1. \A p \in 1..(n + 1) : t[p].id \in 1..(lastEntry + 1)
    <3>1. ASSUME NEW p \in 1..(n + 1) PROVE t[p].id \in 1..(lastEntry + 1)
      <4>1. CASE p = at + 1 BY <1>0, <1>14, <1>18, <4>1
      <4>2. CASE p # at + 1
        <5>1. PICK k \in 1..n : p = Put(k) BY <1>20, <4>2
        <5>2. t[p].id = entries[k].id BY <1>19, <5>1
        <5>3. t[p].id \in 1..lastEntry BY <1>21, <5>2
        <5> QED BY <1>0, <5>3
      <4> QED BY <4>1, <4>2
    <3> QED BY <3>1
  <2>2. \A k \in 1..n : entries[k].id # lastEntry + 1 BY <1>0, <1>21
  <2>3. ASSUME NEW p \in 1..(n + 1), NEW q \in 1..(n + 1), t[p].id = t[q].id PROVE p = q
    <3>1. CASE p = at + 1 /\ q = at + 1 BY <3>1
    <3>2. CASE p = at + 1 /\ q # at + 1
      <4>1. PICK k \in 1..n : q = Put(k) BY <1>20, <3>2
      <4>2. entries[k].id = lastEntry + 1 BY <1>14, <1>18, <1>19, <2>3, <3>2, <4>1
      <4> QED BY <2>2, <4>2
    <3>3. CASE p # at + 1 /\ q = at + 1
      <4>1. PICK k \in 1..n : p = Put(k) BY <1>20, <3>3
      <4>2. entries[k].id = lastEntry + 1 BY <1>14, <1>18, <1>19, <2>3, <3>3, <4>1
      <4> QED BY <2>2, <4>2
    <3>4. CASE p # at + 1 /\ q # at + 1
      <4>1. PICK j \in 1..n : p = Put(j) BY <1>20, <3>4
      <4>2. PICK k \in 1..n : q = Put(k) BY <1>20, <3>4
      <4>3. entries[j].id = entries[k].id BY <1>19, <2>3, <4>1, <4>2
      <4> QED BY <1>22, <4>1, <4>2, <4>3
    <3> QED BY <3>1, <3>2, <3>3, <3>4
  <2> QED BY <1>10, <1>18, <2>1, <2>3 DEF FileOf
<1>24. FileMoves(entries, discarded, t, discarded')
  <2>1. ASSUME NEW p \in 1..(n + 1), t[p].status = "superseded"
        PROVE  \/ \E k \in 1..n : entries[k].id = t[p].id /\ entries[k].status = "superseded"
               \/ \E q \in 1..(n + 1) : t[p].id \in t[q].supersedes
    <3>1. p # at + 1 BY <1>14, <1>18, <2>1
    <3>2. PICK k \in 1..n : p = Put(k) BY <1>20, <3>1
    <3>3. CASE k = at
      <4>1. t[p].id = i BY <1>4, <1>19, <3>2, <3>3
      <4>2. t[p].id \in t[at + 1].supersedes BY <1>14, <1>18, <4>1
      <4> QED BY <1>16, <4>2
    <3>4. CASE k # at
      <4>1. t[p] = entries[k] BY <1>19, <3>2, <3>4
      <4> QED BY <2>1, <4>1
    <3> QED BY <3>3, <3>4
  <2>2. \A k \in 1..n : \E p \in 1..(n + 1) :
           t[p].id = entries[k].id /\ t[p].supersedes = entries[k].supersedes
    BY <1>19
  <2> QED BY <1>9, <1>11, <1>18, <2>1, <2>2 DEF FileMoves
<1>25. acknowledged' \subseteq acknowledged \cup EntryIds(t)
  BY <1>10, <1>16, <1>18 DEF EntryIds
<1>26. \A d \in discarded' : d.entry = d.seen BY <1>9 DEF MemoryInd
<1>27. lastEntry' \in Nat BY <1>0, <1>10
<1> QED BY <1>8, <1>9, <1>17, <1>23, <1>24, <1>25, <1>26, <1>27, WriterStays

(* Operations are finitely many.                                           *)
LEMMA OperationsFinite == IsFiniteSet(Operation)
<1> DEFINE A == {"promote", "discard", "mark_disputed", "merge"}
           I == SUBSET (1..MaxEntries)
<1>1. IsFiniteSet(A)
  <2>1. IsFiniteSet({"promote"}) BY FS_Singleton
  <2>2. IsFiniteSet({"promote"} \cup {"discard"}) BY <2>1, FS_AddElement
  <2>3. IsFiniteSet({"promote"} \cup {"discard"} \cup {"mark_disputed"}) BY <2>2, FS_AddElement
  <2>4. IsFiniteSet({"promote"} \cup {"discard"} \cup {"mark_disputed"} \cup {"merge"})
    BY <2>3, FS_AddElement
  <2>5. A = {"promote"} \cup {"discard"} \cup {"mark_disputed"} \cup {"merge"} OBVIOUS
  <2> QED BY <2>4, <2>5
<1>2. IsFiniteSet(I)
  <2>1. IsFiniteSet(1..MaxEntries) BY MemoryAssumption, FS_Interval
  <2> QED BY <2>1, FS_SUBSET
<1>3. IsFiniteSet(A \X I) BY <1>1, <1>2, FS_Product
<1>4. PICK f : f = [p \in A \X I |-> [action |-> p[1], ids |-> p[2]]] OBVIOUS
<1>5. f \in Surjection(A \X I, Operation)
  <2>1. f \in [A \X I -> Operation] BY <1>4 DEF Operation
  <2>2. ASSUME NEW op \in Operation PROVE \E p \in A \X I : f[p] = op
    <3>1. op.action \in A /\ op.ids \in I /\ op = [action |-> op.action, ids |-> op.ids] BY DEF Operation
    <3>2. <<op.action, op.ids>> \in A \X I BY <3>1
    <3>3. f[<<op.action, op.ids>>] = op BY <1>4, <3>1, <3>2
    <3> QED BY <3>2, <3>3
  <2> QED BY <2>1, <2>2 DEF Surjection
<1> QED BY <1>3, <1>5, FS_Surjection

(* The operation that takes an entry is told by the entry's id.              *)
LEMMA OneOperation ==
    ASSUME NEW ops, \A op1, op2 \in ops : op1 # op2 => op1.ids \cap op2.ids = {},
           NEW op \in ops, NEW i \in op.ids
    PROVE  (CHOOSE o \in ops : i \in o.ids) = op
<1>1. PICK c : c = CHOOSE o \in ops : i \in o.ids OBVIOUS
<1>2. c \in ops /\ i \in c.ids BY <1>1
<1>3. c = op BY <1>2
<1> QED BY <1>1, <1>3

(* What an operation makes of an entry it takes: nothing, the entry itself   *)
(* changed, or the merged entry before it.                                  *)
TakenBy(e, op, es, fact) ==
    LET merged == NewEntry(fact, "stable", UNION {EntryOf(es, i).sources : i \in op.ids}, op.ids)
        first == CHOOSE i \in op.ids : \A j \in op.ids : i <= j
    IN  CASE op.action = "discard" -> <<>>
          [] op.action = "promote" -> <<[e EXCEPT !.tier = "stable"]>>
          [] op.action = "mark_disputed" -> <<WithStatus(e, "disputed")>>
          [] op.action = "merge" ->
                IF Contradictory(op, es) THEN <<WithStatus(e, "disputed")>>
                ELSE IF e.id = first THEN <<merged, WithStatus(e, "superseded")>>
                ELSE <<WithStatus(e, "superseded")>>

(* Of decisions about different entries only the one about an entry has a   *)
(* say in what becomes of it.                                               *)
LEMMA FateIs ==
    ASSUME NEW es, NEW ops, NEW fact, NEW e,
           \A op1, op2 \in ops : op1 # op2 => op1.ids \cap op2.ids = {},
           NEW op \in ops, e.id \in op.ids
    PROVE  Fate(e, ops, es, fact) = TakenBy(e, op, es, fact)
<1>1. PICK i : i = e.id OBVIOUS
<1>2. PICK c : c = CHOOSE o \in ops : i \in o.ids OBVIOUS
<1>3. c = op BY <1>1, <1>2, OneOperation
<1>4. ~\A o \in ops : e.id \notin o.ids OBVIOUS
<1> QED BY <1>1, <1>2, <1>3, <1>4, Zenon DEF Fate, TakenBy

(* The least of the ids of an operation.                                    *)
LEMMA FirstIs ==
    ASSUME NEW ids, ids \subseteq Nat, ids # {}, NEW c, c = CHOOSE i \in ids : \A j \in ids : i <= j
    PROVE  c \in ids /\ \A j \in ids : c <= j
<1>1. \E i \in ids : \A j \in ids : i <= j BY MinIsLeast
<1> QED BY <1>1, Zenon

FirstOf(op) == CHOOSE i \in op.ids : \A j \in op.ids : i <= j

(* An entry stays under its id unless discarded; the merged entry comes once, *)
(* where the first of the merged was; only those become superseded.          *)
PieceIsSound(piece, e, ops, es) ==
    /\ piece \in Seq(StoredEntry)
    /\ \A a \in 1..Len(piece) :
          \/ piece[a].id = e.id
          \/ piece[a].id = lastEntry + 1 /\ \E op \in Merges(ops, es) : e.id = FirstOf(op)
    /\ \A a, b \in 1..Len(piece) : piece[a].id = piece[b].id => a = b
    /\ \/ \E a \in 1..Len(piece) : piece[a].id = e.id /\ piece[a].supersedes = e.supersedes
       \/ \E op \in ops : op.action = "discard" /\ e.id \in op.ids
    /\ \A a \in 1..Len(piece) : piece[a].status = "superseded" =>
          /\ piece[a].id = e.id
          /\ e.status = "superseded" \/ \E op \in Merges(ops, es) : e.id \in op.ids
    /\ \A op \in Merges(ops, es) : e.id = FirstOf(op) =>
          \E a \in 1..Len(piece) : piece[a].supersedes = op.ids

(* What becomes of an entry is sound: it stays or was discarded, it is      *)
(* superseded only by a merge, and the first of a merge brings the entry    *)
(* that supersedes all of them.                                             *)
LEMMA FateIsSound ==
    ASSUME NEW es, NEW ops, NEW fact \in Facts, NEW e \in StoredEntry,
           lastEntry \in Nat, e.id \in 1..lastEntry, FileOf(es, lastEntry),
           ops \subseteq Operation, \A op \in ops : Valid(op, es),
           \A op1, op2 \in ops : op1 # op2 => op1.ids \cap op2.ids = {},
           NEW piece, piece = Fate(e, ops, es, fact)
    PROVE  PieceIsSound(piece, e, ops, es)
<1>0. \A op \in ops : /\ op.ids \subseteq Nat /\ op.ids \subseteq EntryIds(es)
                      /\ op.action \in {"promote", "discard", "mark_disputed", "merge"}
                      /\ op.action = "merge" => op.ids # {}
  <2> SUFFICES ASSUME NEW op \in ops
               PROVE  /\ op.ids \subseteq Nat /\ op.ids \subseteq EntryIds(es)
                      /\ op.action \in {"promote", "discard", "mark_disputed", "merge"}
                      /\ op.action = "merge" => op.ids # {}
    OBVIOUS
  <2>1. op.ids \in SUBSET (1..MaxEntries) /\ op.action \in {"promote", "discard", "mark_disputed", "merge"}
    BY DEF Operation
  <2>2. op.ids \subseteq EntryIds(es) BY DEF Valid
  <2>3. op.action = "merge" => op.ids # {}
    <3>1. op.action = "merge" => Cardinality(op.ids) >= 2 BY DEF Valid
    <3>2. Cardinality({}) = 0 BY FS_EmptySet
    <3> QED BY <3>1, <3>2
  <2> QED BY <2>1, <2>2, <2>3
<1>1. \A op \in Merges(ops, es) : op \in ops /\ op.action = "merge" /\ ~Contradictory(op, es)
  BY DEF Merges
<1>2. \A op \in Merges(ops, es) : FirstOf(op) \in op.ids
  <2> SUFFICES ASSUME NEW op \in Merges(ops, es) PROVE FirstOf(op) \in op.ids OBVIOUS
  <2>1. op.ids \subseteq Nat /\ op.ids # {} BY <1>0, <1>1
  <2> QED BY <2>1, FirstIs DEF FirstOf
<1>3. CASE \A op \in ops : e.id \notin op.ids
  <2>1. piece = <<e>> BY <1>3 DEF Fate
  <2>2. piece \in Seq(StoredEntry) /\ Len(piece) = 1 /\ piece[1] = e BY <2>1
  <2>3. \A a \in 1..Len(piece) : a = 1 BY <2>2
  <2>4. 1 \in 1..Len(piece) BY <2>2
  <2>5. \A op \in Merges(ops, es) : e.id # FirstOf(op) BY <1>1, <1>2, <1>3
  <2> QED BY <2>2, <2>3, <2>4, <2>5 DEF PieceIsSound
<1>4. ASSUME NEW op \in ops, e.id \in op.ids
      PROVE  PieceIsSound(piece, e, ops, es)
  <2>0. piece = TakenBy(e, op, es, fact) BY <1>4, FateIs
  <2>1. \A o \in Merges(ops, es) : e.id \in o.ids => o = op
    BY <1>1, <1>4
  <2>2. \A o \in Merges(ops, es) : e.id = FirstOf(o) => o = op BY <1>2, <2>1
  <2>3. ASSUME NEW x \in StoredEntry, x.id = e.id, x.supersedes = e.supersedes, piece = <<x>>,
               x.status = "superseded" => e.status = "superseded" \/ op \in Merges(ops, es),
               op \in Merges(ops, es) => e.id # FirstOf(op)
        PROVE  PieceIsSound(piece, e, ops, es)
    <3>1. piece \in Seq(StoredEntry) /\ Len(piece) = 1 /\ piece[1] = x BY <2>3
    <3>2. \A a \in 1..Len(piece) : a = 1 BY <3>1
    <3>3. 1 \in 1..Len(piece) BY <3>1
    <3>4. \A o \in Merges(ops, es) : e.id # FirstOf(o) BY <2>2, <2>3
    <3>5. e.id \in op.ids BY <1>4
    <3> QED BY <2>3, <3>1, <3>2, <3>3, <3>4, <3>5 DEF PieceIsSound
  <2>4. CASE op.action = "discard"
    <3>1. piece = <<>> BY <2>0, <2>4 DEF TakenBy
    <3>2. piece \in Seq(StoredEntry) /\ Len(piece) = 0 /\ 1..Len(piece) = {} BY <3>1
    <3>3. op \notin Merges(ops, es) BY <1>1, <2>4
    <3>4. \A o \in Merges(ops, es) : e.id # FirstOf(o) BY <2>2, <3>3
    <3>5. \E o \in ops : o.action = "discard" /\ e.id \in o.ids BY <1>4, <2>4
    <3> QED BY <3>2, <3>4, <3>5 DEF PieceIsSound
  <2>5. CASE op.action = "promote"
    <3>1. PICK x : x = [e EXCEPT !.tier = "stable"] OBVIOUS
    <3>2. piece = <<x>> BY <2>0, <2>5, <3>1 DEF TakenBy
    <3>3. x \in StoredEntry /\ x.id = e.id /\ x.supersedes = e.supersedes /\ x.status = e.status
      BY <3>1 DEF StoredEntry
    <3>4. op \notin Merges(ops, es) BY <1>1, <2>5
    <3> QED BY <2>3, <3>2, <3>3, <3>4
  <2>6. CASE op.action = "mark_disputed" \/ (op.action = "merge" /\ Contradictory(op, es))
    <3>1. PICK x : x = WithStatus(e, "disputed") OBVIOUS
    <3>2. piece = <<x>>
      <4>1. CASE op.action = "mark_disputed" BY <2>0, <3>1, <4>1 DEF TakenBy
      <4>2. CASE op.action = "merge" /\ Contradictory(op, es) BY <2>0, <3>1, <4>2 DEF TakenBy
      <4> QED BY <2>6, <4>1, <4>2
    <3>3. x \in StoredEntry /\ x.id = e.id /\ x.supersedes = e.supersedes /\ x.status = "disputed"
      BY <3>1 DEF StoredEntry, WithStatus
    <3>4. op \notin Merges(ops, es) BY <1>1, <2>6
    <3> QED BY <2>3, <3>2, <3>3, <3>4
  <2>7. CASE op.action = "merge" /\ ~Contradictory(op, es)
    <3>0. op \in Merges(ops, es) BY <2>7 DEF Merges
    <3>1. PICK x : x = WithStatus(e, "superseded") OBVIOUS
    <3>2. x \in StoredEntry /\ x.id = e.id /\ x.supersedes = e.supersedes
      BY <3>1 DEF StoredEntry, WithStatus
    <3>3. CASE e.id # FirstOf(op)
      <4>1. piece = <<x>> BY <2>0, <2>7, <3>1, <3>3 DEF TakenBy, FirstOf
      <4> QED BY <2>3, <3>0, <3>2, <3>3, <4>1
    <3>4. CASE e.id = FirstOf(op)
      <4>1. PICK m : m = NewEntry(fact, "stable", UNION {EntryOf(es, i).sources : i \in op.ids}, op.ids)
        OBVIOUS
      <4>2. piece = <<m, x>> BY <2>0, <2>7, <3>1, <3>4, <4>1 DEF TakenBy, FirstOf
      <4>3. UNION {EntryOf(es, i).sources : i \in op.ids} \in SUBSET Sources
        <5>1. ASSUME NEW i \in op.ids PROVE EntryOf(es, i).sources \subseteq Sources
          <6>1. i \in EntryIds(es) BY <1>0
          <6>2. PICK k \in 1..Len(es) : EntryOf(es, i) = es[k] BY <6>1, EntryNamed
          <6>3. es[k] \in StoredEntry BY ElementOfSeq DEF FileOf
          <6> QED BY <6>2, <6>3 DEF StoredEntry
        <5> QED BY <5>1
      <4>4. m \in StoredEntry /\ m.id = lastEntry + 1 /\ m.status = "active" /\ m.supersedes = op.ids
        <5>1. op.ids \in SUBSET Nat BY <1>0
        <5>2. lastEntry + 1 \in Nat OBVIOUS
        <5> QED BY <4>1, <4>3, <5>1, <5>2 DEF NewEntry, StoredEntry
      <4>5. piece \in Seq(StoredEntry) /\ Len(piece) = 2 /\ piece[1] = m /\ piece[2] = x
        BY <3>2, <4>2, <4>4
      <4>6. \A a \in 1..Len(piece) : a = 1 \/ a = 2 BY <4>5
      <4>7. 1 \in 1..Len(piece) /\ 2 \in 1..Len(piece) BY <4>5
      <4>8. m.id # e.id BY <4>4
      <4>9. \A a \in 1..Len(piece) :
               \/ piece[a].id = e.id
               \/ piece[a].id = lastEntry + 1 /\ \E o \in Merges(ops, es) : e.id = FirstOf(o)
        BY <3>0, <3>2, <3>4, <4>4, <4>5, <4>6
      <4>10. \A a, b \in 1..Len(piece) : piece[a].id = piece[b].id => a = b
        BY <3>2, <4>5, <4>6, <4>8
      <4>11. \A a \in 1..Len(piece) : piece[a].status = "superseded" =>
                piece[a].id = e.id /\ \E o \in Merges(ops, es) : e.id \in o.ids
        BY <1>4, <3>0, <3>2, <4>4, <4>5, <4>6
      <4>12. \A o \in Merges(ops, es) : e.id = FirstOf(o) =>
                \E a \in 1..Len(piece) : piece[a].supersedes = o.ids
        BY <2>2, <4>4, <4>5, <4>7
      <4>13. \E a \in 1..Len(piece) : piece[a].id = e.id /\ piece[a].supersedes = e.supersedes
        BY <3>2, <4>5, <4>7
      <4> QED BY <4>5, <4>9, <4>10, <4>11, <4>12, <4>13 DEF PieceIsSound
    <3> QED BY <3>3, <3>4
  <2> QED BY <1>0, <1>4, <2>4, <2>5, <2>6, <2>7
<1> QED BY <1>3, <1>4

(* A review applies its decision to the very file it saw.                   *)
LEMMA ApplyStays ==
    ASSUME MemoryInd, NEW fact \in Facts, ApplyDecision(fact)
    PROVE  MemoryInd'
<1>1. /\ lockedBy = "review" /\ base = TheFile /\ review = "decided" /\ base.version = reviewed.version
      /\ base.entries = entries /\ base.version = version
  BY DEF ApplyDecision, SameRevision, MemoryInd, TheFile
<1>2. reviewed = TheFile /\ reviewed.entries = entries BY <1>1 DEF MemoryInd, TheFile
<1>3. PICK es : es = entries OBVIOUS
<1>4. PICK ops : ops = decision OBVIOUS
<1>5. FileOf(es, lastEntry) /\ lastEntry \in Nat /\ version \in Nat BY <1>3 DEF MemoryInd
<1>6. /\ ops \subseteq Operation
      /\ \A op \in ops : Valid(op, es)
      /\ \A op1, op2 \in ops : op1 # op2 => op1.ids \cap op2.ids = {}
  <2>1. /\ decision \subseteq Operation
        /\ \A op \in decision : Valid(op, reviewed.entries)
        /\ \A op1, op2 \in decision : op1 # op2 => op1.ids \cap op2.ids = {}
    BY <1>1 DEF MemoryInd
  <2>2. \A op \in decision : Valid(op, es) BY <1>2, <1>3, <2>1, Zenon
  <2> QED BY <1>4, <2>1, <2>2
<1>7. PICK n : n = Len(es) OBVIOUS
<1>8. n \in Nat /\ es \in Seq(StoredEntry) /\ \A k \in 1..n : es[k] \in StoredEntry
  BY <1>5, <1>7, LenProperties, ElementOfSeq DEF FileOf
<1>9. PICK seqs : seqs = [k \in 1..n |-> Fate(es[k], ops, es, fact)] OBVIOUS
<1>10. PICK next : next = FlattenSeq(seqs) OBVIOUS
<1>11. PICK lost : lost = UNION {op.ids : op \in {o \in ops : o.action = "discard"}} OBVIOUS
<1>12. /\ Cardinality(Merges(ops, es)) <= 1 /\ next # <<>>
       /\ entries' = next /\ version' = version + 1
       /\ lastEntry' = lastEntry + Cardinality(Merges(ops, es))
       /\ discarded' = discarded \cup
             {[entry |-> EntryOf(es, i), seen |-> EntryOf(reviewed.entries, i)] : i \in lost}
       /\ lockedBy' = "none" /\ review' = "idle"
       /\ UNCHANGED <<memoryCall, ref, acknowledged>>
  BY <1>1, <1>3, <1>4, <1>7, <1>9, <1>10, <1>11 DEF ApplyDecision, Store, Unlock, ReviewEnds
<1>13. \A d \in discarded' : d.entry = d.seen
  <2>1. \A d \in discarded : d.entry = d.seen BY DEF MemoryInd
  <2>2. \A i \in lost : EntryOf(es, i) = EntryOf(reviewed.entries, i) BY <1>2, <1>3
  <2> QED BY <1>12, <2>1, <2>2
<1>14. /\ Cardinality(Merges(ops, es)) \in {0, 1}
       /\ \A o1, o2 \in Merges(ops, es) : o1 = o2
       /\ Merges(ops, es) # {} => Cardinality(Merges(ops, es)) = 1
  <2>1. IsFiniteSet(Merges(ops, es))
    <3>1. Merges(ops, es) \in SUBSET Operation BY <1>6 DEF Merges
    <3> QED BY <3>1, OperationsFinite, FS_Subset
  <2>2. PICK M : M = Merges(ops, es) OBVIOUS
  <2>3. Cardinality(M) \in Nat /\ (Cardinality(M) = 0 <=> M = {}) /\ (Cardinality(M) = 1 <=> \E x : M = {x})
    BY <2>1, <2>2, FS_CardinalityType, FS_EmptySet, FS_Singleton
  <2>4. Cardinality(M) <= 1 BY <1>12, <2>2
  <2> QED BY <2>2, <2>3, <2>4
<1>15. \A k \in 1..n : es[k].id \in 1..lastEntry BY <1>5, <1>7 DEF FileOf
<1>16. \A j, k \in 1..n : es[j].id = es[k].id => j = k BY <1>5, <1>7 DEF FileOf
<1>17. \A k \in 1..n : PieceIsSound(seqs[k], es[k], ops, es)
  <2> SUFFICES ASSUME NEW k \in 1..n PROVE PieceIsSound(seqs[k], es[k], ops, es) OBVIOUS
  <2>1. seqs[k] = Fate(es[k], ops, es, fact) BY <1>9
  <2> QED BY <1>5, <1>6, <1>8, <1>15, <2>1, FateIsSound
<1>18. n > 0
  <2> SUFFICES ASSUME n = 0 PROVE FALSE BY <1>8
  <2>1. seqs \in Seq(StoredEntry) /\ Len(seqs) = 0
    <3>1. seqs \in [1..0 -> StoredEntry] BY <1>9
    <3>2. seqs \in Seq(StoredEntry) BY <3>1 DEF Seq
    <3>3. DOMAIN seqs = 1..Len(seqs) /\ Len(seqs) \in Nat BY <3>2, LenProperties
    <3> QED BY <3>1, <3>2, <3>3
  <2>2. next = seqs BY <1>10, <2>1 DEF FlattenSeq
  <2>3. seqs = <<>> BY <2>1, EmptySeq
  <2> QED BY <1>12, <2>2, <2>3
<1>19. seqs \in [1..n -> Seq(StoredEntry)]
  <2>1. \A k \in 1..n : seqs[k] \in Seq(StoredEntry) BY <1>17 DEF PieceIsSound
  <2> QED BY <1>9, <2>1
<1>20. ASSUME NEW k \in 1..n, NEW l \in 1..n, NEW a \in 1..Len(seqs[k]), NEW b \in 1..Len(seqs[l]),
              seqs[k][a].id = seqs[l][b].id
       PROVE  k = l /\ a = b
  <2>1. \/ seqs[k][a].id = es[k].id
        \/ seqs[k][a].id = lastEntry + 1 /\ \E op \in Merges(ops, es) : es[k].id = FirstOf(op)
    BY <1>17 DEF PieceIsSound
  <2>2. \/ seqs[l][b].id = es[l].id
        \/ seqs[l][b].id = lastEntry + 1 /\ \E op \in Merges(ops, es) : es[l].id = FirstOf(op)
    BY <1>17 DEF PieceIsSound
  <2>3. es[k].id # lastEntry + 1 /\ es[l].id # lastEntry + 1 BY <1>5, <1>15
  <2>4. es[k].id = es[l].id
    <3>1. CASE seqs[k][a].id = es[k].id BY <1>20, <2>2, <2>3, <3>1
    <3>2. CASE seqs[k][a].id = lastEntry + 1 /\ \E op \in Merges(ops, es) : es[k].id = FirstOf(op)
      <4>1. \E op \in Merges(ops, es) : es[l].id = FirstOf(op) BY <1>20, <2>2, <2>3, <3>2
      <4> QED BY <1>14, <3>2, <4>1
    <3> QED BY <2>1, <3>1, <3>2
  <2>5. k = l BY <1>16, <2>4
  <2> QED BY <1>17, <1>20, <2>5 DEF PieceIsSound
<1>21. /\ next \in Seq(StoredEntry)
       /\ \A p \in 1..Len(next) : \E k \in 1..n : \E a \in 1..Len(seqs[k]) : next[p] = seqs[k][a]
       /\ \A k \in 1..n : \A a \in 1..Len(seqs[k]) : \E p \in 1..Len(next) : next[p] = seqs[k][a]
       /\ \A p, q \in 1..Len(next) : next[p].id = next[q].id => p = q
  <2>1. \A k, l \in 1..n : \A a \in 1..Len(seqs[k]), b \in 1..Len(seqs[l]) :
           seqs[k][a].id = seqs[l][b].id => k = l /\ a = b
    BY <1>20
  <2>2. n \in Nat BY <1>8
  <2>3. AllApart(seqs, n) BY <2>1 DEF AllApart
  <2>4. next \in Seq(StoredEntry) /\ ListsAll(next, seqs, n)
    BY <1>10, <1>18, <1>19, <2>2, <2>3, FlatIs
  <2> QED BY <2>4 DEF ListsAll
<1>22. FileOf(next, lastEntry')
  <2>1. ASSUME NEW p \in 1..Len(next) PROVE next[p].id \in 1..lastEntry'
    <3>1. PICK k \in 1..n : \E a \in 1..Len(seqs[k]) : next[p] = seqs[k][a] BY <1>21
    <3>2. PICK a \in 1..Len(seqs[k]) : next[p] = seqs[k][a] BY <3>1
    <3>3. \/ seqs[k][a].id = es[k].id
          \/ seqs[k][a].id = lastEntry + 1 /\ Merges(ops, es) # {}
      BY <1>17 DEF PieceIsSound
    <3>4. CASE seqs[k][a].id = es[k].id
      <4>1. es[k].id \in 1..lastEntry BY <1>15
      <4> QED BY <1>5, <1>12, <1>14, <3>2, <3>4, <4>1
    <3>5. CASE seqs[k][a].id = lastEntry + 1 /\ Merges(ops, es) # {}
      <4>1. lastEntry' = lastEntry + 1 BY <1>12, <1>14, <3>5
      <4> QED BY <1>5, <3>2, <3>5, <4>1
    <3> QED BY <3>3, <3>4, <3>5
  <2> QED BY <1>21, <2>1 DEF FileOf
<1>23. FileMoves(es, discarded, next, discarded')
  <2>1. discarded \subseteq discarded' BY <1>12
  <2>2. ASSUME NEW k \in 1..n
        PROVE  \/ \E p \in 1..Len(next) : next[p].id = es[k].id /\ next[p].supersedes = es[k].supersedes
               \/ \E d \in discarded' : d.entry = es[k]
    <3>1. CASE \E a \in 1..Len(seqs[k]) : seqs[k][a].id = es[k].id /\ seqs[k][a].supersedes = es[k].supersedes
      <4>1. PICK a \in 1..Len(seqs[k]) :
               seqs[k][a].id = es[k].id /\ seqs[k][a].supersedes = es[k].supersedes
        BY <3>1
      <4>2. PICK p \in 1..Len(next) : next[p] = seqs[k][a] BY <1>21
      <4> QED BY <4>1, <4>2
    <3>2. CASE \E op \in ops : op.action = "discard" /\ es[k].id \in op.ids
      <4>1. PICK i : i = es[k].id OBVIOUS
      <4>2. i \in lost BY <1>11, <3>2, <4>1
      <4>3. EntryOf(es, i) = es[k] BY <1>5, <1>7, <4>1, EntryNamed
      <4>4. PICK d : d = [entry |-> EntryOf(es, i), seen |-> EntryOf(reviewed.entries, i)] OBVIOUS
      <4>5. d \in discarded' BY <1>12, <4>2, <4>4
      <4> QED BY <4>3, <4>4, <4>5
    <3> QED BY <1>17, <3>1, <3>2 DEF PieceIsSound
  <2>3. ASSUME NEW p \in 1..Len(next), next[p].status = "superseded"
        PROVE  \/ \E k \in 1..n : es[k].id = next[p].id /\ es[k].status = "superseded"
               \/ \E q \in 1..Len(next) : next[p].id \in next[q].supersedes
    <3>1. PICK k \in 1..n : \E a \in 1..Len(seqs[k]) : next[p] = seqs[k][a] BY <1>21
    <3>2. PICK a \in 1..Len(seqs[k]) : next[p] = seqs[k][a] BY <3>1
    <3>3. /\ next[p].id = es[k].id
          /\ es[k].status = "superseded" \/ \E op \in Merges(ops, es) : es[k].id \in op.ids
      BY <1>17, <2>3, <3>2 DEF PieceIsSound
    <3>4. CASE \E op \in Merges(ops, es) : es[k].id \in op.ids
      <4>1. PICK op \in Merges(ops, es) : es[k].id \in op.ids BY <3>4
      <4>2. op \in ops BY DEF Merges
      <4>3. op.ids \subseteq Nat /\ op.ids \subseteq EntryIds(es) BY <1>6, <4>2 DEF Operation, Valid
      <4>4. FirstOf(op) \in op.ids BY <4>1, <4>3, FirstIs DEF FirstOf
      <4>5. PICK l \in 1..n : es[l].id = FirstOf(op) BY <1>7, <4>3, <4>4 DEF EntryIds
      <4>6. PICK b \in 1..Len(seqs[l]) : seqs[l][b].supersedes = op.ids
        <5>1. PieceIsSound(seqs[l], es[l], ops, es) BY <1>17
        <5>2. op \in Merges(ops, es) /\ es[l].id = FirstOf(op) BY <4>1, <4>5
        <5> QED BY <5>1, <5>2, ZenonT(40) DEF PieceIsSound
      <4>7. PICK q \in 1..Len(next) : next[q] = seqs[l][b] BY <1>21
      <4> QED BY <3>3, <4>1, <4>6, <4>7
    <3> QED BY <3>3, <3>4
  <2> QED BY <1>7, <2>1, <2>2, <2>3 DEF FileMoves
<1>24. lastEntry' \in Nat BY <1>5, <1>12, <1>14
<1>25. FileOf(entries', lastEntry') BY <1>12, <1>22
<1>26. FileMoves(entries, discarded, entries', discarded') BY <1>3, <1>12, <1>23
<1>27. acknowledged' \subseteq acknowledged \cup EntryIds(entries') BY <1>12
<1>28. /\ version' = version + 1 /\ lockedBy' = "none"
       /\ UNCHANGED <<review, reviewed, decision>> \/ review' = "idle"
       /\ UNCHANGED <<memoryCall, ref>> \/ (memoryCall' = NoMemoryCall /\ ref' = NoRef)
  BY <1>12
<1> QED BY <1>13, <1>24, <1>25, <1>26, <1>27, <1>28, WriterStays

(* MemoryStore.tla, RememberedIsKept: what the Agent was told is stored stays *)
(* unless a review discarded exactly what it saw, and a superseded entry has  *)
(* a successor.                                                            *)
THEOREM RememberedStaysKept == MemorySpec => []RememberedIsKept
<1>1. MemoryInd /\ [MemoryNext]_memoryVars => MemoryInd'
  <2> SUFFICES ASSUME MemoryInd, [MemoryNext]_memoryVars PROVE MemoryInd' OBVIOUS
  <2>1. CASE Remember BY <2>1, RememberStays
  <2>2. CASE Correct BY <2>2, CorrectStays
  <2>3. CASE \E fact \in Facts : ApplyDecision(fact) BY <2>3, ApplyStays
  <2>4. CASE \E ops \in {ops \in SUBSET {op \in Operation : Valid(op, reviewed.entries)} :
                           Cardinality(ops) <= 2} : Decide(ops)
    <3>1. PICK ops \in SUBSET {op \in Operation : Valid(op, reviewed.entries)} : Decide(ops) BY <2>4
    <3> QED BY <3>1, DecideStays
  <2>5. CASE \/ \E i \in 1..MaxEntries : Recall(i)
             \/ \E kind \in {"remember", "correct"}, fact \in Facts, source \in Sources :
                   AskMemory(kind, fact, source)
             \/ AgentLocks \/ ReviewLocks \/ MemoryCallFails
             \/ StartReview \/ (\E due \in BOOLEAN : Inspect(due))
             \/ ReviewFails \/ ApplyFails \/ ForgetReviews
             \/ UNCHANGED memoryVars
    BY <2>5, ReadersStay
  <2> QED BY <2>1, <2>2, <2>3, <2>4, <2>5 DEF MemoryNext
<1> QED BY <1>1, MemoryBegins, IndImpliesRemembered, PTL DEF MemorySpec
-----------------------------------------------------------------------------
(* All stores together.                                                    *)

(* A behaviour of the stores is one of each of them.                        *)
LEMMA PartsOfTheStores == StoresSpec => Spec /\ MemorySpec /\ WorkspaceSpec /\ PaperSpec /\ SiteSpec
<1>1. StoresInit => Init /\ MemoryInit /\ WorkspaceInit /\ PaperInit /\ SiteInit
  BY DEF StoresInit
<1>2. [StoresNext]_storeVars =>
          /\ [Next]_vars /\ [MemoryNext]_memoryVars /\ [WorkspaceNext]_workspaceVars
          /\ [PaperNext]_paperVars /\ [SiteNext]_siteVars
  BY Zenon DEF StoresNext, storeVars
<1> QED BY <1>1, <1>2, PTL DEF StoresSpec, Spec, MemorySpec, WorkspaceSpec, PaperSpec, SiteSpec

(* What is on disk can be read back and is what was written: the ledger     *)
(* loads, what was remembered is kept, and the paper account is what its    *)
(* orders make it, in every behaviour of the stores.                        *)
THEOREM StoresStaySound == StoresSpec => [](AlwaysLoadable /\ RememberedIsKept /\ PaperAccounted)
  BY PartsOfTheStores, CanonicalStateLoads, RememberedStaysKept, AccountStaysItsOrders, PTL

(* ContinuityNeverRollsBack in the same behaviours, with one Core at a time *)
(* and no acknowledgement lost.                                             *)
THEOREM StoredContinuityAdvances ==
    ASSUME LockMayDrop = FALSE, AckMayBeLost = FALSE
    PROVE  StoresSpec => ContinuityNeverRollsBack
  BY PartsOfTheStores, ContinuityOnlyAdvances, PTL
=============================================================================
