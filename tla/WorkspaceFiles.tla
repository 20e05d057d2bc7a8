---------------------------- MODULE WorkspaceFiles ----------------------------
(***************************************************************************)
(* What the Agent writes into its workspace besides memory: the notebook,  *)
(* one current record per topic over monthly files                         *)
(* (agent/notebook-store.ts), and plain files changed only by who knows    *)
(* their revision (agent/tools/workspace-file.ts).                         *)
(*                                                                         *)
(* A checkpoint rewrites one file after another and may stop in between.   *)
(* The tools are exclusive, so nothing else of the process writes during a *)
(* call; the operator edits plain files between calls.                     *)
(***************************************************************************)
EXTENDS Integers, Sequences, FiniteSets, SequencesExt

CONSTANTS
    Topics, GeneralTopics,  \* notebook topics, those of kind general
    TopicLimit,             \* current topics the general notebook may have
    Notes, NoNote,          \* contents of a record
    Months,                 \* 1..k
    Paths, Contents, NoFile, \* plain files
    MaxCheckpoints          \* bound: checkpoints begun, and the clock with them

ASSUME NotebookAssumption ==
    /\ TopicLimit \in Nat \ {0} /\ MaxCheckpoints \in Nat
    /\ Months # {} /\ IsFiniteSet(Months) /\ Months = 1..Cardinality(Months)

VARIABLES
    notes,      \* the records of all files
    today,      \* time of the last write
    checkpoint, \* the one in progress, with the files it has still to rewrite
    begun,
    promised,   \* history: records a topic may show after what was acknowledged
    clean,      \* history: topics whose last checkpoint was acknowledged
    disk, known, blind  \* plain files; revisions the Agent has; a loss it could not know

notebookVars == <<notes, today, checkpoint, begun, promised, clean>>
fileVars == <<disk, known, blind>>
workspaceVars == <<notebookVars, fileVars>>

Time == 0..(2 * Cardinality(Months) + MaxCheckpoints)
NoCheckpoint == [topic |-> NoNote, note |-> NoNote, record |-> NoNote, left |-> <<>>]

Record(id, topic, month, note, created, updated) ==
    [id |-> id, topic |-> topic, month |-> month, note |-> note, created |-> created, updated |-> updated]

(* Files of an older version hold a record per month for the same topic.   *)
Legacy(topic, months, note) ==
    {Record(<<topic, m>>, topic, m, note, m, m) : m \in months}

WorkspaceInit ==
    /\ \E topic \in Topics, months \in SUBSET Months, note \in Notes : notes = Legacy(topic, months, note)
    /\ today = 2 * Cardinality(Months)
    /\ checkpoint = NoCheckpoint /\ begun = 0
    /\ promised = [t \in Topics |-> {}] /\ clean = {}
    /\ disk = [p \in Paths |-> NoFile] /\ known = {} /\ blind = FALSE

-----------------------------------------------------------------------------
(* The notebook.                                                           *)

Matches(ns, topic) == {n \in ns : n.topic = topic}
(* findNotebookTopicMatches, readEntries: latest update, then creation.    *)
Newer(n, o) == n.updated > o.updated \/ (n.updated = o.updated /\ n.created >= o.created)
Winner(ns, topic) == CHOOSE n \in Matches(ns, topic) : \A o \in Matches(ns, topic) : Newer(n, o)
CurrentTopics == {n.topic : n \in notes}
Month(time) == CHOOSE m \in Months : m = 1 + (time % Cardinality(Months))

Acknowledged(topic, record) ==
    /\ promised' = [promised EXCEPT ![topic] = {record}]
    /\ clean' = clean \cup {topic}
    /\ checkpoint' = NoCheckpoint

(* A topic nobody wrote about yet gets a record in the month's file.       *)
CreateRecord(topic, note) ==
    /\ checkpoint = NoCheckpoint /\ begun < MaxCheckpoints
    /\ Matches(notes, topic) = {}
    /\ topic \in GeneralTopics => Cardinality(CurrentTopics \cap GeneralTopics) < TopicLimit
    /\ LET record == Record(<<topic, begun + 100>>, topic, Month(today), note, today + 1, today + 1)
       IN  notes' = notes \cup {record} /\ Acknowledged(topic, record)
    /\ today' = today + 1 /\ begun' = begun + 1
    /\ UNCHANGED fileVars

(* The winner is rewritten first, in its file, and the other matches are   *)
(* removed file by file.                                                   *)
FilesOf(topic) == {n.month : n \in Matches(notes, topic)}
(* Seeded fault: only the winner's file is rewritten.                      *)
RewritesOne(first, months) == <<first>>
Rewrites(first, months) == <<first>> \o SetToSeq(months \ {first})

BeginRewrite(topic, note) ==
    /\ checkpoint = NoCheckpoint /\ begun < MaxCheckpoints
    /\ Matches(notes, topic) # {}
    /\ LET winner == Winner(notes, topic)
           record == [winner EXCEPT !.note = note, !.updated = today + 1]
       IN  /\ begun' = begun + 1
           /\ IF winner.note = note /\ Matches(notes, topic) = {winner}
              THEN /\ Acknowledged(topic, winner)
                   /\ UNCHANGED today
              ELSE /\ today' = today + 1
                   /\ promised' = [promised EXCEPT ![topic] = {winner, record}]
                   /\ clean' = clean \ {topic}
                   /\ checkpoint' = [topic |-> topic, note |-> note, record |-> record,
                                     left |-> Rewrites(winner.month, FilesOf(topic))]
    /\ UNCHANGED <<notes, fileVars>>

RewriteFile ==
    /\ checkpoint.left # <<>>
    /\ LET month == Head(checkpoint.left)
           record == checkpoint.record
       IN  /\ notes' = {n \in notes : n.topic # checkpoint.topic \/ n.month # month}
                       \cup (IF record.month = month THEN {record} ELSE {})
           /\ IF Len(checkpoint.left) = 1
              THEN Acknowledged(checkpoint.topic, record)
              ELSE /\ checkpoint' = [checkpoint EXCEPT !.left = Tail(@)]
                   /\ UNCHANGED <<promised, clean>>
    /\ UNCHANGED <<today, begun, fileVars>>

(* A write fails, or the process ends between two files.                   *)
RewriteStops ==
    /\ checkpoint # NoCheckpoint
    /\ checkpoint' = NoCheckpoint
    /\ UNCHANGED <<notes, today, begun, promised, clean, fileVars>>

-----------------------------------------------------------------------------
(* Plain files.  A revision is the hash of a content: it stands for it.    *)

ReadPlain(p) ==
    /\ disk[p] # NoFile
    /\ known' = known \cup {disk[p]}
    /\ UNCHANGED <<disk, blind, notebookVars>>

(* assertRevision.                                                         *)
RevisionHolds(p, revision) == disk[p] = revision

Replaces(p, files) ==
    /\ disk' = files
    /\ blind' = (blind \/ (disk[p] # NoFile /\ disk[p] \notin known))
    /\ UNCHANGED notebookVars

(* write of a new file needs no revision, of an existing one its revision; *)
(* replace and delete always do.                                           *)
CreatePlain(p, c) ==
    /\ disk[p] = NoFile
    /\ Replaces(p, [disk EXCEPT ![p] = c])
    /\ known' = known \cup {c}
OverwritePlain(p, c, revision) ==
    /\ disk[p] # NoFile /\ revision \in known /\ RevisionHolds(p, revision)
    /\ Replaces(p, [disk EXCEPT ![p] = c])
    /\ known' = known \cup {c}
DeletePlain(p, revision) ==
    /\ disk[p] # NoFile /\ revision \in known /\ RevisionHolds(p, revision)
    /\ Replaces(p, [disk EXCEPT ![p] = NoFile])
    /\ UNCHANGED known
(* move refuses an existing destination.                                   *)
MovePlain(p, q, revision) ==
    /\ disk[p] # NoFile /\ revision \in known /\ RevisionHolds(p, revision)
    /\ disk[q] = NoFile
    /\ Replaces(q, [disk EXCEPT ![q] = disk[p], ![p] = NoFile])
    /\ UNCHANGED known

OperatorEdits(p, c) ==
    /\ disk' = [disk EXCEPT ![p] = c]
    /\ UNCHANGED <<known, blind, notebookVars>>

WorkspaceNext ==
    \/ \E t \in Topics, note \in Notes : CreateRecord(t, note) \/ BeginRewrite(t, note)
    \/ RewriteFile
    \/ RewriteStops
    \/ \E p \in Paths :
          \/ ReadPlain(p)
          \/ \E c \in Contents : CreatePlain(p, c) \/ OperatorEdits(p, c)
          \/ \E revision \in Contents :
                \/ \E c \in Contents : OverwritePlain(p, c, revision)
                \/ DeletePlain(p, revision)
                \/ \E q \in Paths : MovePlain(p, q, revision)

WorkspaceSpec == WorkspaceInit /\ [][WorkspaceNext]_workspaceVars

-----------------------------------------------------------------------------
(* Properties.                                                             *)

(* A topic shows what its last checkpoint wrote, under the identity it     *)
(* had; a checkpoint that stopped between two files shows the state before *)
(* or after it and never an older one, and one that was acknowledged left  *)
(* a single record of all months.  General topics stay within their limit. *)
NotebookShowsLatest ==
    /\ \A t \in Topics : promised[t] # {} =>
          /\ Matches(notes, t) # {} /\ Winner(notes, t) \in promised[t]
          /\ t \in clean => Cardinality(Matches(notes, t)) = 1
    /\ Cardinality(CurrentTopics \cap GeneralTopics) <= TopicLimit

(* No call overwrites or deletes a plain file's content the Agent has not  *)
(* read or written itself, whatever the operator did since.                *)
NothingUnreadIsLost == ~blind

WorkspaceKept == NotebookShowsLatest /\ NothingUnreadIsLost
=============================================================================
