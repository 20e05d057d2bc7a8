-------------------------- MODULE MailboxAttention --------------------------
(***************************************************************************)
(* Which mailboxes still owe the Agent attention.  There is no table for   *)
(* it: the state is recomputed from the messages of the projection         *)
(* (captureMailboxAttentionState), so it must survive compaction, which    *)
(* replaces messages by a summary and a mailboxAttentionState payload.     *)
(*                                                                         *)
(* A ledger message is reduced to what capture reads out of it: per        *)
(* mailbox, the rows it discloses, handles, and discloses with high        *)
(* priority.  Row numbers are per mailbox; a commit that discloses several *)
(* mailboxes is several Disclose steps.                                    *)
(***************************************************************************)
EXTENDS Integers, Sequences, FiniteSetsExt

CONSTANTS
    Private, Group,   \* private and group mailboxes
    LastRow,           \* bound: rows of a mailbox
    MaxEntries        \* bound: ledger entries

ASSUME MailboxesAssumption == Private \cap Group = {}
ASSUME AttentionAssumption == LastRow \in Nat /\ MaxEntries \in Nat

VARIABLES
    entries,   \* the canonical ledger, in id order
    inboxRead, \* stored runtime_state.inboxReadCursors
    sent       \* targets of the round whose markers are not committed yet

attentionVars == <<entries, inboxRead, sent>>

Boxes == Private \cup Group
Cursors == [disclosed : 0..LastRow, handled : 0..LastRow, high : 0..LastRow]
NoCursors == [disclosed |-> 0, handled |-> 0, high |-> 0]
Silent == [m \in Boxes |-> NoCursors]

(* role "user" is a disclosure or a marker, "round" an assistant message   *)
(* with its tool results; firstKept is the index of the first kept entry   *)
(* of a compaction, 0 for none.                                            *)
TranscriptEntry == [role : {"user", "round", "compaction"}, state : [Boxes -> Cursors],
          firstKept : 0..MaxEntries]

-----------------------------------------------------------------------------
(* Capture and its readers.                                                *)

(* mergeMailboxCursors over the states some messages carry: the component- *)
(* wise maximum.                                                           *)
Capture(S) ==
    [m \in Boxes |->
        [disclosed |-> Max({0} \cup {s[m].disclosed : s \in S}),
         handled |-> Max({0} \cup {s[m].handled : s \in S}),
         high |-> Max({0} \cup {s[m].high : s \in S})]]

CompactionIndexes == {i \in 1..Len(entries) : entries[i].role = "compaction"}
LatestCompaction == Max({0} \cup CompactionIndexes)

ActiveIndexes ==
    LET latest == LatestCompaction
    IN  {i \in 1..Len(entries) :
            /\ entries[i].role # "compaction"
            /\ i > latest \/ (entries[latest].firstKept # 0 /\ i >= entries[latest].firstKept)}

(* What the model's transcript says: the attention event rendered from the *)
(* latest compaction, then the active messages.                            *)
Projected ==
    Capture({entries[i].state : i \in ActiveIndexes \cup
                (IF LatestCompaction = 0 THEN {} ELSE {LatestCompaction})})

(* What really happened: every disclosure and every marker ever committed. *)
Happened ==
    Capture({entries[i].state : i \in {j \in 1..Len(entries) : entries[j].role # "compaction"}})

(* findPendingMailboxThroughRowId # null                                   *)
Pending(state) == {m \in Boxes : state[m].disclosed > state[m].handled}

Later(x, y) == IF x > y THEN x ELSE y

(* The mailboxes for which hasPendingMailboxAttention holds.               *)
Demanding(state) ==
    {m \in Boxes :
        (IF m \in Private THEN state[m].disclosed ELSE state[m].high)
            > Later(state[m].handled, inboxRead[m])}

-----------------------------------------------------------------------------
AttentionInit ==
    /\ entries = <<>>
    /\ inboxRead = [m \in Boxes |-> 0]
    /\ sent = {}

(* parseMailboxDisclosures: priority is kept for groups only.              *)
DisclosureState(m, row, high) ==
    [Silent EXCEPT ![m] = [disclosed |-> row, handled |-> 0,
                           high |-> IF high /\ m \in Group THEN row ELSE 0]]

MessageEntry(role, state) == [role |-> role, state |-> state, firstKept |-> 0]

(* A notification, or for a group the message text itself, which counts as *)
(* read at once.  Mailbox cursors only let rows past the last one through.  *)
Disclose(m, row, high, direct) ==
    /\ sent = {}
    /\ Len(entries) < MaxEntries
    /\ row > Happened[m].disclosed
    /\ m \in Private => high /\ ~direct
    /\ entries' = Append(entries, MessageEntry("user", DisclosureState(m, row, high)))
    /\ inboxRead' = IF direct THEN [inboxRead EXCEPT ![m] = Later(@, row)] ELSE inboxRead
    /\ UNCHANGED sent

(* A model round: it may read an inbox, also past what was disclosed, and  *)
(* send to mailboxes.  The round is committed before its markers are.      *)
RunRound(targets, m, row) ==
    /\ sent = {}
    /\ Len(entries) < MaxEntries
    /\ entries' = Append(entries, MessageEntry("round", Silent))
    /\ inboxRead' = [inboxRead EXCEPT ![m] = Later(@, row)]
    /\ sent' = targets

(* Seeded fault: a marker covers what was read, disclosed or not.          *)
MarkersCoverRead(m) == Later(Projected[m].disclosed, inboxRead[m])
(* The row a marker handles: the last disclosed one, not the last read one. *)
MarkerRow(m) == Projected[m].disclosed

MarkerState(targets) ==
    [m \in Boxes |-> IF m \in targets THEN [NoCursors EXCEPT !.handled = MarkerRow(m)]
                     ELSE NoCursors]

(* collectHandledMailboxMarkers: only pending targets get a marker.  The   *)
(* markers of one commit are kept as one entry.                            *)
CommitMarkers ==
    /\ sent # {}
    /\ LET targets == sent \cap Pending(Projected)
       IN  entries' = IF targets = {} THEN entries
                      ELSE Append(entries, MessageEntry("user", MarkerState(targets)))
    /\ sent' = {}
    /\ UNCHANGED inboxRead

(* The process ends, or the marker commit fails, after the round's commit. *)
LoseMarkers ==
    /\ sent # {}
    /\ sent' = {}
    /\ UNCHANGED <<entries, inboxRead>>

LegalCuts ==
    LET active == ActiveIndexes
    IN  {i \in active :
            /\ \E j \in active : j < i
            /\ \/ entries[i].role = "user"
               \/ ~\E j \in active : j > i /\ entries[j].role = "user"}

(* firstKept = 0: a behavioral reset that keeps no message.                *)
Summarized(cut) == {i \in ActiveIndexes : cut = 0 \/ i < cut}

(* Seeded fault: the state is captured from the kept tail.                 *)
CapturesTheTail(cut) == Capture({entries[i].state : i \in ActiveIndexes \ Summarized(cut)})
(* createCompactionCandidate captures from the entries it summarizes.      *)
CompactionState(cut) == Capture({entries[i].state : i \in Summarized(cut)})

Compact(cut) ==
    /\ sent = {}
    /\ Len(entries) < MaxEntries
    /\ ActiveIndexes # {} /\ cut \in LegalCuts \cup {0}
    /\ entries' = Append(entries, [role |-> "compaction", state |-> CompactionState(cut),
                                   firstKept |-> cut])
    /\ UNCHANGED <<inboxRead, sent>>

AttentionNext ==
    \/ \E m \in Boxes, row \in 1..LastRow, high, direct \in BOOLEAN : Disclose(m, row, high, direct)
    \/ \E targets \in SUBSET Boxes, m \in Boxes, row \in 0..LastRow : RunRound(targets, m, row)
    \/ CommitMarkers
    \/ LoseMarkers
    \/ \E cut \in 0..MaxEntries : Compact(cut)

AttentionSpec == AttentionInit /\ [][AttentionNext]_attentionVars

-----------------------------------------------------------------------------
(* Properties.                                                             *)

(* Every variable has its type; only a group carries a high-priority row.  *)
AttentionTypeOK ==
    /\ entries \in Seq(TranscriptEntry)
    /\ \A i \in 1..Len(entries) : \A m \in Private : entries[i].state[m].high = 0
    /\ inboxRead \in [Boxes -> 0..LastRow]
    /\ sent \subseteq Boxes

(* A mailbox that was answered stays answered until a further row of it is  *)
(* disclosed: no compaction brings an old disclosure back without the       *)
(* marker that handled it, so none is pending that is not really.          *)
AnsweredStaysAnswered == Pending(Projected) \subseteq Pending(Happened)

(* A marker never handles a row whose disclosure the ledger does not hold,  *)
(* also when the round read further in the inbox or a compaction dropped    *)
(* the disclosure the marker answers.                                      *)
HandledWasDisclosed ==
    LET happened == Happened
    IN  \A m \in Boxes : happened[m].handled <= happened[m].disclosed

(* The first compaction loses no attention: what the transcript says of     *)
(* pending and demanding mailboxes is what really happened.                *)
FirstCompactionKeepsAttention ==
    Cardinality(CompactionIndexes) <= 1 =>
        /\ Pending(Projected) = Pending(Happened)
        /\ Demanding(Projected) = Demanding(Happened)

(* The transcript is well formed, and its markers are true: what they      *)
(* handle was disclosed, what was answered stays answered, and a first      *)
(* compaction changes nothing of it.                                       *)
AttentionInv ==
    /\ AttentionTypeOK
    /\ entries # <<>> =>
          AnsweredStaysAnswered /\ HandledWasDisclosed /\ FirstCompactionKeepsAttention

(* A mailbox without a mailbox_handled marker stays pending as durable      *)
(* state, whatever was compacted.                                          *)
PendingIsDurable == Pending(Happened) \subseteq Pending(Projected)
=============================================================================
