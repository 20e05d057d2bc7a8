------------------------------ MODULE Transcript ------------------------------
(***************************************************************************)
(* What the Agent's stored rows say and when they may be replayed: the      *)
(* parsers of the repository (agent/agent-ledger-projection.ts), the        *)
(* validator of a transcript (agent/snapshot-integrity.ts) that guards the  *)
(* permanent ledger, the active projection and AgentContext, and load() with *)
(* its checkpoint (agent/agent-ledger-loader.ts).                           *)
(*                                                                         *)
(* A write parses each message by itself; reading validates them together.  *)
(* While the process is down something else may have changed a row.         *)
(***************************************************************************)
EXTENDS DurableMessages

CONSTANTS
    MaxRowId,     \* bound: last id of a ledger row
    MaxRepeats,   \* bound: tool call ids the provider uses a second time
    MaxDamage     \* bound: rows changed by something else

ASSUME TranscriptBounds == MaxRowId \in Nat /\ MaxRepeats \in Nat /\ MaxDamage \in Nat

VARIABLES
    rows,       \* bot_agent_ledger_entry, ordered by id
    stored,     \* bot_agent_runtime_state
    checkpoint, \* bot_agent_checkpoint
    up,         \* the Core runs
    context,    \* the messages of its AgentContext
    headSeen,   \* the head it expects
    callIds,    \* tool call ids the provider has used
    repeats,    \* how often it used one again
    damage      \* how many rows something else changed

transcriptVars == <<rows, stored, checkpoint, up, context, headSeen, callIds, repeats, damage>>

-----------------------------------------------------------------------------
(* Rows.  keys is how the stored object's keys compare with the expected:   *)
(* "legacy" has the two removed ones a compaction may still carry.          *)
MessageRow(id, m) ==
    [id |-> id, type |-> "message", keys |-> "exact", version |-> 1, message |-> m,
     firstKept |-> 0, previous |-> 0, attention |-> FALSE]
CompactionRow(id, firstKept, previous, attention, keys) ==
    [id |-> id, type |-> "compaction", keys |-> keys, version |-> 1, message |-> User(""),
     firstKept |-> firstKept, previous |-> previous, attention |-> attention]

RowParses(r) ==
    /\ r.version = 1
    /\ \/ r.type = "message" /\ r.keys = "exact" /\ MessageParses(r.message)
       \/ r.type = "compaction" /\ r.keys \in {"exact", "legacy"}

IsMessage(r) == r.type = "message"
IsCompaction(r) == r.type = "compaction"
CompactionsIn(rs) == {i \in DOMAIN rs : IsCompaction(rs[i])}
Newest(rs) == rs[Max(CompactionsIn(rs))]

(* The messages of these rows, in the order of the rows.                    *)
MessagesAt(rs, kept) ==
    LET upTo[n \in 0..Len(rs)] ==
            IF n = 0 THEN <<>>
            ELSE IF n \in kept /\ IsMessage(rs[n]) THEN Append(upTo[n - 1], rs[n].message)
            ELSE upTo[n - 1]
    IN  upTo[Len(rs)]
MessagesOf(rs) == MessagesAt(rs, DOMAIN rs)
LastId(rs) == IF rs = <<>> THEN 0 ELSE Last(rs).id

ChainHolds(rs) ==
    \A i \in CompactionsIn(rs) :
        LET earlier == {j \in CompactionsIn(rs) : j < i}
        IN  rs[i].previous = IF earlier = {} THEN 0 ELSE rs[Max(earlier)].id

(* Seeded fault: any message may be the boundary.                           *)
BoundaryIsMessage(rs) ==
    CompactionsIn(rs) # {} /\ Newest(rs).firstKept # 0 =>
        \E i \in DOMAIN rs : rs[i].id = Newest(rs).firstKept /\ IsMessage(rs[i])

(* The newest compaction keeps from a message that is not a tool result, or *)
(* nothing before itself.                                                   *)
BoundaryHolds(rs) ==
    CompactionsIn(rs) # {} /\ Newest(rs).firstKept # 0 =>
        \E i \in DOMAIN rs :
            rs[i].id = Newest(rs).firstKept /\ IsMessage(rs[i]) /\ rs[i].message.role # "tool"

ActiveMessages(rs) ==
    IF CompactionsIn(rs) = {} THEN MessagesOf(rs)
    ELSE LET c == Newest(rs)
             Kept(r) == r.id > c.id \/ (c.firstKept # 0 /\ r.id >= c.firstKept)
         IN  MessagesAt(rs, {i \in DOMAIN rs : Kept(rs[i])})

Projected(rs) ==
    IF CompactionsIn(rs) = {} THEN ActiveMessages(rs)
    ELSE <<User("summary")>>
         \o (IF Newest(rs).attention THEN <<User("attention")>> ELSE <<>>)
         \o ActiveMessages(rs)

(* The runtime state: its parser checks shapes, the validator what the      *)
(* cursors and anchors may be.                                              *)
EmptyState == [version |-> 1, head |-> 0, focus |-> "none", cursors |-> "valid"]
StateParses(s) == s.version = 1 /\ s.focus # "partial" /\ s.cursors # "notJson"
Validate(ms, s) == ValidateMessages(ms) /\ s.focus # "partial" /\ s.cursors = "valid"

(* projectAgentLedger returns.                                              *)
Accepts(rs, s) ==
    /\ \A i \in DOMAIN rs : RowParses(rs[i])
    /\ \A i \in 2..Len(rs) : rs[i - 1].id < rs[i].id
    /\ StateParses(s) /\ s.head = LastId(rs)
    /\ Validate(MessagesOf(rs), s)
    /\ ChainHolds(rs) /\ BoundaryHolds(rs)
    /\ Validate(Projected(rs), s)

-----------------------------------------------------------------------------
(* The checkpoint caches one projection under a hash of all it came from.   *)
NoCheckpoint == [form |-> "none", fingerprint |-> <<>>, messages |-> <<>>]
Fingerprint(rs, s) == <<rs, s>>

(* Seeded fault: a checkpoint with the right fingerprint is believed.       *)
CheckpointIsSound(rs) == ValidateMessages(checkpoint.messages)

(* parseCheckpointProjection and projectionsMatch.                          *)
CheckpointMatches(rs) ==
    ValidateMessages(checkpoint.messages) /\ checkpoint.messages = Projected(rs)

CheckpointHit(rs, s) ==
    /\ checkpoint.form = "current" /\ checkpoint.fingerprint = Fingerprint(rs, s)
    /\ CheckpointMatches(rs)

(* load() of an accepted ledger: the checkpoint, when it is the same; else  *)
(* what was projected, and a new checkpoint if it can be saved.             *)
LoadTranscript(rs, s) ==
    /\ IF CheckpointHit(rs, s)
       THEN context' = checkpoint.messages /\ UNCHANGED checkpoint
       ELSE /\ context' = Projected(rs)
            /\ checkpoint' \in
                  {checkpoint, [form |-> "current", fingerprint |-> Fingerprint(rs, s),
                                messages |-> Projected(rs)]}
    /\ headSeen' = s.head /\ up' = TRUE

-----------------------------------------------------------------------------
TranscriptInit ==
    /\ \/ rows = <<>> /\ stored = EmptyState
       \/ /\ rows = <<MessageRow(1, User("text")), CompactionRow(2, 1, 0, TRUE, "legacy")>>
          /\ stored = [EmptyState EXCEPT !.head = 2]
    /\ checkpoint = NoCheckpoint
    /\ up = FALSE /\ context = <<>> /\ headSeen = 0
    /\ callIds = 0 /\ repeats = 0 /\ damage = 0

StartCore ==
    /\ ~up
    /\ Accepts(rows, stored) /\ LoadTranscript(rows, stored)
    /\ UNCHANGED <<rows, stored, callIds, repeats, damage>>

StopCore ==
    /\ up
    /\ up' = FALSE /\ context' = <<>> /\ headSeen' = 0
    /\ UNCHANGED <<rows, stored, checkpoint, callIds, repeats, damage>>

(* normalizeDurableMessage: a message that does not parse refuses the write. *)
Normalizes(ms) == \A i \in DOMAIN ms : MessageParses(ms[i])

(* installProjection throws for a transcript that does not validate; the     *)
(* context and the expected head stay as they are.                          *)
InstallsProjection(ms) ==
    IF ValidateMessages(context \o ms)
    THEN context' = context \o ms /\ headSeen' = stored.head + Len(ms)
    ELSE UNCHANGED <<context, headSeen>>

(* appendMessages, then, after the transaction, installProjection.          *)
Commit(ms) ==
    /\ up /\ headSeen = stored.head
    /\ Normalizes(ms)
    /\ stored.head + Len(ms) <= MaxRowId
    /\ rows' = rows \o [i \in DOMAIN ms |-> MessageRow(stored.head + i, ms[i])]
    /\ stored' = [stored EXCEPT !.head = @ + Len(ms)]
    /\ InstallsProjection(ms)
    /\ UNCHANGED <<checkpoint, up, damage>>

CommitEvents == Commit(<<User("text")>>) /\ UNCHANGED <<callIds, repeats>>

(* A round's calls bear new ids, or the provider uses an id once more.      *)
CommitRound(n) ==
    /\ Commit(Round([k \in 1..n |-> callIds + k]))
    /\ callIds' = callIds + n
    /\ UNCHANGED repeats

CommitRepeating(id) ==
    /\ repeats < MaxRepeats /\ repeats' = repeats + 1
    /\ \/ id \in 1..callIds /\ Commit(Round(<<id>>)) /\ UNCHANGED callIds
       \/ id = callIds + 1 /\ Commit(Round(<<id, id>>)) /\ callIds' = id

(* A compaction starts from the canonical rows and reloads after its commit; *)
(* its candidate has to project before it is written.                       *)
Cuts == {0} \cup {rows[i].id : i \in {j \in DOMAIN rows :
                                        IsMessage(rows[j]) /\ rows[j].message.role # "tool"}}

CompactRows(cut, attention) ==
    LET new == stored.head + 1
        previous == IF CompactionsIn(rows) = {} THEN 0 ELSE Newest(rows).id
        rs == Append(rows, CompactionRow(new, cut, previous, attention, "exact"))
        s == [stored EXCEPT !.head = new]
    IN  /\ up /\ new <= MaxRowId
        /\ Accepts(rows, stored) /\ Accepts(rs, s)
        /\ rows' = rs /\ stored' = s
        /\ LoadTranscript(rs, s)
        /\ UNCHANGED <<callIds, repeats, damage>>

(* Something else changes a row, the state or the checkpoint.               *)
Tampered(r) ==
    {[r EXCEPT !.version = 2], [r EXCEPT !.keys = "extra"], [r EXCEPT !.type = "unknown"]}
    \cup (IF IsMessage(r)
          THEN {[r EXCEPT !.message.says = "cut"]}
               \cup {[r EXCEPT !.message.role = role] : role \in {"other", "user"}}
               \cup {[r EXCEPT !.message.answers = id] : id \in 0..callIds}
          ELSE {[r EXCEPT !.firstKept = id] : id \in 0..r.id}
               \cup {[r EXCEPT !.previous = id] : id \in 0..r.id})
TamperedState ==
    {[stored EXCEPT !.version = 2], [stored EXCEPT !.head = @ + 1], [stored EXCEPT !.focus = "partial"]}
    \cup {[stored EXCEPT !.cursors = c] : c \in {"notJson", "negative"}}

DamageRows ==
    /\ ~up /\ damage < MaxDamage /\ damage' = damage + 1
    /\ \/ \E i \in DOMAIN rows :
             \/ \E r \in Tampered(rows[i]) \ {rows[i]} : rows' = [rows EXCEPT ![i] = r]
             \/ rows' = RemoveAt(rows, i)
          /\ UNCHANGED stored
       \/ stored' \in TamperedState /\ UNCHANGED rows
    /\ UNCHANGED <<checkpoint, up, context, headSeen, callIds, repeats>>

ReplaceCheckpoint ==
    /\ ~up /\ damage < MaxDamage /\ damage' = damage + 1
    /\ checkpoint.form = "current"
    /\ checkpoint' \in {[checkpoint EXCEPT !.form = f] : f \in {"foreign", "unreadable"}}
                       \cup {[checkpoint EXCEPT !.messages = Append(@, User("text"))]}
    /\ UNCHANGED <<rows, stored, up, context, headSeen, callIds, repeats>>

TranscriptNext ==
    \/ StartCore \/ StopCore \/ CommitEvents
    \/ \E n \in 1..2 : CommitRound(n)
    \/ \E id \in 1..(callIds + 1) : CommitRepeating(id)
    \/ \E cut \in Cuts, attention \in BOOLEAN : CompactRows(cut, attention)
    \/ DamageRows \/ ReplaceCheckpoint

TranscriptSpec == TranscriptInit /\ [][TranscriptNext]_transcriptVars

-----------------------------------------------------------------------------
(* Properties.                                                             *)

(* The one-pass validator accepts exactly the well-formed transcripts, also  *)
(* of rows something else changed, whose groups of calls and results it     *)
(* skips over as it goes.                                                   *)
ValidatorIsExact ==
    /\ ValidateMessages(MessagesOf(rows)) <=> WellFormed(MessagesOf(rows))
    /\ ValidateMessages(ActiveMessages(rows)) <=> WellFormed(ActiveMessages(rows))

(* A compaction boundary that is no tool result cuts no group: once the      *)
(* permanent transcript is sound, so is the projection.  Where nothing before *)
(* the compaction is kept there is no boundary to look at.                   *)
BoundaryCutsNoGroup ==
    /\ ValidateMessages(MessagesOf(rows)) /\ BoundaryHolds(rows)
    /\ CompactionsIn(rows) = {} \/ Newest(rows).firstKept # 0
    => ValidateMessages(Projected(rows))

(* What the Core writes it can read again, and what runs is what would be    *)
(* read: whatever checkpoint is stored, and unless the provider used a tool  *)
(* call id twice, which the write does not look at.                         *)
WrittenCanBeRead ==
    repeats = 0 =>
        /\ damage = 0 => Accepts(rows, stored)
        /\ up => Accepts(rows, stored) /\ headSeen = stored.head /\ context = Projected(rows)

(* Also then the model never sees an unsound transcript.                    *)
ContextIsSound == up => WellFormed(context)

TranscriptInv == ValidatorIsExact /\ BoundaryCutsNoGroup /\ WrittenCanBeRead /\ ContextIsSound
=============================================================================
