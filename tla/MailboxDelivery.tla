-------------------------- MODULE MailboxDelivery --------------------------
(***************************************************************************)
(* How a stored chat message reaches the model: the gateways' inserts, the *)
(* missed-message replay at start, the database mailbox watcher, the       *)
(* in-memory event queue, and BotLoopAgent's drain, disclosure commit and  *)
(* requeue.  The platform-service mode of index.ts is modelled: Agent Core *)
(* receives messages from the database only.                               *)
(*                                                                         *)
(* Rows that the replay and watcher filters skip (own messages, unlisted   *)
(* conversations, unmentioned group chatter) are left out: a row here is   *)
(* one the Agent owes attention.  Only step() commits are represented, as  *)
(* only they touch the mailbox cursors.                                    *)
(***************************************************************************)
EXTENDS Integers, Sequences, FiniteSets

CONSTANTS
    Mailboxes,
    NoBox,            \* the row id is not allocated yet
    Fresh,            \* mailboxes without a stored cursor at the beginning
    MaxRow,           \* bound: messages ever stored
    MaxFaults,        \* bound: crashes, failed polls and failed commits
    BacklogThreshold, \* replay answers a longer absence with one backlog event
    PageSize,         \* rows one watcher poll reads
    LateVisibility,   \* gateways' inserts may become visible out of id order
    CommitMayFail,    \* the disclosure commit may roll back
    AckMayBeLost      \* it may also take effect and still report an error

ASSUME MailboxAssumption == NoBox \notin Mailboxes /\ Fresh \subseteq Mailboxes
ASSUME BoundsAssumption ==
    MaxRow \in Nat /\ MaxFaults \in Nat /\ BacklogThreshold \in Nat /\ PageSize \in Nat \ {0}

VARIABLES
    box,        \* messages: the conversation of each allocated row
    visible,    \* the rows whose insert has committed
    cursors,    \* stored runtime_state.mailboxCursors; -1: no cursor
    lastWake,   \* stored lastWakeAt: the rows created by then; -1: null
    phase,      \* life of the Agent Core process
    toReplay,   \* replay sources still to read
    highWater,  \* currentMessageHighWater(), taken before the replay
    watch,      \* the watcher's cursor
    page,       \* rows of the current poll not yet enqueued
    queue,      \* InMemoryEventQueue
    memory,     \* the loop's mailbox cursors and lastWakeAt
    staged,     \* drained batch whose commit is being awaited
    stale,      \* the loop expects a head that is no longer the stored one
    disclosed,  \* history: rows a committed disclosure covers
    times,      \* history: how often a row was disclosed as a message
    faults

store == <<box, visible>>
durable == <<cursors, lastWake, disclosed, times>>
process == <<phase, toReplay, highWater, watch, page, queue, memory, staged, stale>>
vars == <<store, durable, process, faults>>

Rows == 1..MaxRow
Allocated == {r \in Rows : box[r] # NoBox}
NoCursor == -1
Larger(x, y) == IF x > y THEN x ELSE y

(* An event names its mailbox, the last row it covers and the rows covered. *)
Event == [kind : {"message", "backlog"}, box : Mailboxes, through : Rows, rows : SUBSET Rows]
MessageEvent(r) == [kind |-> "message", box |-> box[r], through |-> r, rows |-> {r}]

NothingStaged == [events |-> <<>>, fresh |-> {}, cursors |-> [m \in Mailboxes |-> NoCursor],
                  wake |-> NoCursor]

Init ==
    /\ box = [r \in Rows |-> NoBox] /\ visible = {}
    /\ cursors = [m \in Mailboxes |-> IF m \in Fresh THEN NoCursor ELSE 0]
    /\ lastWake \in IF Fresh = Mailboxes THEN {NoCursor, 0} ELSE {0}
    /\ phase = "down" /\ toReplay = {} /\ highWater = 0 /\ watch = 0 /\ page = <<>>
    /\ queue = <<>> /\ memory = [cursors |-> cursors, wake |-> lastWake]
    /\ staged = NothingStaged /\ stale = FALSE
    /\ disclosed = {} /\ times = [r \in Rows |-> 0]
    /\ faults = 0

-----------------------------------------------------------------------------
(* Gateways.                                                               *)

(* An insert takes the next row id ...                                     *)
StoreMessage(m) ==
    /\ \E r \in Rows :
          /\ Allocated = 1..(r - 1)
          /\ box' = [box EXCEPT ![r] = m]
    /\ UNCHANGED <<visible, durable, process, faults>>

(* ... and becomes visible when its transaction commits.                   *)
PublishMessage(r) ==
    /\ r \in Allocated \ visible
    /\ LateVisibility \/ \A q \in Allocated : q < r => q \in visible
    /\ visible' = visible \cup {r}
    /\ UNCHANGED <<box, durable, process, faults>>

-----------------------------------------------------------------------------
(* Start: ledger load, high water, replay, watcher.                        *)

MaxVisible == IF visible = {} THEN 0 ELSE CHOOSE r \in visible : \A q \in visible : q <= r

Start ==
    /\ phase = "down"
    /\ phase' = "replaying"
    /\ memory' = [cursors |-> cursors, wake |-> lastWake]
    /\ highWater' = MaxVisible
    /\ toReplay' = IF lastWake = NoCursor /\ \A m \in Mailboxes : cursors[m] = NoCursor
                   THEN {} ELSE Mailboxes
    /\ UNCHANGED <<store, durable, watch, page, queue, staged, stale, faults>>

(* Rows of a source past its boundary: its cursor, else the last wake.     *)
Missed(m) ==
    {r \in visible : /\ box[r] = m
                     /\ IF memory.cursors[m] # NoCursor THEN r > memory.cursors[m]
                        ELSE lastWake # NoCursor /\ r > lastWake}

BacklogEvent(m, rows) ==
    [kind |-> "backlog", box |-> m,
     through |-> CHOOSE r \in rows : \A q \in rows : q <= r, rows |-> rows]

(* The ascending listings of a set of rows: there is exactly one.           *)
Listings(rows) ==
    {s \in [1..Cardinality(rows) -> rows] :
        /\ \A i, j \in 1..Cardinality(rows) : i < j => s[i] < s[j]
        /\ rows = {s[i] : i \in 1..Cardinality(rows)}}

ReplaySource(m) ==
    /\ phase = "replaying" /\ m \in toReplay
    /\ toReplay' = toReplay \ {m}
    /\ IF Cardinality(Missed(m)) > BacklogThreshold
       THEN queue' = Append(queue, BacklogEvent(m, Missed(m)))
       ELSE \E s \in Listings(Missed(m)) :
               queue' = queue \o [i \in 1..Cardinality(Missed(m)) |-> MessageEvent(s[i])]
    /\ UNCHANGED <<store, durable, phase, highWater, watch, page, memory, staged, stale, faults>>

(* Seeded fault: the high water is taken after the replay.                 *)
WatchFromNow ==
    /\ phase = "replaying" /\ toReplay = {}
    /\ phase' = "running"
    /\ watch' = MaxVisible
    /\ UNCHANGED <<store, durable, toReplay, highWater, page, queue, memory, staged, stale, faults>>

(* The watcher starts at the high water taken before the replay, so rows   *)
(* stored during the replay are seen by both.                              *)
StartWatcher ==
    /\ phase = "replaying" /\ toReplay = {}
    /\ phase' = "running"
    /\ watch' = highWater
    /\ UNCHANGED <<store, durable, toReplay, highWater, page, queue, memory, staged, stale, faults>>

Crash ==
    /\ phase # "down" /\ faults < MaxFaults
    /\ faults' = faults + 1
    /\ phase' = "down" /\ toReplay' = {} /\ highWater' = 0 /\ watch' = 0 /\ page' = <<>>
    /\ queue' = <<>> /\ memory' = [cursors |-> cursors, wake |-> lastWake]
    /\ staged' = NothingStaged /\ stale' = FALSE
    /\ UNCHANGED <<store, durable>>

-----------------------------------------------------------------------------
(* The watcher: one query, then row by row with awaits in between.         *)

Poll ==
    /\ phase = "running" /\ page = <<>>
    /\ \E r \in visible : r > watch
    /\ \E ahead \in Listings({r \in visible : r > watch}) :
          page' = SubSeq(ahead, 1, IF Len(ahead) < PageSize THEN Len(ahead) ELSE PageSize)
    /\ UNCHANGED <<store, durable, phase, toReplay, highWater, watch, queue, memory, staged,
                   stale, faults>>

EnqueueRow ==
    /\ phase = "running" /\ page # <<>>
    /\ queue' = Append(queue, MessageEvent(Head(page)))
    /\ watch' = Head(page)
    /\ page' = Tail(page)
    /\ UNCHANGED <<store, durable, phase, toReplay, highWater, memory, staged, stale, faults>>

(* Seeded fault: the cursor passes the row that failed.                    *)
FailedRowSkipped ==
    /\ phase = "running" /\ page # <<>> /\ faults < MaxFaults
    /\ faults' = faults + 1
    /\ watch' = Head(page)
    /\ page' = <<>>
    /\ UNCHANGED <<store, durable, phase, toReplay, highWater, queue, memory, staged, stale>>

(* Preparing a row failed: the rest of the page is dropped and the next    *)
(* poll starts again at the first row not enqueued.                        *)
PollFails ==
    /\ phase = "running" /\ page # <<>> /\ faults < MaxFaults
    /\ faults' = faults + 1
    /\ page' = <<>>
    /\ UNCHANGED <<store, durable, phase, toReplay, highWater, watch, queue, memory, staged, stale>>

-----------------------------------------------------------------------------
(* The loop: drain everything, plan, commit the disclosures with cursors.  *)

(* Seeded fault: events at or behind the cursor are kept.                  *)
EveryEvent(events, cur) == 1..Len(events)
(* planMailboxDisclosures walks the events in queue order and skips what   *)
(* does not lie past the cursor of its mailbox so far.                     *)
FreshEvents(events, cur) ==
    {i \in 1..Len(events) :
        /\ events[i].through > cur[events[i].box]
        /\ \A j \in 1..(i - 1) : events[j].box = events[i].box =>
              events[j].through < events[i].through}

PlannedCursors(events, cur) ==
    [m \in Mailboxes |->
        LET through == {events[i].through : i \in {j \in 1..Len(events) : events[j].box = m}}
        IN  IF through = {} THEN cur[m]
            ELSE Larger(cur[m], CHOOSE r \in through : \A q \in through : q <= r)]

(* Without a fresh event nothing is staged and no commit is made.          *)
Drain ==
    /\ phase = "running" /\ staged = NothingStaged /\ queue # <<>>
    /\ queue' = <<>>
    /\ staged' = IF FreshEvents(queue, memory.cursors) = {} THEN NothingStaged
                 ELSE [events |-> queue,
                       fresh |-> {queue[i] : i \in FreshEvents(queue, memory.cursors)},
                       cursors |-> PlannedCursors(queue, memory.cursors),
                       wake |-> Cardinality(Allocated)]
    /\ UNCHANGED <<store, durable, phase, toReplay, highWater, watch, page, memory, stale, faults>>

(* Seeded fault: the expected head is not compared.                        *)
PersistWithoutHeadCheck ==
    /\ cursors' = staged.cursors
    /\ lastWake' = staged.wake
    /\ disclosed' = disclosed \cup UNION {e.rows : e \in staged.fresh}
    /\ times' = [r \in Rows |-> times[r] +
                    Cardinality({e \in staged.fresh : e.kind = "message" /\ e.through = r})]

(* The transaction: disclosure messages, cursors and wake time together.   *)
PersistDisclosure ==
    /\ ~stale
    /\ cursors' = staged.cursors
    /\ lastWake' = staged.wake
    /\ disclosed' = disclosed \cup UNION {e.rows : e \in staged.fresh}
    /\ times' = [r \in Rows |-> times[r] +
                    Cardinality({e \in staged.fresh : e.kind = "message" /\ e.through = r})]

CommitDisclosure ==
    /\ phase = "running" /\ staged # NothingStaged
    /\ PersistDisclosure
    /\ memory' = [cursors |-> staged.cursors, wake |-> staged.wake]
    /\ staged' = NothingStaged
    /\ UNCHANGED <<store, phase, toReplay, highWater, watch, page, queue, stale, faults>>

(* A failed commit puts the drained events behind whatever the watcher has *)
(* enqueued since.  A stale expected head makes every commit fail.         *)
Requeue ==
    /\ queue' = queue \o staged.events
    /\ staged' = NothingStaged
    /\ UNCHANGED <<store, phase, toReplay, highWater, watch, page>>

CommitFails ==
    /\ phase = "running" /\ staged # NothingStaged
    /\ stale \/ (CommitMayFail /\ faults < MaxFaults)
    /\ faults' = IF stale THEN faults ELSE faults + 1
    /\ Requeue
    /\ UNCHANGED <<durable, memory, stale>>

CommitUnacknowledged ==
    /\ phase = "running" /\ staged # NothingStaged
    /\ AckMayBeLost /\ faults < MaxFaults
    /\ faults' = faults + 1
    /\ PersistDisclosure
    /\ Requeue
    /\ stale' = TRUE
    /\ UNCHANGED memory

-----------------------------------------------------------------------------
Gateway == \E m \in Mailboxes : StoreMessage(m)
Publish == \E r \in Rows : PublishMessage(r)
Startup == Start \/ (\E m \in Mailboxes : ReplaySource(m)) \/ StartWatcher
Watcher == Poll \/ EnqueueRow
Loop == Drain \/ CommitDisclosure
Fault == Crash \/ PollFails \/ CommitFails \/ CommitUnacknowledged

Next == Gateway \/ Publish \/ Startup \/ Watcher \/ Loop \/ Fault

Spec == Init /\ [][Next]_vars

(* Gateways finish their inserts; the process is restarted, its startup,   *)
(* its polling timer and its loop keep running.                            *)
FairSpec ==
    Spec /\ WF_vars(Publish) /\ WF_vars(Startup) /\ WF_vars(Watcher) /\ WF_vars(Drain)
         /\ WF_vars(CommitDisclosure)

-----------------------------------------------------------------------------
(* Properties.                                                             *)

TypeOK ==
    /\ box \in [Rows -> Mailboxes \cup {NoBox}]
    /\ visible \subseteq Allocated /\ disclosed \subseteq visible
    /\ cursors \in [Mailboxes -> NoCursor..MaxRow]
    /\ lastWake \in NoCursor..MaxRow
    /\ phase \in {"down", "replaying", "running"}
    /\ toReplay \subseteq Mailboxes
    /\ highWater \in 0..MaxRow /\ watch \in 0..MaxRow
    /\ page \in Seq(Rows) /\ queue \in Seq(Event)
    /\ memory \in [cursors : [Mailboxes -> NoCursor..MaxRow], wake : NoCursor..MaxRow]
    /\ staged.events \in Seq(Event)
    /\ stale \in BOOLEAN /\ faults \in 0..MaxFaults

(* The stored cursor of a mailbox passes a stored message only together     *)
(* with a committed disclosure of it: replay, watcher and crashes between   *)
(* them never leave a message behind the cursor unseen.                     *)
CursorPassesOnlyDisclosed ==
    \A r \in visible : r <= cursors[box[r]] => r \in disclosed

(* A message whose disclosure commit failed is not lost: whatever waits in  *)
(* the queue is disclosed already or will be covered by the next drain.    *)
FailedCommitLosesNothing ==
    \A i \in 1..Len(queue) :
        queue[i].rows \subseteq
            disclosed \cup UNION {queue[j].rows : j \in FreshEvents(queue, memory.cursors)}

(* Replay and watcher both see rows stored during the start, and a failed   *)
(* commit requeues: still no row is disclosed as a message twice.           *)
DisclosedAtMostOnce == \A r \in Rows : times[r] <= 1

(* The store and the process keep their types, and what the ledger holds    *)
(* was disclosed once.                                                      *)
DeliveryInv == TypeOK /\ DisclosedAtMostOnce

(* Within a mailbox messages are disclosed in the order they were stored,   *)
(* across polls, requeues and restarts.                                     *)
DisclosedInOrder ==
    [][\A r \in Rows : times'[r] > times[r] =>
          \A q \in Rows : times[q] > 0 /\ box[q] = box[r] => q < r]_vars

(* Every stored message is eventually disclosed, also when it is stored     *)
(* while the process is down, replaying, or between two polls.              *)
EveryMessageDisclosed == \A r \in Rows : r \in visible ~> r \in disclosed
=============================================================================
