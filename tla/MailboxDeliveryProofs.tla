------------------------ MODULE MailboxDeliveryProofs ------------------------
(***************************************************************************)
(* Proofs about MailboxDelivery for any set of mailboxes, any number of     *)
(* rows and faults, any backlog threshold and page size.  DeliveryInd holds *)
(* whatever the gateways and the database do; CoverInv needs rows that      *)
(* become visible in id order and commits that report what they did.       *)
(***************************************************************************)
EXTENDS MailboxDelivery, FiniteSetTheorems, SequenceTheorems, WellFoundedInduction, TLAPS

-----------------------------------------------------------------------------
(* The inductive invariants.                                               *)

(* An event tells of stored rows of its mailbox, up to the last of them.    *)
EventSound(e) ==
    /\ e \in Event /\ e.through \in e.rows /\ e.rows \subseteq visible
    /\ \A r \in e.rows : box[r] = e.box /\ r <= e.through
    /\ e.kind = "message" => e.rows = {e.through}

EventsSound ==
    /\ \A i \in 1..Len(queue) : EventSound(queue[i])
    /\ \A i \in 1..Len(staged.events) : EventSound(staged.events[i])
    /\ \A i \in 1..Len(page) : page[i] \in visible

(* What a drain stages, from the cursors it knows.                         *)
Plan(events, cur, wake) ==
    [events |-> events, fresh |-> {events[i] : i \in FreshEvents(events, cur)},
     cursors |-> PlannedCursors(events, cur), wake |-> wake]

StagedSound ==
    staged = NothingStaged \/ \E w \in 0..MaxRow : staged = Plan(staged.events, memory.cursors, w)

DownIsEmpty == phase = "down" => queue = <<>> /\ page = <<>> /\ staged = NothingStaged

(* Memory lags behind the store only when an acknowledgement was lost.      *)
HeadKnown == stale \/ memory = [cursors |-> cursors, wake |-> lastWake]

(* A row that was disclosed lies behind the cursor of its mailbox.          *)
Counted ==
    /\ times \in [Rows -> Nat]
    /\ \A r \in Rows : times[r] > 0 => r \in visible /\ r <= cursors[box[r]]

DeliveryInd ==
    /\ TypeOK /\ EventsSound /\ StagedSound /\ DownIsEmpty /\ HeadKnown
    /\ Counted /\ DisclosedAtMostOnce

-----------------------------------------------------------------------------
(* Numbers and finite sets.                                                *)

(* A set of naturals has a least element.                                   *)
LEMMA Least ==
    ASSUME NEW T, T \subseteq Nat, T # {}
    PROVE  \E n \in T : \A m \in T : n <= m
<1> DEFINE R == OpToRel(<, Nat)
<1>1. PICK x \in T : \A y \in T : <<y, x>> \notin R
  <2>1. IsWellFoundedOn(R, Nat)
    BY NatLessThanWellFounded
  <2> HIDE DEF R
  <2> QED  BY <2>1, WFMin, Zenon
<1>2. \A y \in T : ~(y < x)
  BY <1>1 DEF OpToRel
<1> QED  BY <1>2

(* A bounded one has a greatest element.                                    *)
LEMMA Greatest ==
    ASSUME NEW T, NEW N \in Nat, T \subseteq 0..N, T # {}
    PROVE  \E n \in T : \A m \in T : m <= n
<1> DEFINE U == {k \in Nat : \A m \in T : m <= k}
<1>1. N \in U
  OBVIOUS
<1>2. PICK n \in U : \A m \in U : n <= m
  <2>1. U \subseteq Nat /\ U # {}
    BY <1>1
  <2> HIDE DEF U
  <2> QED  BY <2>1, Least
<1>3. n \in T
  <2> SUFFICES ASSUME n \notin T PROVE FALSE
    OBVIOUS
  <2>1. \A m \in T : m <= n - 1
    BY <1>2
  <2>2. n - 1 \in Nat
    <3>1. PICK m \in T : TRUE
      OBVIOUS
    <3> QED  BY <2>1, <3>1, <1>2
  <2> QED  BY <2>1, <2>2, <1>2
<1> QED  BY <1>2, <1>3

(* What the code takes as the last row of a set is one of it.               *)
LEMMA LastRowOf ==
    ASSUME NEW T, T \subseteq Rows, T # {}
    PROVE  /\ (CHOOSE r \in T : \A q \in T : q <= r) \in T
           /\ \A q \in T : q <= (CHOOSE r \in T : \A s \in T : s <= r)
<1>1. T \subseteq 0..MaxRow
  BY BoundsAssumption DEF Rows
<1>2. \E n \in T : \A m \in T : m <= n
  BY <1>1, Greatest, BoundsAssumption
<1> QED  BY <1>2

(* A set of rows is finite, and no larger than the bound.                   *)
LEMMA RowsCount ==
    ASSUME NEW S, S \subseteq Rows
    PROVE  /\ IsFiniteSet(S) /\ Cardinality(S) \in 0..MaxRow
           /\ S = {} => Cardinality(S) = 0
<1>1. IsFiniteSet(Rows) /\ Cardinality(Rows) = MaxRow
  BY FS_Interval, BoundsAssumption DEF Rows
<1>2. IsFiniteSet(S) /\ Cardinality(S) <= Cardinality(Rows)
  BY <1>1, FS_Subset
<1>3. Cardinality(S) \in Nat
  BY <1>2, FS_CardinalityType
<1>4. S = {} => Cardinality(S) = 0
  BY FS_EmptySet
<1> QED  BY <1>1, <1>2, <1>3, <1>4, BoundsAssumption

(* A set within a singleton has no element or that one.                     *)
LEMMA AtMostOne ==
    ASSUME NEW S, NEW x, S \subseteq {x}
    PROVE  Cardinality(S) \in {0, 1} /\ (Cardinality(S) > 0 => x \in S)
<1>1. CASE S = {}
  BY <1>1, FS_EmptySet
<1>2. CASE S = {x}
  BY <1>2, FS_Singleton
<1> QED  BY <1>1, <1>2

-----------------------------------------------------------------------------
(* The operators of the model.                                             *)

(* A listing is a sequence of the rows of its set, ascending, all of them.  *)
LEMMA Listed ==
    ASSUME NEW S, S \subseteq Rows, NEW s \in Listings(S)
    PROVE  /\ s \in Seq(S) /\ Len(s) = Cardinality(S) /\ Len(s) \in Nat
           /\ \A i \in 1..Len(s) : s[i] \in S
           /\ \A i, j \in 1..Len(s) : i < j => s[i] < s[j]
           /\ \A r \in S : \E i \in 1..Len(s) : s[i] = r
<1>1. Cardinality(S) \in Nat
  BY RowsCount, BoundsAssumption
<1>2. s \in [1..Cardinality(S) -> S]
  BY DEF Listings
<1>3. s \in Seq(S) /\ Len(s) = Cardinality(S)
  BY <1>1, <1>2
<1> QED  BY <1>1, <1>2, <1>3 DEF Listings

(* Planning moves a cursor forward only, to the last row of an event of     *)
(* its mailbox, and past all of them.                                      *)
LEMMA Planned ==
    ASSUME NEW events \in Seq(Event), NEW cur \in [Mailboxes -> NoCursor..MaxRow]
    PROVE  /\ PlannedCursors(events, cur) \in [Mailboxes -> NoCursor..MaxRow]
           /\ \A m \in Mailboxes :
                 /\ PlannedCursors(events, cur)[m] >= cur[m]
                 /\ \A i \in 1..Len(events) : events[i].box = m =>
                       events[i].through <= PlannedCursors(events, cur)[m]
                 /\ \/ PlannedCursors(events, cur)[m] = cur[m]
                    \/ \E i \in 1..Len(events) :
                          /\ events[i].box = m
                          /\ events[i].through = PlannedCursors(events, cur)[m]
<1> DEFINE T(m) == {events[i].through : i \in {j \in 1..Len(events) : events[j].box = m}}
<1> DEFINE P == PlannedCursors(events, cur)
<1>1. ASSUME NEW m \in Mailboxes
      PROVE  /\ P[m] \in NoCursor..MaxRow /\ P[m] >= cur[m]
             /\ \A q \in T(m) : q <= P[m]
             /\ P[m] = cur[m] \/ P[m] \in T(m)
  <2>1. T(m) \subseteq Rows
    <3>1. \A i \in 1..Len(events) : events[i] \in Event
      OBVIOUS
    <3> QED  BY <3>1 DEF Event
  <2>2. P[m] = IF T(m) = {} THEN cur[m]
               ELSE Larger(cur[m], CHOOSE r \in T(m) : \A q \in T(m) : q <= r)
    BY DEF PlannedCursors
  <2>3. CASE T(m) = {}
    <3>1. P[m] = cur[m] /\ cur[m] \in NoCursor..MaxRow
      BY <2>2, <2>3
    <3> HIDE DEF T, P
    <3> QED  BY <2>3, <3>1, BoundsAssumption DEF NoCursor
  <2>4. CASE T(m) # {}
    <3> DEFINE g == CHOOSE r \in T(m) : \A q \in T(m) : q <= r
    <3>1. g \in T(m) /\ \A q \in T(m) : q <= g
      <4> HIDE DEF T
      <4> QED  BY <2>1, <2>4, LastRowOf
    <3>2. P[m] = IF cur[m] > g THEN cur[m] ELSE g
      BY <2>2, <2>4 DEF Larger
    <3>3. g \in Rows /\ g \in 1..MaxRow /\ cur[m] \in NoCursor..MaxRow
      BY <2>1, <3>1 DEF Rows
    <3>4. \A q \in T(m) : q \in 1..MaxRow
      BY <2>1 DEF Rows
    <3> HIDE DEF T, g, P
    <3> QED  BY <3>1, <3>2, <3>3, <3>4, BoundsAssumption DEF NoCursor
  <2> QED  BY <2>3, <2>4
<1>2. P = [m \in Mailboxes |-> P[m]]
  BY DEF PlannedCursors
<1> QED  BY <1>1, <1>2

(* The first event of a mailbox that reaches a row past its cursor is       *)
(* fresh.                                                                  *)
LEMMA FirstIsFresh ==
    ASSUME NEW events \in Seq(Event), NEW cur \in [Mailboxes -> NoCursor..MaxRow],
           NEW r \in Rows, NEW m \in Mailboxes, r > cur[m],
           \E i \in 1..Len(events) : events[i].box = m /\ events[i].through >= r
    PROVE  \E i \in FreshEvents(events, cur) :
              /\ i \in 1..Len(events) /\ events[i].box = m /\ events[i].through >= r
              /\ \A j \in 1..(i - 1) : events[j].box = m => events[j].through < r
<1> DEFINE T == {i \in 1..Len(events) : events[i].box = m /\ events[i].through >= r}
<1>1. PICK i \in T : \A j \in T : i <= j
  <2>1. T \subseteq Nat /\ T # {}
    OBVIOUS
  <2> HIDE DEF T
  <2> QED  BY <2>1, Least
<1>2. \A k \in 1..Len(events) : events[k].through \in Nat
  <2>1. \A k \in 1..Len(events) : events[k] \in Event
    OBVIOUS
  <2>2. \A e \in Event : e.through \in Rows
    BY DEF Event
  <2>3. Rows \subseteq Nat
    BY DEF Rows
  <2> QED  BY <2>1, <2>2, <2>3
<1>3. \A j \in 1..(i - 1) : events[j].box = m => events[j].through < r
  BY <1>1, <1>2 DEF Rows
<1>4. i \in FreshEvents(events, cur)
  <2>1. cur[m] \in NoCursor..MaxRow
    OBVIOUS
  <2> QED  BY <2>1, <1>1, <1>2, <1>3, BoundsAssumption DEF FreshEvents, Rows, NoCursor
<1> QED  BY <1>1, <1>3, <1>4

-----------------------------------------------------------------------------
(* Events.                                                                 *)

(* What is told of a row or of several is sound.                           *)
LEMMA MessageIsSound ==
    ASSUME TypeOK, NEW r \in visible
    PROVE  EventSound(MessageEvent(r)) /\ MessageEvent(r).box = box[r]
           /\ MessageEvent(r).through = r /\ MessageEvent(r).rows = {r}
           /\ MessageEvent(r).kind = "message"
<1>1. r \in Rows /\ box[r] \in Mailboxes
  BY DEF TypeOK, Allocated
<1>2. MessageEvent(r) \in Event
  BY <1>1 DEF MessageEvent, Event
<1>3. r <= r
  BY <1>1 DEF Rows
<1> QED  BY <1>1, <1>2, <1>3 DEF MessageEvent, EventSound

(* A digest of visible rows of one mailbox is a sound event with exactly    *)
(* these rows.                                                              *)
LEMMA BacklogIsSound ==
    ASSUME TypeOK, NEW m \in Mailboxes, NEW S, S \subseteq visible, S # {},
           \A r \in S : box[r] = m
    PROVE  EventSound(BacklogEvent(m, S)) /\ BacklogEvent(m, S).box = m
           /\ BacklogEvent(m, S).rows = S
<1>1. S \subseteq Rows
  BY DEF TypeOK, Allocated
<1> DEFINE g == CHOOSE r \in S : \A q \in S : q <= r
<1>2. g \in S /\ \A q \in S : q <= g
  <2>1. (CHOOSE r \in S : \A q \in S : q <= r) \in S
        /\ \A q \in S : q <= (CHOOSE r \in S : \A s \in S : s <= r)
    BY <1>1, LastRowOf
  <2> QED  BY <2>1
<1>3. BacklogEvent(m, S) = [kind |-> "backlog", box |-> m, through |-> g, rows |-> S]
  BY DEF BacklogEvent
<1>4. g \in Rows
  BY <1>1, <1>2
<1> HIDE DEF g
<1>5. BacklogEvent(m, S) \in Event
  BY <1>1, <1>3, <1>4 DEF Event
<1> QED  BY <1>2, <1>3, <1>5 DEF EventSound

(* Storing and publishing rows leaves the events sound.                    *)
LEMMA StaysSound ==
    ASSUME visible \subseteq visible', \A r \in visible : box'[r] = box[r],
           NEW e, EventSound(e)
    PROVE  EventSound(e)'
BY DEF EventSound

(* Events that wait stay sound while rows are stored and published.         *)
LEMMA EventsStaySound ==
    ASSUME EventsSound, visible \subseteq visible', \A r \in visible : box'[r] = box[r],
           UNCHANGED <<queue, staged, page>>
    PROVE  EventsSound'
<1>1. ASSUME NEW i \in 1..Len(queue) PROVE EventSound(queue[i])'
  BY StaysSound DEF EventsSound
<1>2. ASSUME NEW i \in 1..Len(staged.events) PROVE EventSound(staged.events[i])'
  BY StaysSound DEF EventsSound
<1> QED  BY <1>1, <1>2 DEF EventsSound

(* The rows of a replay source and their events.                           *)
LEMMA ReplayIsSound ==
    ASSUME TypeOK, NEW m \in Mailboxes, NEW s \in Listings(Missed(m))
    PROVE  LET told == [i \in 1..Cardinality(Missed(m)) |-> MessageEvent(s[i])]
           IN  /\ told \in Seq(Event) /\ Len(told) = Len(s)
               /\ \A i \in 1..Len(told) : /\ EventSound(told[i])
                                          /\ told[i] = MessageEvent(s[i])
                                          /\ s[i] \in Missed(m)
<1> DEFINE told == [i \in 1..Cardinality(Missed(m)) |-> MessageEvent(s[i])]
<1>1. Missed(m) \subseteq visible /\ Missed(m) \subseteq Rows
  BY DEF Missed, TypeOK, Allocated
<1>2. /\ Len(s) = Cardinality(Missed(m)) /\ Len(s) \in Nat
      /\ \A i \in 1..Len(s) : s[i] \in Missed(m)
  BY <1>1, Listed
<1>3. \A i \in 1..Len(s) : EventSound(MessageEvent(s[i]))
  BY <1>1, <1>2, MessageIsSound
<1>4. told \in [1..Len(s) -> Event]
  BY <1>2, <1>3 DEF EventSound
<1>5. told \in Seq(Event) /\ Len(told) = Len(s)
  BY <1>2, <1>4
<1> QED  BY <1>2, <1>3, <1>5

-----------------------------------------------------------------------------
(* The commit of a disclosure.                                             *)

(* What is staged was planned from the stored cursors when the head is      *)
(* known.                                                                  *)
LEMMA StagedPlan ==
    ASSUME DeliveryInd, staged # NothingStaged
    PROVE  /\ staged.fresh = {staged.events[i] : i \in FreshEvents(staged.events, memory.cursors)}
           /\ staged.cursors = PlannedCursors(staged.events, memory.cursors)
           /\ staged.wake \in 0..MaxRow
           /\ staged.events \in Seq(Event) /\ memory.cursors \in [Mailboxes -> NoCursor..MaxRow]
           /\ \A i \in FreshEvents(staged.events, memory.cursors) : i \in 1..Len(staged.events)
           /\ ~stale => memory.cursors = cursors
<1>1. PICK w \in 0..MaxRow : staged = Plan(staged.events, memory.cursors, w)
  BY DEF DeliveryInd, StagedSound
<1>2. staged.fresh = Plan(staged.events, memory.cursors, w).fresh
      /\ staged.cursors = Plan(staged.events, memory.cursors, w).cursors
      /\ staged.wake = Plan(staged.events, memory.cursors, w).wake
  BY <1>1
<1>3. staged.events \in Seq(Event) /\ memory.cursors \in [Mailboxes -> NoCursor..MaxRow]
  BY DEF DeliveryInd, TypeOK
<1>4. ~stale => memory.cursors = cursors
  BY DEF DeliveryInd, HeadKnown
<1>5. \A i \in FreshEvents(staged.events, memory.cursors) : i \in 1..Len(staged.events)
  BY DEF FreshEvents
<1> QED  BY <1>2, <1>3, <1>4, <1>5 DEF Plan

(* A committed disclosure counts a row at most once more, and only a row    *)
(* past the stored cursor of its mailbox; no cursor goes back, and the     *)
(* row is behind the new one.                                              *)
LEMMA PersistCounts ==
    ASSUME DeliveryInd, staged # NothingStaged, PersistDisclosure
    PROVE  /\ times' \in [Rows -> Nat]
           /\ cursors' \in [Mailboxes -> NoCursor..MaxRow] /\ lastWake' \in NoCursor..MaxRow
           /\ disclosed' \subseteq visible
           /\ \A m \in Mailboxes : cursors'[m] >= cursors[m]
           /\ \A r \in Rows :
                 \/ times'[r] = times[r]
                 \/ /\ times'[r] = times[r] + 1 /\ times[r] = 0
                    /\ r \in visible /\ r > cursors[box[r]] /\ r <= cursors'[box[r]]
<1> DEFINE E == staged.events
<1>1. /\ ~stale /\ cursors' = PlannedCursors(E, cursors) /\ lastWake' \in 0..MaxRow
      /\ staged.fresh = {E[i] : i \in FreshEvents(E, cursors)}
      /\ E \in Seq(Event) /\ cursors \in [Mailboxes -> NoCursor..MaxRow]
      /\ \A i \in FreshEvents(E, cursors) : i \in 1..Len(E)
  BY StagedPlan DEF PersistDisclosure
<1>2. \A e \in staged.fresh : EventSound(e)
  BY <1>1 DEF DeliveryInd, EventsSound
<1>3. disclosed' \subseteq visible
  <2>1. UNION {e.rows : e \in staged.fresh} \subseteq visible
    BY <1>2 DEF EventSound
  <2> QED  BY <2>1 DEF PersistDisclosure, DeliveryInd, TypeOK
<1>4. \A m \in Mailboxes : cursors'[m] >= cursors[m]
  BY <1>1, Planned
<1>5. ASSUME NEW r \in Rows
      PROVE  \/ times'[r] = times[r]
             \/ /\ times'[r] = times[r] + 1 /\ times[r] = 0
                /\ r \in visible /\ r > cursors[box[r]] /\ r <= cursors'[box[r]]
  <2> DEFINE told == {e \in staged.fresh : e.kind = "message" /\ e.through = r}
  <2>1. times'[r] = times[r] + Cardinality(told) /\ times[r] \in Nat
    BY DEF PersistDisclosure, DeliveryInd, Counted
  <2>2. told \subseteq {[kind |-> "message", box |-> box[r], through |-> r, rows |-> {r}]}
    BY <1>2 DEF EventSound, Event
  <2>3. Cardinality(told) \in {0, 1}
    BY <2>2, AtMostOne
  <2>4. CASE told = {}
    <3>1. Cardinality(told) = 0
      BY <2>4, FS_EmptySet
    <3> HIDE DEF told
    <3> QED  BY <2>1, <3>1
  <2>5. CASE told # {}
    <3>1. PICK i \in FreshEvents(E, cursors) : E[i] \in told
      BY <2>5, <1>1
    <3>2. i \in 1..Len(E) /\ EventSound(E[i]) /\ E[i].through = r /\ E[i].box = box[r]
          /\ r \in visible
      BY <3>1, <1>1, <1>2 DEF EventSound
    <3>3. box[r] \in Mailboxes
      BY <3>2 DEF DeliveryInd, TypeOK, Allocated
    <3>4. r > cursors[box[r]] /\ r <= cursors'[box[r]]
      <4>1. r > cursors[box[r]]
        BY <3>1, <3>2 DEF FreshEvents
      <4>2. \A k \in 1..Len(E) : E[k].box = box[r] => E[k].through <= cursors'[box[r]]
        BY <1>1, <3>3, Planned
      <4> QED  BY <4>1, <4>2, <3>2
    <3>5. times[r] = 0
      <4>1. ~(times[r] > 0)
        <5>1. cursors[box[r]] \in NoCursor..MaxRow
          BY <1>1, <3>3
        <5> QED  BY <3>4, <5>1, BoundsAssumption DEF DeliveryInd, Counted, Rows, NoCursor
      <4> QED  BY <4>1, <2>1
    <3> HIDE DEF told
    <3> QED  BY <2>1, <2>3, <3>2, <3>4, <3>5
  <2> QED  BY <2>4, <2>5
<1>6. times' \in [Rows -> Nat]
  <2>1. times' = [r \in Rows |-> times'[r]]
    BY DEF PersistDisclosure
  <2>2. \A r \in Rows : times'[r] \in Nat
    BY <1>5 DEF DeliveryInd, Counted
  <2> QED  BY <2>1, <2>2
<1>7. cursors' \in [Mailboxes -> NoCursor..MaxRow]
  BY <1>1, Planned
<1>8. lastWake' \in NoCursor..MaxRow
  BY <1>1, BoundsAssumption DEF NoCursor
<1> QED  BY <1>3, <1>4, <1>5, <1>6, <1>7, <1>8

(* The count after a committed disclosure.                                 *)
LEMMA PersistKeeps ==
    ASSUME DeliveryInd, staged # NothingStaged, PersistDisclosure, UNCHANGED store
    PROVE  Counted' /\ DisclosedAtMostOnce'
<1> USE DEF store
<1>1. ASSUME NEW r \in Rows
      PROVE  (times'[r] > 0 => r \in visible /\ r <= cursors'[box[r]]) /\ times'[r] <= 1
  <2>1. CASE times'[r] = times[r]
    <3>1. times[r] > 0 => /\ r \in visible /\ r <= cursors[box[r]]
                          /\ cursors'[box[r]] >= cursors[box[r]]
                          /\ cursors[box[r]] \in NoCursor..MaxRow
                          /\ cursors'[box[r]] \in NoCursor..MaxRow
      BY PersistCounts DEF DeliveryInd, Counted, TypeOK, Allocated
    <3>2. times[r] <= 1 /\ times[r] \in Nat
      BY DEF DeliveryInd, DisclosedAtMostOnce, Counted
    <3> QED  BY <2>1, <3>1, <3>2, BoundsAssumption DEF Rows, NoCursor
  <2>2. CASE times'[r] = times[r] + 1 /\ times[r] = 0 /\ r \in visible /\ r <= cursors'[box[r]]
    BY <2>2
  <2> QED  BY <2>1, <2>2, PersistCounts
<1> QED  BY <1>1, PersistCounts DEF Counted, DisclosedAtMostOnce

(* The first state.                                                        *)
LEMMA DeliveryStart == Init => DeliveryInd
<1> SUFFICES ASSUME Init PROVE DeliveryInd
  OBVIOUS
<1>1. TypeOK
  <2>1. cursors \in [Mailboxes -> NoCursor..MaxRow] /\ lastWake \in NoCursor..MaxRow
    BY BoundsAssumption DEF Init, NoCursor
  <2>2. /\ page \in Seq(Rows) /\ queue \in Seq(Event) /\ staged.events \in Seq(Event)
        /\ faults \in 0..MaxFaults /\ highWater \in 0..MaxRow /\ watch \in 0..MaxRow
    BY BoundsAssumption DEF Init, NothingStaged
  <2>3. /\ box \in [Rows -> Mailboxes \cup {NoBox}] /\ visible = {} /\ disclosed = {}
        /\ phase = "down" /\ toReplay = {} /\ stale = FALSE
        /\ memory = [cursors |-> cursors, wake |-> lastWake]
    BY DEF Init
  <2> QED  BY <2>1, <2>2, <2>3 DEF TypeOK
<1>2. EventsSound
  BY DEF Init, EventsSound, NothingStaged
<1>3. Counted /\ DisclosedAtMostOnce
  BY DEF Init, Counted, DisclosedAtMostOnce
<1> QED  BY <1>1, <1>2, <1>3 DEF DeliveryInd, Init, StagedSound, DownIsEmpty, HeadKnown

(* Every step keeps the inductive invariant.                                *)
LEMMA DeliveryStep ==
    ASSUME DeliveryInd, [Next]_vars
    PROVE  DeliveryInd'
<1> USE DEF store, durable, process
<1>0. TypeOK /\ EventsSound /\ StagedSound /\ DownIsEmpty /\ HeadKnown /\ Counted
      /\ DisclosedAtMostOnce
  BY DEF DeliveryInd
<1>1. CASE UNCHANGED vars
  <2>1. TypeOK'
    <3>1. /\ UNCHANGED <<box, visible, cursors, lastWake, disclosed, times, phase, toReplay>>
          /\ UNCHANGED <<highWater, watch, page, queue, memory, staged, stale, faults>>
      BY <1>1 DEF vars
    <3>2. Allocated' = Allocated BY <3>1 DEF Allocated
    <3>3. /\ (box \in [Rows -> Mailboxes \cup {NoBox}])'
          /\ (visible \subseteq Allocated /\ disclosed \subseteq visible)'
          /\ (cursors \in [Mailboxes -> NoCursor..MaxRow])' /\ (lastWake \in NoCursor..MaxRow)'
          /\ (phase \in {"down", "replaying", "running"})' /\ (toReplay \subseteq Mailboxes)'
      BY <1>0, <3>1, <3>2 DEF TypeOK
    <3>4. /\ (highWater \in 0..MaxRow /\ watch \in 0..MaxRow)'
          /\ (page \in Seq(Rows) /\ queue \in Seq(Event))'
          /\ (memory \in [cursors : [Mailboxes -> NoCursor..MaxRow], wake : NoCursor..MaxRow])'
          /\ (staged.events \in Seq(Event))' /\ (stale \in BOOLEAN /\ faults \in 0..MaxFaults)'
      BY <1>0, <3>1 DEF TypeOK
    <3> QED BY <3>3, <3>4 DEF TypeOK
  <2>2. EventsSound' /\ StagedSound' BY <1>0, <1>1 DEF vars, EventsSound, EventSound, StagedSound, Allocated
  <2>3. DownIsEmpty' /\ HeadKnown' BY <1>0, <1>1 DEF vars, DownIsEmpty, HeadKnown
  <2>4. Counted' /\ DisclosedAtMostOnce' BY <1>0, <1>1 DEF vars, Counted, DisclosedAtMostOnce, Allocated
  <2> QED BY <2>1, <2>2, <2>3, <2>4 DEF DeliveryInd
<1>2. ASSUME NEW m \in Mailboxes, StoreMessage(m) PROVE DeliveryInd'
  <2>1. PICK r \in Rows : Allocated = 1..(r - 1) /\ box' = [box EXCEPT ![r] = m]
    BY <1>2 DEF StoreMessage
  <2>2. /\ r \notin Allocated /\ UNCHANGED <<visible, durable, process, faults>>
        /\ \A q \in visible : box'[q] = box[q]
    BY <1>0, <1>2, <2>1 DEF StoreMessage, Rows, TypeOK
  <2>3. TypeOK'
    BY <1>0, <2>1, <2>2 DEF TypeOK, Allocated
  <2>4. EventsSound'
    BY <1>0, <2>2, EventsStaySound
  <2>5. Counted'
    BY <1>0, <2>2 DEF Counted
  <2> QED  BY <1>0, <2>2, <2>3, <2>4, <2>5 DEF DeliveryInd, StagedSound, DownIsEmpty, HeadKnown,
              DisclosedAtMostOnce
<1>3. ASSUME NEW r \in Rows, PublishMessage(r) PROVE DeliveryInd'
  <2>1. UNCHANGED <<box, durable, process, faults>> /\ visible' = visible \cup {r} /\ r \in Allocated
    BY <1>3 DEF PublishMessage
  <2>2. TypeOK'
    BY <1>0, <2>1 DEF TypeOK, Allocated
  <2>3. EventsSound'
    BY <1>0, <2>1, EventsStaySound
  <2>4. Counted'
    BY <1>0, <2>1 DEF Counted
  <2> QED  BY <1>0, <2>1, <2>2, <2>3, <2>4 DEF DeliveryInd, StagedSound, DownIsEmpty, HeadKnown,
              DisclosedAtMostOnce
<1>4. CASE Start
  <2>1. MaxVisible \in 0..MaxRow
    <3>1. visible \subseteq Rows
      BY <1>0 DEF TypeOK, Allocated
    <3> DEFINE g == CHOOSE r \in visible : \A q \in visible : q <= r
    <3>2. visible # {} => g \in visible
      BY <3>1, LastRowOf
    <3>3. MaxVisible = IF visible = {} THEN 0 ELSE g
      BY DEF MaxVisible
    <3> HIDE DEF g
    <3> QED  BY <3>1, <3>2, <3>3, BoundsAssumption DEF Rows
  <2>2. UNCHANGED <<store, durable, watch, page, queue, staged, stale, faults>>
        /\ memory' = [cursors |-> cursors, wake |-> lastWake]
        /\ phase' = "replaying" /\ highWater' \in 0..MaxRow /\ toReplay' \subseteq Mailboxes
    BY <1>4, <2>1 DEF Start
  <2>3. TypeOK'
    BY <1>0, <2>2 DEF TypeOK, Allocated
  <2>4. EventsSound'
    BY <1>0, <2>2, EventsStaySound
  <2>5. StagedSound' /\ DownIsEmpty'
    BY <1>0, <1>4, <2>2 DEF Start, StagedSound, DownIsEmpty
  <2> QED  BY <1>0, <2>2, <2>3, <2>4, <2>5 DEF DeliveryInd, HeadKnown, Counted, DisclosedAtMostOnce
<1>5. ASSUME NEW m \in Mailboxes, ReplaySource(m) PROVE DeliveryInd'
  <2>1. UNCHANGED <<store, durable, phase, highWater, watch, page, memory, staged, stale, faults>>
        /\ phase = "replaying" /\ toReplay' \subseteq Mailboxes
    BY <1>0, <1>5 DEF ReplaySource, TypeOK
  <2>2. queue' \in Seq(Event) /\ \A i \in 1..Len(queue') : EventSound(queue'[i])
    <3>1. queue \in Seq(Event) /\ \A i \in 1..Len(queue) : EventSound(queue[i])
      BY <1>0 DEF TypeOK, EventsSound
    <3>2. CASE Cardinality(Missed(m)) > BacklogThreshold
      <4>1. Missed(m) \subseteq visible /\ Missed(m) \subseteq Rows /\ \A r \in Missed(m) : box[r] = m
        BY <1>0 DEF Missed, TypeOK, Allocated
      <4>2. Missed(m) # {}
        BY <3>2, <4>1, RowsCount, BoundsAssumption
      <4>3. EventSound(BacklogEvent(m, Missed(m))) /\ BacklogEvent(m, Missed(m)) \in Event
        BY <1>0, <4>1, <4>2, BacklogIsSound DEF EventSound
      <4>4. queue' = Append(queue, BacklogEvent(m, Missed(m)))
        BY <1>5, <3>2 DEF ReplaySource
      <4> QED  BY <3>1, <4>3, <4>4
    <3>3. CASE ~(Cardinality(Missed(m)) > BacklogThreshold)
      <4>1. PICK s \in Listings(Missed(m)) :
              queue' = queue \o [i \in 1..Cardinality(Missed(m)) |-> MessageEvent(s[i])]
        BY <1>5, <3>3 DEF ReplaySource
      <4> DEFINE told == [i \in 1..Cardinality(Missed(m)) |-> MessageEvent(s[i])]
      <4>2. told \in Seq(Event) /\ \A i \in 1..Len(told) : EventSound(told[i])
        BY <1>0, ReplayIsSound
      <4>3. queue' = queue \o told
        BY <4>1
      <4> HIDE DEF told
      <4> QED  BY <3>1, <4>2, <4>3, ConcatProperties
    <3> QED  BY <3>2, <3>3
  <2>3. TypeOK'
    BY <1>0, <2>1, <2>2 DEF TypeOK, Allocated
  <2>4. EventsSound'
    BY <1>0, <2>1, <2>2 DEF EventsSound, EventSound
  <2> QED  BY <1>0, <2>1, <2>3, <2>4 DEF DeliveryInd, StagedSound, DownIsEmpty, HeadKnown, Counted,
              DisclosedAtMostOnce
<1>6. CASE StartWatcher
  <2>1. TypeOK'
    BY <1>0, <1>6 DEF StartWatcher, TypeOK, Allocated
  <2>2. EventsSound'
    BY <1>0, <1>6, EventsStaySound DEF StartWatcher
  <2> QED  BY <1>0, <1>6, <2>1, <2>2 DEF StartWatcher, DeliveryInd, StagedSound, DownIsEmpty,
              HeadKnown, Counted, DisclosedAtMostOnce
<1>7. CASE Poll
  <2>1. UNCHANGED <<store, durable, phase, toReplay, highWater, watch, queue, memory, staged, stale,
                    faults>> /\ phase = "running"
    BY <1>7 DEF Poll
  <2>2. page' \in Seq(Rows) /\ \A i \in 1..Len(page') : page'[i] \in visible
    <3> DEFINE S == {r \in visible : r > watch}
    <3>1. PICK a \in Listings(S) :
            page' = SubSeq(a, 1, IF Len(a) < PageSize THEN Len(a) ELSE PageSize)
      BY <1>7 DEF Poll
    <3>2. S \subseteq Rows /\ S \subseteq visible
      BY <1>0 DEF TypeOK, Allocated
    <3> HIDE DEF S
    <3>3. a \in Seq(S) /\ Len(a) \in Nat
      BY <3>2, Listed
    <3> DEFINE n == IF Len(a) < PageSize THEN Len(a) ELSE PageSize
    <3>4. n \in Nat /\ n <= Len(a)
      BY <3>3, BoundsAssumption
    <3>5. page' \in Seq(S)
      <4> HIDE DEF n
      <4>1. \A i \in 1..n : a[i] \in S
        BY <3>3, <3>4
      <4>2. page' = SubSeq(a, 1, n)
        BY <3>1 DEF n
      <4> QED  BY <3>3, <3>4, <4>1, <4>2, SubSeqProperties
    <3> QED  BY <3>2, <3>5
  <2>3. TypeOK'
    BY <1>0, <2>1, <2>2 DEF TypeOK, Allocated
  <2>4. EventsSound'
    BY <1>0, <2>1, <2>2 DEF EventsSound, EventSound
  <2> QED  BY <1>0, <2>1, <2>3, <2>4 DEF DeliveryInd, StagedSound, DownIsEmpty, HeadKnown, Counted,
              DisclosedAtMostOnce
<1>8. CASE EnqueueRow
  <2>1. UNCHANGED <<store, durable, phase, toReplay, highWater, memory, staged, stale, faults>>
        /\ phase = "running" /\ page # <<>> /\ watch' = Head(page) /\ page' = Tail(page)
        /\ queue' = Append(queue, MessageEvent(Head(page)))
    BY <1>8 DEF EnqueueRow
  <2>2. page \in Seq(Rows) /\ \A i \in 1..Len(page) : page[i] \in visible
    BY <1>0 DEF TypeOK, EventsSound
  <2>3. /\ Head(page) \in visible /\ Head(page) \in Rows
        /\ page' \in Seq(Rows) /\ \A i \in 1..Len(page') : page'[i] \in visible
    BY <2>1, <2>2
  <2>4. EventSound(MessageEvent(Head(page))) /\ MessageEvent(Head(page)) \in Event
    BY <1>0, <2>3, MessageIsSound DEF EventSound
  <2>5. queue' \in Seq(Event) /\ \A i \in 1..Len(queue') : EventSound(queue'[i])
    <3>1. queue \in Seq(Event) /\ \A i \in 1..Len(queue) : EventSound(queue[i])
      BY <1>0 DEF TypeOK, EventsSound
    <3>2. /\ queue' \in Seq(Event) /\ Len(queue') = Len(queue) + 1
          /\ \A i \in 1..Len(queue) : queue'[i] = queue[i]
          /\ queue'[Len(queue) + 1] = MessageEvent(Head(page))
      BY <2>1, <2>4, <3>1, AppendProperties
    <3>3. \A i \in 1..Len(queue') : i \in 1..Len(queue) \/ i = Len(queue) + 1
      BY <3>1, <3>2
    <3> QED  BY <2>4, <3>1, <3>2, <3>3
  <2>6. TypeOK'
    <3>1. watch' \in 0..MaxRow
      BY <2>1, <2>3, BoundsAssumption DEF Rows
    <3>2. visible' = visible /\ Allocated' = Allocated
      BY <2>1 DEF Allocated
    <3> QED  BY <1>0, <2>1, <2>3, <2>5, <3>1, <3>2 DEF TypeOK
  <2>7. EventsSound'
    BY <1>0, <2>1, <2>3, <2>5 DEF EventsSound, EventSound
  <2> QED  BY <1>0, <2>1, <2>6, <2>7 DEF DeliveryInd, StagedSound, DownIsEmpty, HeadKnown, Counted,
              DisclosedAtMostOnce
<1>9. CASE Drain
  <2>1. UNCHANGED <<store, durable, phase, toReplay, highWater, watch, page, memory, stale, faults>>
        /\ phase = "running" /\ queue' = <<>> /\ staged = NothingStaged
    BY <1>9 DEF Drain
  <2>2. staged' = NothingStaged \/ staged' = Plan(queue, memory.cursors, Cardinality(Allocated))
    BY <1>9 DEF Drain, Plan
  <2>3. Cardinality(Allocated) \in 0..MaxRow
    BY RowsCount DEF Allocated
  <2>4. staged'.events = <<>> \/ staged'.events = queue
    BY <2>2 DEF NothingStaged, Plan
  <2>5. TypeOK'
    <3>1. queue \in Seq(Event)
      BY <1>0 DEF TypeOK
    <3>2. staged'.events \in Seq(Event) /\ queue' \in Seq(Event)
      <4>1. <<>> \in Seq(Event)
        OBVIOUS
      <4> QED  BY <2>1, <2>4, <3>1, <4>1, Zenon
    <3> QED  BY <1>0, <2>1, <3>2 DEF TypeOK, Allocated
  <2>6. EventsSound'
    BY <1>0, <2>1, <2>4 DEF EventsSound, EventSound
  <2>7. StagedSound'
    <3>1. CASE staged' = NothingStaged
      BY <3>1 DEF StagedSound
    <3>2. CASE staged' = Plan(queue, memory.cursors, Cardinality(Allocated))
      <4>1. staged'.events = queue
        BY <3>2 DEF Plan
      <4>2. staged' = Plan(staged'.events, memory'.cursors, Cardinality(Allocated))
        BY <2>1, <3>2, <4>1
      <4> QED  BY <2>3, <4>2 DEF StagedSound
    <3> QED  BY <2>2, <3>1, <3>2
  <2> QED  BY <1>0, <2>1, <2>5, <2>6, <2>7 DEF DeliveryInd, DownIsEmpty, HeadKnown, Counted,
              DisclosedAtMostOnce
<1>10. CASE CommitDisclosure
  <2>1. UNCHANGED <<store, phase, toReplay, highWater, watch, page, queue, stale, faults>>
        /\ phase = "running" /\ staged # NothingStaged /\ PersistDisclosure
        /\ memory' = [cursors |-> staged.cursors, wake |-> staged.wake]
        /\ staged' = NothingStaged
    BY <1>10 DEF CommitDisclosure
  <2>2. Counted' /\ DisclosedAtMostOnce'
    BY <2>1, PersistKeeps
  <2>3. /\ cursors' \in [Mailboxes -> NoCursor..MaxRow] /\ lastWake' \in NoCursor..MaxRow
        /\ disclosed' \subseteq visible
        /\ cursors' = staged.cursors /\ lastWake' = staged.wake
    BY <2>1, PersistCounts DEF PersistDisclosure
  <2>4. TypeOK'
    BY <1>0, <2>1, <2>3 DEF TypeOK, Allocated, NothingStaged
  <2>5. EventsSound'
    BY <1>0, <2>1 DEF EventsSound, EventSound, NothingStaged
  <2> QED  BY <1>0, <2>1, <2>2, <2>3, <2>4, <2>5 DEF DeliveryInd, StagedSound, DownIsEmpty, HeadKnown
<1>11. ASSUME Requeue, phase = "running"
       PROVE  /\ queue' \in Seq(Event) /\ \A i \in 1..Len(queue') : EventSound(queue'[i])
              /\ EventsSound' /\ StagedSound' /\ DownIsEmpty'
  <2>1. /\ queue \in Seq(Event) /\ staged.events \in Seq(Event)
        /\ \A i \in 1..Len(queue) : EventSound(queue[i])
        /\ \A i \in 1..Len(staged.events) : EventSound(staged.events[i])
    BY <1>0 DEF TypeOK, EventsSound
  <2>2. queue' = queue \o staged.events /\ staged' = NothingStaged
        /\ UNCHANGED <<store, phase, toReplay, highWater, watch, page>>
    BY <1>11 DEF Requeue
  <2>3. queue' \in Seq(Event) /\ \A i \in 1..Len(queue') : EventSound(queue'[i])
    BY <2>1, <2>2, ConcatProperties
  <2>4. EventsSound'
    BY <1>0, <2>2, <2>3 DEF EventsSound, EventSound, NothingStaged
  <2> QED  BY <1>11, <2>2, <2>3, <2>4 DEF StagedSound, DownIsEmpty
<1>12. CASE CommitFails
  <2>1. /\ Requeue /\ phase = "running" /\ UNCHANGED <<durable, memory, stale>>
        /\ UNCHANGED <<store, phase, toReplay, highWater, watch, page>> /\ staged' = NothingStaged
        /\ faults' \in 0..MaxFaults
    BY <1>0, <1>12, BoundsAssumption DEF CommitFails, Requeue, TypeOK
  <2>2. TypeOK'
    BY <1>0, <1>11, <2>1 DEF TypeOK, Allocated, NothingStaged
  <2> QED  BY <1>0, <1>11, <2>1, <2>2 DEF DeliveryInd, HeadKnown, Counted, DisclosedAtMostOnce
<1>13. CASE CommitUnacknowledged
  <2>1. /\ Requeue /\ phase = "running" /\ UNCHANGED memory /\ stale' = TRUE
        /\ UNCHANGED <<store, phase, toReplay, highWater, watch, page>> /\ staged' = NothingStaged
        /\ faults' \in 0..MaxFaults /\ staged # NothingStaged /\ PersistDisclosure
    BY <1>0, <1>13, BoundsAssumption DEF CommitUnacknowledged, Requeue, TypeOK
  <2>2. Counted' /\ DisclosedAtMostOnce'
    BY <2>1, PersistKeeps
  <2>3. /\ cursors' \in [Mailboxes -> NoCursor..MaxRow] /\ lastWake' \in NoCursor..MaxRow
        /\ disclosed' \subseteq visible
    BY <2>1, PersistCounts
  <2>4. TypeOK'
    BY <1>0, <1>11, <2>1, <2>3 DEF TypeOK, Allocated, NothingStaged
  <2> QED  BY <1>0, <1>11, <2>1, <2>2, <2>4 DEF DeliveryInd, HeadKnown
<1>14. CASE Crash
  <2>1. TypeOK'
    <3>1. /\ UNCHANGED <<store, durable>> /\ faults' \in 0..MaxFaults
          /\ phase' = "down" /\ toReplay' = {} /\ highWater' = 0 /\ watch' = 0
          /\ page' = <<>> /\ queue' = <<>> /\ staged'.events = <<>> /\ stale' = FALSE
      BY <1>0, <1>14, BoundsAssumption DEF Crash, TypeOK, NothingStaged
    <3>2. memory' \in [cursors : [Mailboxes -> NoCursor..MaxRow], wake : NoCursor..MaxRow]
      BY <1>0, <1>14 DEF Crash, TypeOK
    <3>3. page' \in Seq(Rows) /\ queue' \in Seq(Event) /\ staged'.events \in Seq(Event)
      BY <3>1
    <3>4. highWater' \in 0..MaxRow /\ watch' \in 0..MaxRow /\ toReplay' \subseteq Mailboxes
      BY <3>1, BoundsAssumption
    <3> HIDE DEF NothingStaged
    <3> QED  BY <1>0, <3>1, <3>2, <3>3, <3>4 DEF TypeOK, Allocated
  <2>2. EventsSound'
    BY <1>0, <1>14 DEF Crash, EventsSound, EventSound, NothingStaged
  <2> QED  BY <1>0, <1>14, <2>1, <2>2 DEF Crash, DeliveryInd, StagedSound, DownIsEmpty, HeadKnown,
              Counted, DisclosedAtMostOnce
<1>15. CASE PollFails
  <2>1. TypeOK'
    BY <1>0, <1>15, BoundsAssumption DEF PollFails, TypeOK, Allocated
  <2>2. EventsSound'
    BY <1>0, <1>15 DEF PollFails, EventsSound, EventSound
  <2> QED  BY <1>0, <1>15, <2>1, <2>2 DEF PollFails, DeliveryInd, StagedSound, DownIsEmpty, HeadKnown,
              Counted, DisclosedAtMostOnce
<1> QED
  BY <1>1, <1>2, <1>3, <1>4, <1>5, <1>6, <1>7, <1>8, <1>9, <1>10, <1>12, <1>13, <1>14, <1>15
  DEF Next, Gateway, Publish, Startup, Watcher, Loop, Fault

(* The inductive invariant holds of every behaviour.                       *)
LEMMA DeliverySafe == Spec => []DeliveryInd
<1>1. Init => DeliveryInd
  BY DeliveryStart
<1>2. DeliveryInd /\ [Next]_vars => DeliveryInd'
  BY DeliveryStep
<1> QED  BY <1>1, <1>2, PTL DEF Spec

(* DeliveryInv: types, and no row is disclosed as a message twice, whatever *)
(* crashes, fails, is lost or becomes visible late.                        *)
THEOREM DeliveryOnce == Spec => []DeliveryInv
<1>1. DeliveryInd => DeliveryInv
  BY DEF DeliveryInd, DeliveryInv
<1> QED  BY <1>1, DeliverySafe, PTL

(* DisclosedInOrder: within a mailbox messages are disclosed in the order   *)
(* they were stored.                                                       *)
THEOREM DeliveryInOrder == Spec => DisclosedInOrder
<1> DEFINE Step == \A r \in Rows : times'[r] > times[r] =>
                      \A q \in Rows : times[q] > 0 /\ box[q] = box[r] => q < r
<1>1. DeliveryInd /\ [Next]_vars => [Step]_vars
  <2> SUFFICES ASSUME DeliveryInd, Next, NEW r \in Rows, times'[r] > times[r],
                      NEW q \in Rows, times[q] > 0, box[q] = box[r]
               PROVE  q < r
    OBVIOUS
  <2>1. times \in [Rows -> Nat] /\ q <= cursors[box[q]] /\ cursors \in [Mailboxes -> NoCursor..MaxRow]
    BY DEF DeliveryInd, Counted, TypeOK
  <2>2. times' # times
    BY <2>1
  <2>3. staged # NothingStaged /\ PersistDisclosure
    BY <2>2 DEF Next, Gateway, Publish, Startup, Watcher, Loop, Fault, StoreMessage, PublishMessage,
       Start, ReplaySource, StartWatcher, Poll, EnqueueRow, Drain, Crash, PollFails, CommitFails,
       CommitDisclosure, CommitUnacknowledged, durable
  <2>4. r \in visible /\ r > cursors[box[r]]
    <3>1. times'[r] # times[r]
      BY <2>1
    <3> QED  BY <2>3, <3>1, PersistCounts
  <2>5. cursors[box[r]] \in NoCursor..MaxRow
    BY <2>1, <2>4 DEF DeliveryInd, TypeOK, Allocated
  <2> QED  BY <2>1, <2>4, <2>5, BoundsAssumption DEF Rows, NoCursor
<1>2. [][Next]_vars /\ []DeliveryInd => [][Step]_vars
  BY <1>1, PTL
<1> QED  BY <1>2, DeliverySafe, PTL DEF Spec, DisclosedInOrder

-----------------------------------------------------------------------------
(* No message is passed over, when rows become visible in id order and a    *)
(* commit reports what it did.                                             *)

(* Row ids are taken, and become visible, in order.                        *)
InOrder ==
    /\ \A r \in visible : \A q \in Rows : q < r => q \in visible
    /\ \A r \in Allocated : \A q \in Rows : q < r => q \in Allocated

(* The events still to be disclosed, first to last.                        *)
Waiting == staged.events \o queue

(* The first event of its mailbox to reach a row past the cursor covers it: *)
(* so no event goes before one that tells of an earlier row.               *)
Covers(events, cur) ==
    \A i \in 1..Len(events) : \A r \in visible :
        /\ box[r] = events[i].box /\ r <= events[i].through /\ r > cur[box[r]]
        /\ \A j \in 1..(i - 1) : events[j].box = events[i].box => events[j].through < r
        => r \in events[i].rows

(* What the replay or the watcher has passed waits to be disclosed.         *)
Passed(r) ==
    \/ phase = "replaying" /\ r <= highWater /\ box[r] \notin toReplay
    \/ phase = "running" /\ r <= watch

Reaches(events, r) ==
    \E i \in 1..Len(events) : events[i].box = box[r] /\ events[i].through >= r

PassedWaits ==
    \A r \in visible : Passed(r) /\ r > cursors[box[r]] => Reaches(Waiting, r)

(* The page holds the next rows after the watcher's cursor.                 *)
PageNext ==
    /\ phase # "running" => page = <<>>
    /\ \A i \in 1..Len(page) : page[i] > watch
    /\ \A i, j \in 1..Len(page) : i < j => page[i] < page[j]
    /\ \A i \in 1..Len(page) : \A r \in visible :
          watch < r /\ r < page[i] => \E j \in 1..(i - 1) : page[j] = r

(* The marks and the cursors are at stored rows.                            *)
Marks ==
    /\ watch \in {0} \cup visible /\ highWater \in {0} \cup visible
    /\ \A m \in Mailboxes : cursors[m] \in {0} \cup visible

(* A source is replayed once, before the loop drains anything.              *)
ReplayOnce ==
    phase = "replaying" =>
        staged = NothingStaged /\ \A i \in 1..Len(queue) : queue[i].box \notin toReplay

CoverInv ==
    /\ ~stale /\ InOrder /\ Covers(Waiting, cursors) /\ PassedWaits /\ PageNext /\ Marks
    /\ ReplayOnce /\ CursorPassesOnlyDisclosed

(* Rows become visible in id order, commits report what they did, and every *)
(* mailbox has a cursor from the start.                                    *)
OrderlyStore == ~LateVisibility /\ ~CommitMayFail /\ ~AckMayBeLost /\ Fresh = {}

(* What waits is a sequence of sound events.                                *)
LEMMA WaitingSound ==
    ASSUME DeliveryInd
    PROVE  /\ Waiting \in Seq(Event) /\ Len(Waiting) = Len(staged.events) + Len(queue)
           /\ Len(staged.events) \in Nat /\ Len(queue) \in Nat
           /\ \A i \in 1..Len(staged.events) : Waiting[i] = staged.events[i]
           /\ \A i \in 1..Len(queue) : Waiting[Len(staged.events) + i] = queue[i]
           /\ \A i \in 1..Len(Waiting) : EventSound(Waiting[i]) /\ Waiting[i].through \in visible
<1>1. /\ queue \in Seq(Event) /\ staged.events \in Seq(Event)
      /\ \A i \in 1..Len(queue) : EventSound(queue[i])
      /\ \A i \in 1..Len(staged.events) : EventSound(staged.events[i])
  BY DEF DeliveryInd, TypeOK, EventsSound
<1>2. Len(staged.events) \in Nat /\ Len(queue) \in Nat
  BY <1>1
<1>3. /\ Waiting \in Seq(Event) /\ Len(Waiting) = Len(staged.events) + Len(queue)
      /\ \A i \in 1..Len(Waiting) : Waiting[i] = IF i <= Len(staged.events) THEN staged.events[i]
                                                 ELSE queue[i - Len(staged.events)]
  BY <1>1, ConcatProperties DEF Waiting
<1>4. ASSUME NEW i \in 1..Len(Waiting) PROVE EventSound(Waiting[i])
  <2>1. CASE i <= Len(staged.events)
    BY <1>1, <1>2, <1>3, <2>1
  <2>2. CASE ~(i <= Len(staged.events))
    <3>1. i - Len(staged.events) \in 1..Len(queue) /\ Waiting[i] = queue[i - Len(staged.events)]
      BY <1>2, <1>3, <2>2
    <3> QED  BY <1>1, <3>1
  <2> QED  BY <2>1, <2>2
<1>5. ASSUME NEW i \in 1..Len(queue) PROVE Waiting[Len(staged.events) + i] = queue[i]
  <2> DEFINE k == Len(staged.events) + i
  <2>1. k \in 1..Len(Waiting) /\ ~(k <= Len(staged.events)) /\ k - Len(staged.events) = i
    BY <1>2, <1>3
  <2>2. Waiting[k] = queue[k - Len(staged.events)]
    <3> HIDE DEF k
    <3> QED  BY <1>3, <2>1
  <2> QED  BY <2>1, <2>2
<1>6. \A i \in 1..Len(staged.events) : Waiting[i] = staged.events[i]
  BY <1>2, <1>3
<1> QED  BY <1>1, <1>2, <1>3, <1>4, <1>5, <1>6 DEF EventSound

(* When nothing is staged the queue is all that waits.                      *)
LEMMA QueueWaits ==
    ASSUME queue \in Seq(Event), staged = NothingStaged
    PROVE  Waiting = queue
BY ConcatEmptySeq DEF Waiting, NothingStaged

(* What is appended to the queue is appended to what waits.                 *)
LEMMA ConcatAppend ==
    ASSUME NEW s \in Seq(Event), NEW t \in Seq(Event), NEW e \in Event
    PROVE  s \o Append(t, e) = Append(s \o t, e)
<1>1. <<e>> \in Seq(Event)
  OBVIOUS
<1>2. s \o (t \o <<e>>) = (s \o t) \o <<e>>
  BY <1>1, ConcatAssociative
<1>3. s \o t \in Seq(Event)
  BY ConcatProperties
<1>4. Append(s \o t, e) = (s \o t) \o <<e>>
  BY <1>3, AppendIsConcat
<1>5. Append(t, e) = t \o <<e>>
  BY AppendIsConcat
<1> QED  BY <1>2, <1>4, <1>5

(* One more row of its mailbox, and nothing between it and what has been    *)
(* told, keeps the cover.                                                  *)
LEMMA CoverOneMore ==
    ASSUME NEW events \in Seq(Event), NEW cur, NEW e \in Event, Covers(events, cur),
           \A r \in visible :
              /\ box[r] = e.box /\ r <= e.through /\ r > cur[box[r]]
              /\ \A j \in 1..Len(events) : events[j].box = e.box => events[j].through < r
              => r \in e.rows
    PROVE  Covers(Append(events, e), cur)
<1> DEFINE A == Append(events, e)
<1>1. Len(A) = Len(events) + 1 /\ Len(events) \in Nat /\ A[Len(events) + 1] = e
      /\ \A i \in 1..Len(events) : A[i] = events[i]
  OBVIOUS
<1> HIDE DEF A
<1>2. SUFFICES ASSUME NEW i \in 1..Len(A), NEW r \in visible,
                      box[r] = A[i].box, r <= A[i].through, r > cur[box[r]],
                      \A j \in 1..(i - 1) : A[j].box = A[i].box => A[j].through < r
               PROVE  r \in A[i].rows
  BY DEF Covers, A
<1>3. CASE i \in 1..Len(events)
  <2>1. \A j \in 1..(i - 1) : events[j].box = events[i].box => events[j].through < r
    BY <1>1, <1>2, <1>3
  <2> QED  BY <1>1, <1>2, <1>3, <2>1 DEF Covers
<1>4. CASE i = Len(events) + 1
  <2>1. \A j \in 1..Len(events) : events[j].box = e.box => events[j].through < r
    BY <1>1, <1>2, <1>4
  <2> QED  BY <1>1, <1>2, <1>4, <2>1
<1> QED  BY <1>1, <1>3, <1>4

(* The rows of a mailbox past its cursor, told one by one in order, keep    *)
(* the cover.                                                              *)
LEMMA CoverReplay ==
    ASSUME NEW events \in Seq(Event), NEW told \in Seq(Event), NEW cur, Covers(events, cur),
           \A i, j \in 1..Len(told) : told[i].box = told[j].box,
           \A i \in 1..Len(told) : told[i].rows = {told[i].through},
           \A i, j \in 1..Len(told) : i < j => told[i].through < told[j].through,
           \A i \in 1..Len(told) : told[i].through \in Rows,
           visible \subseteq Rows,
           \A i \in 1..Len(told) : \A r \in visible : box[r] = told[i].box /\ r > cur[box[r]] =>
               \E k \in 1..Len(told) : told[k].through = r
    PROVE  Covers(events \o told, cur)
<1> DEFINE A == events \o told
           n == Len(events)
<1>1. /\ Len(A) = n + Len(told) /\ n \in Nat /\ Len(told) \in Nat
      /\ \A i \in 1..Len(A) : A[i] = IF i <= n THEN events[i] ELSE told[i - n]
  BY ConcatProperties
<1> HIDE DEF A, n
<1>2. SUFFICES ASSUME NEW i \in 1..Len(A), NEW r \in visible,
                      box[r] = A[i].box, r <= A[i].through, r > cur[box[r]],
                      \A j \in 1..(i - 1) : A[j].box = A[i].box => A[j].through < r
               PROVE  r \in A[i].rows
  BY DEF Covers, A
<1>3. CASE i <= n
  <2>1. A[i] = events[i] /\ i \in 1..Len(events)
    BY <1>1, <1>3 DEF n
  <2>2. \A j \in 1..(i - 1) : A[j] = events[j]
    BY <1>1, <1>3
  <2> QED  BY <1>2, <2>1, <2>2 DEF Covers
<1>4. CASE ~(i <= n)
  <2>1. i - n \in 1..Len(told) /\ A[i] = told[i - n]
    BY <1>1, <1>4
  <2>2. PICK k \in 1..Len(told) : told[k].through = r
    BY <1>2, <2>1
  <2>3. k <= i - n
    BY <1>2, <2>1, <2>2 DEF Rows
  <2>4. ~(k < i - n)
    <3>1. SUFFICES ASSUME k < i - n PROVE FALSE
      OBVIOUS
    <3>2. n + k \in 1..(i - 1) /\ n + k \in 1..Len(A) /\ ~(n + k <= n) /\ (n + k) - n = k
      BY <1>1, <2>1, <3>1
    <3>3. A[n + k] = told[k]
      BY <1>1, <3>2
    <3>4. told[k].through < r
      BY <1>2, <2>1, <3>2, <3>3
    <3> QED  BY <2>2, <3>4 DEF Rows
  <2>5. k = i - n
    BY <1>1, <2>1, <2>3, <2>4
  <2> QED  BY <2>1, <2>2, <2>5
<1> QED  BY <1>3, <1>4

(* An insert that commits is past every row told of so far.                 *)
LEMMA CoverPublish ==
    ASSUME DeliveryInd, CoverInv, OrderlyStore, NEW r \in Rows, PublishMessage(r)
    PROVE  CoverInv'
<1> USE DEF durable, process
<1>1. /\ r \in Allocated /\ r \notin visible /\ visible' = visible \cup {r}
      /\ \A q \in Allocated : q < r => q \in visible
      /\ UNCHANGED <<box, durable, process, faults>>
  BY DEF PublishMessage, OrderlyStore
<1>2. visible \subseteq Rows /\ r \in Rows /\ box[r] \in Mailboxes
  BY <1>1 DEF DeliveryInd, TypeOK, Allocated
<1>3. InOrder /\ Marks /\ PassedWaits /\ PageNext /\ ReplayOnce /\ Covers(Waiting, cursors)
      /\ CursorPassesOnlyDisclosed /\ ~stale
  BY DEF CoverInv
<1>4. \A q \in visible : q < r
  <2>1. ASSUME NEW q \in visible, ~(q < r) PROVE FALSE
    <3>1. r < q \/ r = q
      BY <1>2, <2>1 DEF Rows
    <3> QED  BY <1>1, <1>2, <1>3, <2>1, <3>1 DEF InOrder
  <2> QED  BY <2>1
<1>5. \A q \in visible \cup {0} : ~(r <= q) /\ ~(r < q)
  BY <1>2, <1>4 DEF Rows
<1>6. InOrder'
  BY <1>1, <1>2, <1>3 DEF InOrder, Allocated
<1>7. Waiting' = Waiting
  BY <1>1 DEF Waiting
<1>8. Covers(Waiting, cursors)'
  <2>1. \A i \in 1..Len(Waiting) : ~(r <= Waiting[i].through)
    BY <1>5, WaitingSound
  <2> QED  BY <1>1, <1>3, <1>7, <2>1 DEF Covers
<1>9. PassedWaits'
  <2>1. ~(r <= watch) /\ ~(r <= highWater)
    BY <1>2, <1>3, <1>4 DEF Marks, Rows
  <2> QED  BY <1>1, <1>3, <1>7, <2>1 DEF PassedWaits, Passed, Reaches
<1>10. PageNext'
  <2>1. \A i \in 1..Len(page) : page[i] \in visible
    BY DEF DeliveryInd, EventsSound
  <2>2. \A i \in 1..Len(page) : ~(r < page[i])
    BY <1>5, <2>1
  <2> QED  BY <1>1, <1>3, <2>2 DEF PageNext
<1>11. CursorPassesOnlyDisclosed'
  <2>1. ~(r <= cursors[box[r]])
    <3>1. cursors[box[r]] = 0 \/ cursors[box[r]] \in visible
      BY <1>2, <1>3 DEF Marks
    <3> QED  BY <1>5, <3>1
  <2> QED  BY <1>1, <1>3, <2>1 DEF CursorPassesOnlyDisclosed
<1>12. Marks' /\ ReplayOnce' /\ ~stale'
  BY <1>1, <1>3 DEF Marks, ReplayOnce
<1> QED  BY <1>6, <1>8, <1>9, <1>10, <1>11, <1>12 DEF CoverInv

(* A source's replay tells of every row past its cursor.                    *)
LEMMA CoverReplaySource ==
    ASSUME DeliveryInd, CoverInv, NEW m \in Mailboxes, ReplaySource(m)
    PROVE  CoverInv'
<1> USE DEF store, durable
<1>1. /\ phase = "replaying" /\ m \in toReplay /\ toReplay' = toReplay \ {m}
      /\ UNCHANGED <<store, durable, phase, highWater, watch, page, memory, staged, stale, faults>>
  BY DEF ReplaySource
<1>2. InOrder /\ Marks /\ PassedWaits /\ PageNext /\ ReplayOnce /\ Covers(Waiting, cursors)
      /\ CursorPassesOnlyDisclosed /\ ~stale
  BY DEF CoverInv
<1>3. staged = NothingStaged /\ queue \in Seq(Event) /\ visible \subseteq Rows
      /\ \A i \in 1..Len(queue) : queue[i].box \notin toReplay
  BY <1>1, <1>2 DEF ReplayOnce, DeliveryInd, TypeOK, Allocated
<1>4. Missed(m) = {r \in visible : box[r] = m /\ r > cursors[m]}
  <2>1. memory.cursors = cursors
    BY <1>2 DEF DeliveryInd, HeadKnown
  <2>2. cursors[m] # NoCursor
    BY <1>2, <1>3 DEF Marks, NoCursor, Rows
  <2> QED  BY <2>1, <2>2 DEF Missed
<1> DEFINE S == Missed(m)
<1>5. S \subseteq visible /\ S \subseteq Rows /\ \A r \in S : box[r] = m
  BY <1>3, <1>4
<1>6. \E told \in Seq(Event) :
         /\ queue' = queue \o told /\ Covers(queue \o told, cursors)
         /\ \A i \in 1..Len(told) : told[i].box = m
         /\ \A r \in S : \E i \in 1..Len(told) : told[i].through >= r
  <2>1. Covers(queue, cursors)
    BY <1>2, <1>3, QueueWaits
  <2>2. CASE Cardinality(S) > BacklogThreshold
    <3> DEFINE e == BacklogEvent(m, S)
    <3>1. S # {}
      BY <2>2, <1>5, RowsCount, BoundsAssumption
    <3>2. EventSound(e) /\ e.box = m /\ e.rows = S
      BY <1>5, <3>1, BacklogIsSound DEF DeliveryInd
    <3>3. e \in Event /\ \A r \in S : e.through >= r
      <4>1. e \in Event /\ e.through \in S /\ \A r \in S : r <= e.through
        BY <3>2 DEF EventSound
      <4> QED  BY <1>5, <4>1 DEF Rows
    <3>4. queue' = Append(queue, e)
      BY <2>2 DEF ReplaySource
    <3> HIDE DEF e, S
    <3>5. queue' = queue \o <<e>> /\ queue \o <<e>> = Append(queue, e)
      BY <1>3, <3>3, <3>4, AppendIsConcat
    <3>6. Covers(queue \o <<e>>, cursors)
      <4>1. \A r \in visible : box[r] = e.box /\ r > cursors[box[r]] => r \in e.rows
        BY <1>4, <3>2 DEF S
      <4> QED  BY <1>3, <2>1, <3>3, <3>5, <4>1, CoverOneMore
    <3>7. <<e>> \in Seq(Event) /\ Len(<<e>>) = 1 /\ <<e>>[1] = e
      BY <3>3
    <3>8. \A i \in 1..Len(<<e>>) : <<e>>[i] = e
      BY <3>7
    <3>9. /\ queue' = queue \o <<e>> /\ Covers(queue \o <<e>>, cursors)
          /\ \A i \in 1..Len(<<e>>) : <<e>>[i].box = m
          /\ \A r \in S : \E i \in 1..Len(<<e>>) : <<e>>[i].through >= r
      <4>1. 1 \in 1..Len(<<e>>)
        BY <3>7
      <4> QED  BY <3>2, <3>3, <3>5, <3>6, <3>8, <4>1, Zenon
    <3> QED  BY <3>7, <3>9, Zenon
  <2>3. CASE ~(Cardinality(S) > BacklogThreshold)
    <3>1. PICK s \in Listings(S) :
            queue' = queue \o [i \in 1..Cardinality(S) |-> MessageEvent(s[i])]
      BY <2>3 DEF ReplaySource
    <3> DEFINE told == [i \in 1..Cardinality(S) |-> MessageEvent(s[i])]
    <3>2. /\ told \in Seq(Event) /\ Len(told) = Len(s)
          /\ \A i \in 1..Len(told) : told[i] = MessageEvent(s[i]) /\ s[i] \in S
      BY ReplayIsSound DEF DeliveryInd
    <3>3. /\ \A i, j \in 1..Len(s) : i < j => s[i] < s[j]
          /\ \A r \in S : \E i \in 1..Len(s) : s[i] = r
      BY <1>5, <3>1, Listed
    <3>4. queue' = queue \o told
      BY <3>1
    <3>5. \A i \in 1..Len(told) : /\ told[i].box = m /\ told[i].through = s[i]
                                  /\ told[i].rows = {s[i]} /\ s[i] \in Rows
      <4>1. ASSUME NEW i \in 1..Len(told) PROVE told[i] = MessageEvent(s[i]) /\ s[i] \in S
        BY <3>2
      <4> HIDE DEF told, S
      <4>2. \A r \in S : /\ MessageEvent(r).box = m /\ MessageEvent(r).through = r
                         /\ MessageEvent(r).rows = {r} /\ r \in Rows
        BY <1>5 DEF MessageEvent
      <4> QED  BY <4>1, <4>2
    <3> HIDE DEF told, S
    <3>6. ASSUME NEW r \in S
          PROVE  \E i \in 1..Len(told) : told[i].through = r /\ told[i].through >= r
      <4>1. PICK i \in 1..Len(s) : s[i] = r
        BY <3>3
      <4>2. i \in 1..Len(told) /\ told[i].through = r /\ r \in Rows
        BY <1>5, <3>2, <3>5, <4>1
      <4>3. r >= r
        BY <4>2 DEF Rows
      <4> QED  BY <4>2, <4>3
    <3>7. \A i, j \in 1..Len(told) : i < j => told[i].through < told[j].through
      BY <3>2, <3>3, <3>5
    <3>8. \A i \in 1..Len(told) : \A r \in visible : box[r] = told[i].box /\ r > cursors[box[r]] =>
             \E k \in 1..Len(told) : told[k].through = r
      BY <1>4, <3>5, <3>6 DEF S
    <3>9. Covers(queue \o told, cursors)
      <4>1. /\ \A i, j \in 1..Len(told) : told[i].box = told[j].box
            /\ \A i \in 1..Len(told) : told[i].rows = {told[i].through}
            /\ \A i \in 1..Len(told) : told[i].through \in Rows
        BY <3>5
      <4>2. queue \in Seq(Event) /\ told \in Seq(Event) /\ visible \subseteq Rows
        BY <1>3, <3>2
      <4> QED  BY <2>1, <3>7, <3>8, <4>1, <4>2, CoverReplay
    <3> QED  BY <3>2, <3>4, <3>5, <3>6, <3>9
  <2> QED  BY <2>2, <2>3
<1>7. PICK told \in Seq(Event) :
         /\ queue' = queue \o told /\ Covers(queue \o told, cursors)
         /\ \A i \in 1..Len(told) : told[i].box = m
         /\ \A r \in S : \E i \in 1..Len(told) : told[i].through >= r
  BY <1>6
<1> HIDE DEF S
<1>8. /\ queue' \in Seq(Event) /\ Len(queue') = Len(queue) + Len(told)
      /\ Len(queue) \in Nat /\ Len(told) \in Nat
      /\ \A i \in 1..Len(queue') : queue'[i] = IF i <= Len(queue) THEN queue[i] ELSE told[i - Len(queue)]
  BY <1>3, <1>7, ConcatProperties
<1>9. Waiting' = queue' /\ Waiting = queue
  <2>1. Waiting = queue
    BY <1>3, QueueWaits
  <2>2. Waiting' = <<>> \o queue'
    BY <1>1, <1>3 DEF Waiting, NothingStaged
  <2> QED  BY <1>8, <2>1, <2>2, ConcatEmptySeq
<1>10. Covers(Waiting, cursors)'
  BY <1>1, <1>7, <1>9 DEF Covers
<1>11. \A i \in 1..Len(told) : Len(queue) + i \in 1..Len(queue') /\ queue'[Len(queue) + i] = told[i]
  <2> SUFFICES ASSUME NEW i \in 1..Len(told)
               PROVE  Len(queue) + i \in 1..Len(queue') /\ queue'[Len(queue) + i] = told[i]
    OBVIOUS
  <2> DEFINE k == Len(queue) + i
  <2>1. k \in 1..Len(queue') /\ ~(k <= Len(queue)) /\ k - Len(queue) = i
    BY <1>8
  <2>2. queue'[k] = told[k - Len(queue)]
    <3> HIDE DEF k
    <3> QED  BY <1>8, <2>1
  <2> QED  BY <2>1, <2>2
<1>12. PassedWaits'
  <2>1. SUFFICES ASSUME NEW r \in visible, Passed(r)', r > cursors[box[r]]
                 PROVE  Reaches(queue', r)
    BY <1>1, <1>9 DEF PassedWaits, Reaches
  <2>2. CASE box[r] = m
    <3>1. PICK i \in 1..Len(told) : told[i].through >= r
      BY <1>4, <1>7, <2>1, <2>2 DEF S
    <3> QED  BY <1>7, <1>11, <2>2, <3>1 DEF Reaches
  <2>3. CASE box[r] # m
    <3>1. Passed(r)
      BY <1>1, <2>1, <2>3 DEF Passed
    <3>2. PICK i \in 1..Len(queue) : queue[i].box = box[r] /\ queue[i].through >= r
      BY <1>2, <1>9, <2>1, <3>1 DEF PassedWaits, Reaches
    <3>3. i \in 1..Len(queue') /\ queue'[i] = queue[i]
      BY <1>8, <3>2
    <3> QED  BY <3>2, <3>3 DEF Reaches
  <2> QED  BY <2>2, <2>3
<1>13. ReplayOnce'
  <2>1. ASSUME NEW i \in 1..Len(queue') PROVE queue'[i].box \notin toReplay'
    <3>1. CASE i <= Len(queue)
      <4>1. queue'[i] = queue[i] /\ i \in 1..Len(queue)
        BY <1>8, <3>1
      <4> QED  BY <1>1, <1>3, <4>1
    <3>2. CASE ~(i <= Len(queue))
      <4>1. queue'[i] = told[i - Len(queue)] /\ i - Len(queue) \in 1..Len(told)
        BY <1>8, <3>2
      <4> QED  BY <1>1, <1>7, <4>1
    <3> QED  BY <3>1, <3>2
  <2> QED  BY <1>1, <1>3, <2>1 DEF ReplayOnce
<1>14. InOrder' /\ Marks' /\ PageNext' /\ CursorPassesOnlyDisclosed' /\ ~stale'
  BY <1>1, <1>2 DEF InOrder, Marks, PageNext, CursorPassesOnlyDisclosed, Allocated
<1> QED  BY <1>10, <1>12, <1>13, <1>14 DEF CoverInv

(* A poll reads the next rows, without a gap.                               *)
LEMMA CoverPoll ==
    ASSUME DeliveryInd, CoverInv, Poll
    PROVE  CoverInv'
<1> USE DEF store, durable
<1> DEFINE S == {r \in visible : r > watch}
<1>1. UNCHANGED <<store, durable, phase, toReplay, highWater, watch, queue, memory, staged, stale,
                  faults>> /\ phase = "running"
  BY DEF Poll
<1>2. PICK a \in Listings(S) :
        page' = SubSeq(a, 1, IF Len(a) < PageSize THEN Len(a) ELSE PageSize)
  BY DEF Poll
<1>3. S \subseteq Rows
  BY DEF DeliveryInd, TypeOK, Allocated
<1> DEFINE n == IF Len(a) < PageSize THEN Len(a) ELSE PageSize
<1>4. /\ \A i \in 1..Len(a) : a[i] \in S
      /\ \A i, j \in 1..Len(a) : i < j => a[i] < a[j]
      /\ \A r \in S : \E i \in 1..Len(a) : a[i] = r
      /\ a \in Seq(S) /\ Len(a) \in Nat
  <2> HIDE DEF S
  <2> QED  BY <1>2, <1>3, Listed
<1>5. n \in Nat /\ n <= Len(a)
  BY <1>4, BoundsAssumption
<1>6. Len(page') = n /\ \A i \in 1..n : page'[i] = a[i] /\ i \in 1..Len(a)
  <2>1. page' = SubSeq(a, 1, n)
    BY <1>2
  <2> HIDE DEF S, n
  <2>2. \A i \in 1..n : a[i] \in S
    BY <1>4, <1>5
  <2> QED  BY <1>4, <1>5, <2>1, <2>2, SubSeqProperties
<1> HIDE DEF n
<1>7. \A i \in 1..Len(page') : page'[i] > watch
  BY <1>4, <1>6
<1>8. \A i, j \in 1..Len(page') : i < j => page'[i] < page'[j]
  BY <1>4, <1>6
<1>9. ASSUME NEW i \in 1..Len(page'), NEW r \in visible, watch < r, r < page'[i]
      PROVE  \E j \in 1..(i - 1) : page'[j] = r
  <2>1. r \in S
    BY <1>9
  <2>2. PICK j \in 1..Len(a) : a[j] = r
    BY <1>4, <2>1
  <2>3. a[i] = page'[i] /\ i \in 1..Len(a) /\ a[i] \in Rows /\ r \in Rows
    BY <1>3, <1>4, <1>6, <1>9, <2>1
  <2>4. j < i
    BY <1>4, <1>9, <2>2, <2>3 DEF Rows
  <2>5. j \in 1..n /\ j \in 1..(i - 1)
    BY <1>5, <1>6, <1>9, <2>4
  <2> QED  BY <1>6, <2>2, <2>5
<1>10. PageNext'
  BY <1>1, <1>7, <1>8, <1>9 DEF PageNext
<1>11. Waiting' = Waiting
  BY <1>1 DEF Waiting
<1> QED  BY <1>1, <1>10, <1>11 DEF CoverInv, InOrder, Allocated, Covers, PassedWaits, Passed, Reaches,
            Marks, ReplayOnce, CursorPassesOnlyDisclosed

(* The row the watcher enqueues is the next after those it has passed.      *)
LEMMA CoverEnqueue ==
    ASSUME DeliveryInd, CoverInv, EnqueueRow
    PROVE  CoverInv'
<1> USE DEF store, durable
<1> DEFINE h == Head(page)
<1>1. /\ UNCHANGED <<store, durable, phase, toReplay, highWater, memory, staged, stale, faults>>
      /\ phase = "running" /\ page # <<>> /\ watch' = h /\ page' = Tail(page)
      /\ queue' = Append(queue, MessageEvent(h))
  BY DEF EnqueueRow
<1>2. InOrder /\ Marks /\ PassedWaits /\ PageNext /\ ReplayOnce /\ Covers(Waiting, cursors)
      /\ CursorPassesOnlyDisclosed /\ ~stale
  BY DEF CoverInv
<1>3. /\ page \in Seq(Rows) /\ queue \in Seq(Event) /\ staged.events \in Seq(Event)
      /\ visible \subseteq Rows /\ watch \in 0..MaxRow /\ \A i \in 1..Len(page) : page[i] \in visible
  BY DEF DeliveryInd, TypeOK, EventsSound, Allocated
<1>4. /\ Len(page) \in Nat /\ Len(page) >= 1 /\ h = page[1] /\ h \in visible /\ h \in Rows
      /\ Len(page') = Len(page) - 1
      /\ \A i \in 1..Len(page') : page'[i] = page[i + 1] /\ i + 1 \in 1..Len(page)
  BY <1>1, <1>3
<1> HIDE DEF h
<1> DEFINE e == MessageEvent(h)
<1>5. e \in Event /\ e.box = box[h] /\ e.through = h /\ e.rows = {h}
  BY <1>4, MessageIsSound DEF DeliveryInd, EventSound
<1>6. ASSUME NEW r \in visible, r < h PROVE r <= watch
  <2>1. ~(watch < r)
    <3>1. 1 \in 1..Len(page) /\ ~\E j \in 1..(1 - 1) : page[j] = r
      BY <1>4
    <3> QED  BY <1>2, <1>4, <1>6, <3>1 DEF PageNext
  <2>2. r \in Rows
    BY <1>3
  <2> QED  BY <1>3, <2>1, <2>2, BoundsAssumption DEF Rows
<1> HIDE DEF e
<1>7. Waiting' = Append(Waiting, e) /\ Waiting \in Seq(Event)
  <2>1. Waiting' = staged.events \o Append(queue, e)
    BY <1>1 DEF Waiting, e
  <2>2. staged.events \o Append(queue, e) = Append(staged.events \o queue, e)
    BY <1>3, <1>5, ConcatAppend
  <2> QED  BY <2>1, <2>2, WaitingSound DEF Waiting
<1>8. Covers(Waiting', cursors)
  <2>1. ASSUME NEW r \in visible, box[r] = e.box, r <= e.through, r > cursors[box[r]],
               \A j \in 1..Len(Waiting) : Waiting[j].box = e.box => Waiting[j].through < r
        PROVE  r \in e.rows
    <3>1. ~(r < h)
      <4>1. SUFFICES ASSUME r < h PROVE FALSE
        OBVIOUS
      <4>2. Passed(r)
        BY <1>1, <1>6, <4>1 DEF Passed
      <4>3. PICK i \in 1..Len(Waiting) : Waiting[i].box = box[r] /\ Waiting[i].through >= r
        BY <1>2, <2>1, <4>2 DEF PassedWaits, Reaches
      <4>4. Waiting[i].through \in Rows /\ r \in Rows
        BY <1>3, WaitingSound
      <4> QED  BY <2>1, <4>3, <4>4 DEF Rows
    <3>2. r \in Rows
      BY <1>3
    <3> QED  BY <1>4, <1>5, <2>1, <3>1, <3>2 DEF Rows
  <2>2. \A r \in visible :
          /\ box[r] = e.box /\ r <= e.through /\ r > cursors[box[r]]
          /\ \A j \in 1..Len(Waiting) : Waiting[j].box = e.box => Waiting[j].through < r
          => r \in e.rows
    BY <2>1
  <2> QED  BY <1>2, <1>5, <1>7, <2>2, CoverOneMore
<1>9. Covers(Waiting, cursors)'
  BY <1>1, <1>8 DEF Covers
<1>10. PassedWaits'
  <2>1. SUFFICES ASSUME NEW r \in visible, r <= h, r > cursors[box[r]]
                 PROVE  Reaches(Waiting', r)
    BY <1>1 DEF PassedWaits, Passed, Reaches
  <2>2. /\ Len(Waiting') = Len(Waiting) + 1 /\ Len(Waiting) \in Nat /\ Waiting'[Len(Waiting) + 1] = e
        /\ \A i \in 1..Len(Waiting) : Waiting'[i] = Waiting[i]
    BY <1>5, <1>7
  <2>3. CASE r = h
    <3>1. h >= h
      BY <1>4 DEF Rows
    <3> QED  BY <1>5, <2>2, <2>3, <3>1 DEF Reaches
  <2>4. CASE r < h
    <3>1. Passed(r)
      BY <1>1, <1>6, <2>4 DEF Passed
    <3>2. PICK i \in 1..Len(Waiting) : Waiting[i].box = box[r] /\ Waiting[i].through >= r
      BY <1>2, <2>1, <3>1 DEF PassedWaits, Reaches
    <3> QED  BY <2>2, <3>2 DEF Reaches
  <2>5. r \in Rows
    BY <1>3
  <2> QED  BY <1>4, <2>1, <2>3, <2>4, <2>5 DEF Rows
<1>11. PageNext'
  <2>1. \A i \in 1..Len(page') : page'[i] > h
    <3>1. \A i \in 1..Len(page') : 1 \in 1..Len(page) /\ i + 1 \in 1..Len(page) /\ 1 < i + 1
      BY <1>4
    <3> QED  BY <1>2, <1>3, <1>4, <3>1 DEF PageNext, Rows
  <2>2. \A i, j \in 1..Len(page') : i < j => page'[i] < page'[j]
    <3> SUFFICES ASSUME NEW i \in 1..Len(page'), NEW j \in 1..Len(page'), i < j
                 PROVE  page'[i] < page'[j]
      OBVIOUS
    <3>1. i + 1 \in 1..Len(page) /\ j + 1 \in 1..Len(page) /\ i + 1 < j + 1
      BY <1>4
    <3>2. page[i + 1] < page[j + 1]
      BY <1>2, <3>1 DEF PageNext
    <3>3. page'[i] = page[i + 1] /\ page'[j] = page[j + 1]
      BY <1>4
    <3> QED  BY <3>2, <3>3
  <2>3. ASSUME NEW i \in 1..Len(page'), NEW r \in visible, h < r, r < page'[i]
        PROVE  \E j \in 1..(i - 1) : page'[j] = r
    <3>1. watch < r
      <4>1. watch < h /\ r \in Rows
        BY <1>2, <1>3, <1>4 DEF PageNext, Rows
      <4> QED  BY <1>3, <1>4, <2>3, <4>1 DEF Rows
    <3>2. PICK j \in 1..((i + 1) - 1) : page[j] = r
      BY <1>2, <1>4, <2>3, <3>1 DEF PageNext
    <3>3. j # 1
      BY <1>4, <2>3, <3>2 DEF Rows
    <3>4. j - 1 \in 1..(i - 1) /\ j - 1 \in 1..Len(page') /\ (j - 1) + 1 = j
      BY <1>4, <3>2, <3>3
    <3>5. page'[j - 1] = page[j]
      BY <1>4, <3>4
    <3> QED  BY <3>2, <3>4, <3>5
  <2> QED  BY <1>1, <2>1, <2>2, <2>3 DEF PageNext
<1>12. Marks'
  BY <1>1, <1>2, <1>4 DEF Marks
<1>13. InOrder' /\ ReplayOnce' /\ CursorPassesOnlyDisclosed' /\ ~stale'
  BY <1>1, <1>2 DEF InOrder, Allocated, ReplayOnce, CursorPassesOnlyDisclosed
<1> QED  BY <1>9, <1>10, <1>11, <1>12, <1>13 DEF CoverInv

(* A drain stages what waits, or drops events that reach no row past the    *)
(* cursor of their mailbox.                                                *)
LEMMA CoverDrain ==
    ASSUME DeliveryInd, CoverInv, Drain
    PROVE  CoverInv'
<1> USE DEF store, durable
<1>1. /\ UNCHANGED <<store, durable, phase, toReplay, highWater, watch, page, memory, stale, faults>>
      /\ phase = "running" /\ queue' = <<>> /\ staged = NothingStaged
  BY DEF Drain
<1>2. InOrder /\ Marks /\ PassedWaits /\ PageNext /\ ReplayOnce /\ Covers(Waiting, cursors)
      /\ CursorPassesOnlyDisclosed /\ ~stale
  BY DEF CoverInv
<1>3. queue \in Seq(Event) /\ visible \subseteq Rows /\ memory.cursors = cursors
      /\ cursors \in [Mailboxes -> NoCursor..MaxRow] /\ \A r \in visible : box[r] \in Mailboxes
  BY <1>2 DEF DeliveryInd, TypeOK, HeadKnown, Allocated
<1>4. Waiting = queue
  BY <1>1, <1>3, QueueWaits
<1>5. Covers(Waiting, cursors)' /\ PassedWaits'
  <2>1. CASE FreshEvents(queue, cursors) = {}
    <3>1. staged' = NothingStaged
      BY <1>3, <2>1 DEF Drain
    <3>2. Waiting' = <<>> \o <<>>
      BY <1>1, <3>1 DEF Waiting, NothingStaged
    <3>3. Waiting' = <<>>
      BY <3>2
    <3>4. Covers(Waiting, cursors)'
      BY <3>3 DEF Covers
    <3>5. ASSUME NEW r \in visible, Passed(r), r > cursors[box[r]] PROVE FALSE
      <4>1. \E i \in 1..Len(queue) : queue[i].box = box[r] /\ queue[i].through >= r
        BY <1>2, <1>4, <3>5 DEF PassedWaits, Reaches
      <4>2. \E i \in FreshEvents(queue, cursors) : TRUE
        BY <1>3, <3>5, <4>1, FirstIsFresh
      <4> QED  BY <2>1, <4>2
    <3>6. \A r \in visible : Passed(r)' <=> Passed(r)
      BY <1>1 DEF Passed
    <3> QED  BY <1>1, <3>4, <3>5, <3>6 DEF PassedWaits
  <2>2. CASE FreshEvents(queue, cursors) # {}
    <3>1. staged'.events = queue
      BY <1>3, <2>2 DEF Drain
    <3>2. Waiting' = queue \o <<>>
      BY <1>1, <3>1 DEF Waiting
    <3>3. Waiting' = Waiting
      BY <1>3, <1>4, <3>2, ConcatEmptySeq
    <3> QED  BY <1>1, <1>2, <3>3 DEF Covers, PassedWaits, Passed, Reaches
  <2> QED  BY <2>1, <2>2
<1> QED  BY <1>1, <1>2, <1>5 DEF CoverInv, InOrder, Allocated, PageNext, Marks, ReplayOnce,
            CursorPassesOnlyDisclosed

(* A commit passes what it discloses and nothing else.                      *)
LEMMA CoverCommit ==
    ASSUME DeliveryInd, CoverInv, CommitDisclosure
    PROVE  CoverInv'
<1> USE DEF store
<1> DEFINE E == staged.events
           k == Len(E)
<1>1. /\ UNCHANGED <<store, phase, toReplay, highWater, watch, page, queue, stale, faults>>
      /\ phase = "running" /\ staged # NothingStaged /\ PersistDisclosure
      /\ staged' = NothingStaged
  BY DEF CommitDisclosure
<1>2. InOrder /\ Marks /\ PassedWaits /\ PageNext /\ ReplayOnce /\ Covers(Waiting, cursors)
      /\ CursorPassesOnlyDisclosed /\ ~stale
  BY DEF CoverInv
<1>3. /\ staged.fresh = {E[i] : i \in FreshEvents(E, cursors)}
      /\ cursors' = PlannedCursors(E, cursors)
      /\ E \in Seq(Event) /\ cursors \in [Mailboxes -> NoCursor..MaxRow]
  BY <1>1, <1>2, StagedPlan DEF PersistDisclosure
<1>4. /\ disclosed' = disclosed \cup UNION {e.rows : e \in staged.fresh}
      /\ cursors' \in [Mailboxes -> NoCursor..MaxRow]
  BY <1>1, PersistCounts DEF PersistDisclosure
<1>5. queue \in Seq(Event) /\ visible \subseteq Rows /\ \A r \in visible : r \in Rows /\ box[r] \in Mailboxes
  BY DEF DeliveryInd, TypeOK, Allocated
<1>6. \A m \in Mailboxes :
         /\ cursors'[m] >= cursors[m]
         /\ \A i \in 1..Len(E) : E[i].box = m => E[i].through <= cursors'[m]
         /\ \/ cursors'[m] = cursors[m]
            \/ \E i \in 1..Len(E) : E[i].box = m /\ E[i].through = cursors'[m]
  <2> DEFINE P == PlannedCursors(E, cursors)
  <2>1. \A m \in Mailboxes :
         /\ P[m] >= cursors[m]
         /\ \A i \in 1..Len(E) : E[i].box = m => E[i].through <= P[m]
         /\ P[m] = cursors[m] \/ \E i \in 1..Len(E) : E[i].box = m /\ E[i].through = P[m]
    <3> HIDE DEF E
    <3> QED  BY <1>3, Planned
  <2>2. cursors' = P
    BY <1>3
  <2> HIDE DEF E, P
  <2> QED  BY <2>1, <2>2
<1>7. /\ Waiting \in Seq(Event) /\ Len(Waiting) = k + Len(queue)
      /\ k \in Nat /\ Len(queue) \in Nat
      /\ \A i \in 1..k : Waiting[i] = E[i] /\ i \in 1..Len(Waiting)
      /\ \A i \in 1..Len(queue) : Waiting[k + i] = queue[i] /\ k + i \in 1..Len(Waiting)
      /\ \A i \in 1..Len(Waiting) : Waiting[i].through \in visible
  BY WaitingSound
<1>8. Waiting' = queue
  <2>1. Waiting' = <<>> \o queue
    BY <1>1 DEF Waiting, NothingStaged
  <2> QED  BY <1>5, <2>1, ConcatEmptySeq
<1>9. \A r \in visible : cursors[box[r]] \in NoCursor..MaxRow /\ cursors'[box[r]] \in NoCursor..MaxRow
  BY <1>3, <1>4, <1>5
<1>10. CursorPassesOnlyDisclosed'
  <2>1. SUFFICES ASSUME NEW r \in visible, r <= cursors'[box[r]]
                 PROVE  r \in disclosed'
    BY <1>1 DEF CursorPassesOnlyDisclosed
  <2>2. CASE r <= cursors[box[r]]
    BY <1>2, <1>4, <2>2 DEF CursorPassesOnlyDisclosed
  <2>3. CASE ~(r <= cursors[box[r]])
    <3>1. r > cursors[box[r]]
      BY <1>5, <1>9, <2>3, BoundsAssumption DEF Rows, NoCursor
    <3>2. \E i \in 1..Len(E) : E[i].box = box[r] /\ E[i].through >= r
      <4>1. cursors'[box[r]] # cursors[box[r]]
        BY <2>1, <2>3
      <4>2. PICK i \in 1..Len(E) : E[i].box = box[r] /\ E[i].through = cursors'[box[r]]
        BY <1>5, <1>6, <4>1
      <4>3. cursors'[box[r]] >= r
        BY <1>5, <1>9, <2>1, BoundsAssumption DEF Rows, NoCursor
      <4> QED  BY <4>2, <4>3
    <3>3. PICK i \in FreshEvents(E, cursors) :
             /\ i \in 1..Len(E) /\ E[i].box = box[r] /\ E[i].through >= r
             /\ \A j \in 1..(i - 1) : E[j].box = box[r] => E[j].through < r
      <4> DEFINE m == box[r]
      <4>1. /\ r \in Rows /\ m \in Mailboxes /\ r > cursors[m]
            /\ \E i \in 1..Len(E) : E[i].box = m /\ E[i].through >= r
        BY <1>5, <3>1, <3>2
      <4>2. E \in Seq(Event) /\ cursors \in [Mailboxes -> NoCursor..MaxRow]
        BY <1>3
      <4> HIDE DEF E, m
      <4>3. \E i \in FreshEvents(E, cursors) :
               /\ i \in 1..Len(E) /\ E[i].box = m /\ E[i].through >= r
               /\ \A j \in 1..(i - 1) : E[j].box = m => E[j].through < r
        BY <4>1, <4>2, FirstIsFresh
      <4> QED  BY <4>3 DEF m
    <3>4. r \in E[i].rows
      <4>1. /\ i \in 1..Len(Waiting) /\ Waiting[i] = E[i]
            /\ \A j \in 1..(i - 1) : Waiting[j] = E[j]
        <5> HIDE DEF E
        <5>1. i \in 1..k /\ \A j \in 1..(i - 1) : j \in 1..k
          BY <1>7, <3>3
        <5> HIDE DEF k
        <5> QED  BY <1>7, <5>1
      <4>2. r <= E[i].through
        BY <1>5, <1>7, <3>3, <4>1 DEF Rows
      <4> HIDE DEF E, k
      <4> QED  BY <1>2, <3>1, <3>3, <4>1, <4>2 DEF Covers
    <3>5. E[i] \in staged.fresh
      BY <1>3, <3>3
    <3> QED  BY <1>4, <3>4, <3>5
  <2> QED  BY <2>2, <2>3
<1>11. ASSUME NEW r \in visible, r > cursors'[box[r]]
       PROVE  r > cursors[box[r]] /\ \A i \in 1..Len(E) : E[i].box = box[r] => E[i].through < r
  <2>1. cursors'[box[r]] >= cursors[box[r]]
    BY <1>5, <1>6
  <2>2. r > cursors[box[r]]
    BY <1>5, <1>9, <1>11, <2>1, BoundsAssumption DEF Rows, NoCursor
  <2>3. ASSUME NEW i \in 1..Len(E), E[i].box = box[r] PROVE E[i].through < r
    <3>1. E[i].through <= cursors'[box[r]]
      BY <1>5, <1>6, <2>3
    <3>2. E[i].through \in Rows
      BY <1>5, <1>7
    <3> QED  BY <1>5, <1>9, <1>11, <3>1, <3>2, BoundsAssumption DEF Rows, NoCursor
  <2> QED  BY <2>2, <2>3
<1> HIDE DEF E
<1>12. Covers(Waiting, cursors)'
  <2>1. SUFFICES ASSUME NEW i \in 1..Len(queue), NEW r \in visible,
                        box[r] = queue[i].box, r <= queue[i].through, r > cursors'[box[r]],
                        \A j \in 1..(i - 1) : queue[j].box = queue[i].box => queue[j].through < r
                 PROVE  r \in queue[i].rows
    BY <1>1, <1>8 DEF Covers
  <2>2. k + i \in 1..Len(Waiting) /\ Waiting[k + i] = queue[i]
    BY <1>7
  <2>3. ASSUME NEW j \in 1..((k + i) - 1), Waiting[j].box = queue[i].box
        PROVE  Waiting[j].through < r
    <3>1. CASE j <= k
      <4>1. j \in 1..Len(E) /\ Waiting[j] = E[j]
        BY <1>7, <3>1
      <4> QED  BY <1>11, <2>1, <2>3, <4>1
    <3>2. CASE ~(j <= k)
      <4> DEFINE l == j - k
      <4>1. l \in 1..(i - 1) /\ l \in 1..Len(queue) /\ k + l = j
        BY <1>7, <3>2
      <4>2. Waiting[k + l] = queue[l]
        <5> HIDE DEF l
        <5> QED  BY <1>7, <4>1
      <4> QED  BY <2>1, <2>3, <4>1, <4>2
    <3> QED  BY <3>1, <3>2
  <2>4. r > cursors[box[r]]
    BY <1>11, <2>1
  <2> HIDE DEF k
  <2> QED  BY <1>2, <2>1, <2>2, <2>3, <2>4 DEF Covers
<1>13. PassedWaits'
  <2>1. SUFFICES ASSUME NEW r \in visible, Passed(r), r > cursors'[box[r]]
                 PROVE  Reaches(queue, r)
    BY <1>1, <1>8 DEF PassedWaits, Passed, Reaches
  <2>2. PICK i \in 1..Len(Waiting) : Waiting[i].box = box[r] /\ Waiting[i].through >= r
    BY <1>2, <1>11, <2>1 DEF PassedWaits, Reaches
  <2>3. ~(i <= k)
    <3>1. SUFFICES ASSUME i <= k PROVE FALSE
      OBVIOUS
    <3>2. i \in 1..Len(E) /\ Waiting[i] = E[i]
      BY <1>7, <3>1
    <3>3. E[i].through < r /\ E[i].through >= r
      BY <1>11, <2>1, <2>2, <3>2
    <3>4. E[i].through \in Rows /\ r \in Rows
      BY <1>5, <1>7, <3>2
    <3> QED  BY <3>3, <3>4 DEF Rows
  <2> DEFINE l == i - k
  <2>4. l \in 1..Len(queue) /\ k + l = i
    BY <1>7, <2>3
  <2>5. Waiting[k + l] = queue[l]
    <3> HIDE DEF l
    <3> QED  BY <1>7, <2>4
  <2> QED  BY <2>2, <2>4, <2>5 DEF Reaches
<1>14. Marks'
  <2>1. ASSUME NEW m \in Mailboxes PROVE cursors'[m] \in {0} \cup visible
    <3>1. CASE cursors'[m] = cursors[m]
      BY <1>2, <3>1 DEF Marks
    <3>2. CASE cursors'[m] # cursors[m]
      <4>1. PICK i \in 1..Len(E) : E[i].through = cursors'[m]
        BY <1>6, <3>2
      <4>2. E[i].through \in visible
        BY <1>7, <4>1
      <4> QED  BY <4>1, <4>2
    <3> QED  BY <3>1, <3>2
  <2> QED  BY <1>1, <1>2, <2>1 DEF Marks
<1>15. InOrder' /\ PageNext' /\ ReplayOnce' /\ ~stale'
  BY <1>1, <1>2 DEF InOrder, Allocated, PageNext, ReplayOnce
<1> QED  BY <1>10, <1>12, <1>13, <1>14, <1>15 DEF CoverInv

(* The first state.                                                        *)
LEMMA CoverStart ==
    ASSUME OrderlyStore, Init
    PROVE  CoverInv
<1>1. /\ visible = {} /\ Allocated = {} /\ staged = NothingStaged /\ queue = <<>> /\ page = <<>>
      /\ stale = FALSE /\ watch = 0 /\ highWater = 0 /\ phase = "down"
      /\ \A m \in Mailboxes : cursors[m] = 0
  BY DEF Init, OrderlyStore, Allocated
<1>2. Waiting = <<>>
  <2>1. Waiting = <<>> \o <<>>
    BY <1>1 DEF Waiting, NothingStaged
  <2> QED  BY <2>1
<1> QED  BY <1>1, <1>2 DEF CoverInv, InOrder, Covers, PassedWaits, PageNext, Marks, ReplayOnce,
            CursorPassesOnlyDisclosed

(* Every step keeps the cover.                                              *)
LEMMA CoverStep ==
    ASSUME OrderlyStore, DeliveryInd, CoverInv, [Next]_vars
    PROVE  CoverInv'
<1> USE DEF store, durable, process
<1>0. /\ InOrder /\ Marks /\ PassedWaits /\ PageNext /\ ReplayOnce /\ Covers(Waiting, cursors)
      /\ CursorPassesOnlyDisclosed /\ ~stale
      /\ visible \subseteq Rows
  BY DEF CoverInv, DeliveryInd, TypeOK, Allocated
<1>1. CASE UNCHANGED vars
  BY <1>1 DEF vars, CoverInv, InOrder, Allocated, Covers, Waiting, PassedWaits, Passed, Reaches,
     PageNext, Marks, ReplayOnce, CursorPassesOnlyDisclosed
<1>2. ASSUME NEW m \in Mailboxes, StoreMessage(m) PROVE CoverInv'
  <2>1. PICK r \in Rows : Allocated = 1..(r - 1) /\ box' = [box EXCEPT ![r] = m]
    BY <1>2 DEF StoreMessage
  <2>2. /\ UNCHANGED <<visible, durable, process, faults>>
        /\ \A q \in visible : box'[q] = box[q]
        /\ Allocated' = Allocated \cup {r}
    <3>1. box \in [Rows -> Mailboxes \cup {NoBox}] /\ visible \subseteq Allocated
      BY DEF DeliveryInd, TypeOK
    <3>2. r \notin Allocated
      BY <2>1 DEF Rows
    <3> QED  BY <1>2, <2>1, <3>1, <3>2, MailboxAssumption DEF StoreMessage, Allocated
  <2>3. InOrder'
    BY <1>0, <2>1, <2>2 DEF InOrder, Rows
  <2>4. Waiting' = Waiting
    BY <2>2 DEF Waiting
  <2> QED  BY <1>0, <2>2, <2>3, <2>4 DEF CoverInv, Covers, PassedWaits, Passed, Reaches,
              PageNext, Marks, ReplayOnce, CursorPassesOnlyDisclosed
<1>3. ASSUME NEW r \in Rows, PublishMessage(r) PROVE CoverInv'
  BY <1>3, CoverPublish
<1>4. CASE Start
  <2>1. /\ UNCHANGED <<store, durable, watch, page, queue, staged, stale, faults>>
        /\ phase = "down" /\ phase' = "replaying" /\ highWater' = MaxVisible
        /\ toReplay' = Mailboxes
    <3>1. ~(\A m \in Mailboxes : cursors[m] = NoCursor) \/ Mailboxes = {}
      BY <1>0 DEF Marks, NoCursor, Rows
    <3> QED  BY <1>4, <3>1 DEF Start
  <2>2. queue = <<>> /\ page = <<>> /\ staged = NothingStaged
    BY <2>1 DEF DeliveryInd, DownIsEmpty
  <2>3. MaxVisible \in {0} \cup visible
    <3> DEFINE g == CHOOSE r \in visible : \A q \in visible : q <= r
    <3>1. visible # {} => g \in visible
      BY <1>0, LastRowOf
    <3>2. MaxVisible = IF visible = {} THEN 0 ELSE g
      BY DEF MaxVisible
    <3> HIDE DEF g
    <3> QED  BY <3>1, <3>2
  <2>4. Waiting' = Waiting
    BY <2>1 DEF Waiting
  <2>5. PassedWaits'
    BY <2>1 DEF PassedWaits, Passed, DeliveryInd, TypeOK, Allocated
  <2>6. Marks'
    BY <1>0, <2>1, <2>3 DEF Marks
  <2>7. ReplayOnce'
    BY <2>1, <2>2 DEF ReplayOnce
  <2> QED  BY <1>0, <2>1, <2>2, <2>4, <2>5, <2>6, <2>7 DEF CoverInv, InOrder, Allocated, Covers,
              PageNext, CursorPassesOnlyDisclosed
<1>5. ASSUME NEW m \in Mailboxes, ReplaySource(m) PROVE CoverInv'
  BY <1>5, CoverReplaySource
<1>6. CASE StartWatcher
  <2>1. /\ UNCHANGED <<store, durable, toReplay, highWater, page, queue, memory, staged, stale, faults>>
        /\ phase = "replaying" /\ toReplay = {} /\ phase' = "running" /\ watch' = highWater
    BY <1>6 DEF StartWatcher
  <2>2. page = <<>>
    BY <1>0, <2>1 DEF PageNext
  <2>3. Waiting' = Waiting
    BY <2>1 DEF Waiting
  <2>4. PassedWaits'
    BY <1>0, <2>1, <2>3 DEF PassedWaits, Passed, Reaches
  <2> QED  BY <1>0, <2>1, <2>2, <2>3, <2>4 DEF CoverInv, InOrder, Allocated, Covers,
              PageNext, Marks, ReplayOnce, CursorPassesOnlyDisclosed
<1>7. CASE Poll
  BY <1>7, CoverPoll
<1>8. CASE EnqueueRow
  BY <1>8, CoverEnqueue
<1>9. CASE Drain
  BY <1>9, CoverDrain
<1>10. CASE CommitDisclosure
  BY <1>10, CoverCommit
<1>11. CASE Crash
  <2>1. /\ UNCHANGED <<store, durable>> /\ phase' = "down" /\ highWater' = 0 /\ watch' = 0
        /\ page' = <<>> /\ queue' = <<>> /\ staged' = NothingStaged /\ stale' = FALSE
    BY <1>11 DEF Crash
  <2>2. Waiting' = <<>>
    <3>1. Waiting' = <<>> \o <<>>
      BY <2>1 DEF Waiting, NothingStaged
    <3> QED  BY <3>1
  <2> QED  BY <1>0, <2>1, <2>2 DEF CoverInv, InOrder, Allocated, Covers, PassedWaits, Passed,
              PageNext, Marks, ReplayOnce, CursorPassesOnlyDisclosed
<1>12. CASE PollFails
  <2>1. /\ UNCHANGED <<store, durable, phase, toReplay, highWater, watch, queue, memory, staged, stale>>
        /\ page' = <<>>
    BY <1>12 DEF PollFails
  <2>2. Waiting' = Waiting
    BY <2>1 DEF Waiting
  <2> QED  BY <1>0, <2>1, <2>2 DEF CoverInv, InOrder, Allocated, Covers, PassedWaits, Passed, Reaches,
              PageNext, Marks, ReplayOnce, CursorPassesOnlyDisclosed
<1>13. CASE CommitFails \/ CommitUnacknowledged
  BY <1>0, <1>13 DEF CommitFails, CommitUnacknowledged, OrderlyStore
<1> QED
  BY <1>1, <1>2, <1>3, <1>4, <1>5, <1>6, <1>7, <1>8, <1>9, <1>10, <1>11, <1>12, <1>13
  DEF Next, Gateway, Publish, Startup, Watcher, Loop, Fault

(* CursorPassesOnlyDisclosed: when rows become visible in id order, commits *)
(* report what they did and every mailbox has a cursor, no message is left  *)
(* behind a cursor undisclosed, whatever crashes, restarts and failed polls *)
(* come between replay, watcher and loop.                                  *)
THEOREM DeliveryLosesNothing ==
    ASSUME OrderlyStore
    PROVE  Spec => []CursorPassesOnlyDisclosed
<1>1. Init => CoverInv
  BY CoverStart
<1>2. DeliveryInd /\ CoverInv /\ [Next]_vars => CoverInv'
  BY CoverStep
<1>3. CoverInv => CursorPassesOnlyDisclosed
  BY DEF CoverInv
<1> QED  BY <1>1, <1>2, <1>3, DeliverySafe, PTL DEF Spec
=============================================================================
