--------------------------- MODULE MailboxContinuity ---------------------------
(***************************************************************************)
(* How well the Agent still remembers a mailbox (agent/mailbox-continuity.ts *)
(* and its use in agent/bot-loop-agent.ts): an anchor for each mailbox says  *)
(* when, in which round and after which compaction it was last disclosed,    *)
(* and until when the Agent is engaged in it.  The anchor decides how much   *)
(* earlier context a notification brings along, and whether a message of a   *)
(* group is disclosed directly.                                            *)
(*                                                                         *)
(* The state is edited in a copy that is committed with the messages, or     *)
(* dropped; compaction edits the stored one.                                *)
(***************************************************************************)
EXTENDS Integers, FiniteSets

CONSTANTS
    Mailboxes, Groups,  \* mailboxes, and the groups among them
    Lease,              \* MAILBOX_ENGAGEMENT_LEASE_MS
    LightAfter,         \* MAILBOX_LIGHT_COMPENSATION_AFTER_MS
    FullAfterRounds,    \* MAILBOX_FULL_COMPENSATION_AFTER_ROUNDS
    FullAfterTokens,    \* MAILBOX_FULL_COMPENSATION_AFTER_TOKENS
    EndOfTime,          \* bound: the clock
    MaxRounds, MaxTokens, MaxCompactions   \* bounds

ASSUME ContinuityConstants ==
    /\ Groups \subseteq Mailboxes
    /\ {Lease, LightAfter, FullAfterRounds, FullAfterTokens} \subseteq Nat \ {0}
    /\ {EndOfTime, MaxRounds, MaxTokens, MaxCompactions} \subseteq Nat

VARIABLES
    clock,      \* autonomy.now
    continuity, \* mailboxContinuity, of the loop and of the runtime state
    drain,      \* discloseEvents: its pass, its nowMs and stagedContinuity, or NoDrain
    targets,    \* conversations the round sent to, not yet recorded
    shown,      \* by mailbox: the compaction epoch it was last disclosed or engaged in
    activeAt    \* by mailbox: when the Agent sent to it, or last saw its talk while active

continuityVars == <<clock, continuity, drain, targets, shown, activeAt>>

Unknown == -1
Never == -1
NoAnchor == [at |-> Never, round |-> 0, tokens |-> Unknown, epoch |-> 0, until |-> Never]
EmptyContinuity ==
    [round |-> 0, tokens |-> Unknown, epoch |-> 0, anchors |-> [m \in Mailboxes |-> NoAnchor]]
NoDrain == [pass |-> 0, now |-> 0, staged |-> EmptyContinuity, activeAt |-> [m \in Mailboxes |-> Never]]

Later(a, b) == IF a > b THEN a ELSE b
Between(a, b) == Later(0, b - a)

-----------------------------------------------------------------------------
(* isMailboxEngaged and decideMailboxCompensation.                          *)
Engaged(c, m, now) == c.anchors[m].until >= now

NeedsFull(c, m) ==
    LET a == c.anchors[m] IN
    \/ c.epoch # a.epoch
    \/ Between(a.round, c.round) >= FullAfterRounds
    \/ c.tokens # Unknown /\ a.tokens # Unknown /\ Between(a.tokens, c.tokens) >= FullAfterTokens

Compensation(c, m, at) ==
    IF c.anchors[m] = NoAnchor THEN "none"
    ELSE IF NeedsFull(c, m) THEN "full"
    ELSE IF Between(c.anchors[m].at, at) >= LightAfter THEN "light"
    ELSE "none"

(* Seeded fault: a disclosure starts the anchor anew.                      *)
AnchorWithoutLease(c, m, at) ==
    IF at < c.anchors[m].at THEN c
    ELSE [c EXCEPT !.anchors[m] = [NoAnchor EXCEPT !.at = at, !.round = c.round, !.tokens = c.tokens,
                                                   !.epoch = c.epoch]]

(* recordMailboxDisclosure: an older message leaves the anchor alone, and    *)
(* the lease is kept.                                                      *)
RecordDisclosure(c, m, at) ==
    IF at < c.anchors[m].at THEN c
    ELSE [c EXCEPT !.anchors[m] = [@ EXCEPT !.at = at, !.round = c.round, !.tokens = c.tokens,
                                            !.epoch = c.epoch]]

(* recordMailboxEngagement.                                                *)
RecordEngagement(c, m, now) ==
    [c EXCEPT !.anchors[m] = [at |-> Later(@.at, now), round |-> c.round, tokens |-> c.tokens,
                              epoch |-> c.epoch, until |-> Later(@.until, now + Lease)]]

(* Seeded fault: the old prompt size stays.                                *)
EpochOnly(c) == [c EXCEPT !.epoch = @ + 1]
(* recordMailboxCompaction: the prompt's size starts anew.                  *)
RecordCompaction(c) == [c EXCEPT !.epoch = @ + 1, !.tokens = Unknown]

-----------------------------------------------------------------------------
ContinuityInit ==
    /\ clock = 0
    /\ continuity = EmptyContinuity /\ drain = NoDrain
    /\ targets = {}
    /\ shown = [m \in Mailboxes |-> Never] /\ activeAt = [m \in Mailboxes |-> Never]

TimePasses ==
    /\ clock < EndOfTime
    /\ clock' = clock + 1
    /\ UNCHANGED <<continuity, drain, targets, shown, activeAt>>

(* A drain works on a parsed copy, first the interrupting and then the       *)
(* passive disclosures, each pass with the time it began.                   *)
BeginDisclosing ==
    /\ drain = NoDrain /\ targets = {}
    /\ drain' = [pass |-> 1, now |-> clock, staged |-> continuity, activeAt |-> activeAt]
    /\ UNCHANGED <<clock, continuity, targets, shown, activeAt>>

SecondPass ==
    /\ drain.pass = 1
    /\ drain' = [drain EXCEPT !.pass = 2, !.now = clock]
    /\ UNCHANGED <<clock, continuity, targets, shown, activeAt>>

(* Whether the Agent is active in a group, told without leases.             *)
StillActive(times, m, now) == times[m] # Never /\ now <= times[m] + Lease

(* A group in which the Agent is engaged, or which calls it, has its messages *)
(* disclosed directly when they fit, and a lease that runs starts again;     *)
(* every other mailbox gets a notification, or, after a long absence, one of *)
(* its backlog.                                                            *)
Disclose(m, at, high, fits) ==
    LET engaged == Engaged(drain.staged, m, drain.now)
        direct == m \in Groups /\ (engaged \/ high) /\ fits
        told == RecordDisclosure(drain.staged, m, at)
    IN  /\ drain # NoDrain
        /\ at <= clock
        /\ drain' = [drain EXCEPT
                !.staged = IF direct /\ engaged THEN RecordEngagement(told, m, drain.now) ELSE told,
                !.activeAt[m] = IF m \in Groups /\ fits /\ StillActive(drain.activeAt, m, drain.now)
                                THEN Later(@, drain.now) ELSE @]
        /\ UNCHANGED <<clock, continuity, targets, shown, activeAt>>

(* What a commit makes known: mailboxes with a new anchor.                  *)
Installed(c) ==
    /\ continuity' = c
    /\ shown' = [m \in Mailboxes |->
                    IF c.anchors[m] # continuity.anchors[m] THEN c.epoch ELSE shown[m]]

CommitDisclosed ==
    /\ drain # NoDrain
    /\ Installed(drain.staged) /\ activeAt' = drain.activeAt
    /\ drain' = NoDrain
    /\ UNCHANGED <<clock, targets>>

(* The commit fails and the events are queued again, or the Core restarts.  *)
DropDisclosed ==
    /\ drain # NoDrain
    /\ drain' = NoDrain
    /\ UNCHANGED <<clock, continuity, targets, shown, activeAt>>

(* A round is committed with its usage; then its sends are recorded.        *)
CommitUsage(tokens, sends) ==
    /\ drain = NoDrain /\ targets = {}
    /\ continuity.round < MaxRounds
    /\ continuity' = [continuity EXCEPT !.round = @ + 1,
                                        !.tokens = IF tokens = Unknown THEN @ ELSE tokens]
    /\ targets' = sends
    /\ UNCHANGED <<clock, drain, shown, activeAt>>

RecordSends ==
    /\ targets # {}
    /\ LET anchors == [m \in Mailboxes |-> IF m \in targets \cap Groups
                                           THEN RecordEngagement(continuity, m, clock).anchors[m]
                                           ELSE continuity.anchors[m]]
       IN  Installed([continuity EXCEPT !.anchors = anchors])
    /\ activeAt' = [m \in Mailboxes |-> IF m \in targets \cap Groups THEN clock ELSE activeAt[m]]
    /\ targets' = {}
    /\ UNCHANGED <<clock, drain>>

(* The process ends between the two commits.                               *)
LoseSends ==
    /\ targets # {}
    /\ targets' = {}
    /\ UNCHANGED <<clock, continuity, drain, shown, activeAt>>

(* A compaction, after a round or within one, is committed with its epoch.  *)
Compaction ==
    /\ drain = NoDrain /\ targets = {}
    /\ continuity.epoch < MaxCompactions
    /\ continuity' = RecordCompaction(continuity)
    /\ UNCHANGED <<clock, drain, targets, shown, activeAt>>

ContinuityNext ==
    \/ TimePasses \/ BeginDisclosing \/ SecondPass
    \/ \E m \in Mailboxes, at \in 0..EndOfTime, high, fits \in BOOLEAN : Disclose(m, at, high, fits)
    \/ CommitDisclosed \/ DropDisclosed
    \/ \E tokens \in {Unknown} \cup 0..MaxTokens, sends \in SUBSET Mailboxes : CommitUsage(tokens, sends)
    \/ RecordSends \/ LoseSends \/ Compaction

ContinuitySpec == ContinuityInit /\ [][ContinuityNext]_continuityVars

-----------------------------------------------------------------------------
(* Properties.                                                             *)

(* The Agent is engaged in a group exactly for one lease after it last sent  *)
(* to it, or was told of a message there while engaged: no disclosure,       *)
(* compaction or dropped drain shortens or stretches that, and in a private  *)
(* chat it never is.                                                       *)
EngagedAsLongAsLeased ==
    \A m \in Mailboxes :
        /\ Engaged(continuity, m, clock) <=> StillActive(activeAt, m, clock)
        /\ m \notin Groups => ~Engaged(continuity, m, clock)

(* A mailbox disclosed before a compaction and not since gets the full        *)
(* context with its next notification, whenever its message was sent; one     *)
(* never disclosed, none.                                                  *)
ForgottenIsCompensated ==
    \A m \in Mailboxes, at \in 0..EndOfTime :
        /\ shown[m] # Never /\ shown[m] < continuity.epoch => Compensation(continuity, m, at) = "full"
        /\ shown[m] = Never => Compensation(continuity, m, at) = "none"

(* Prompt sizes are compared only within one compaction epoch, and an anchor  *)
(* is never of a later round or epoch than the state it is in.               *)
AnchorsAreComparable ==
    \A m \in Mailboxes :
        LET a == continuity.anchors[m] IN
        /\ a.round <= continuity.round /\ a.epoch <= continuity.epoch
        /\ a.epoch < continuity.epoch /\ continuity.round = a.round => continuity.tokens = Unknown

ContinuityInv == EngagedAsLongAsLeased /\ ForgottenIsCompensated /\ AnchorsAreComparable
=============================================================================
