------------------------------ MODULE Ingress ------------------------------
(***************************************************************************)
(* How the gateways turn platform events into rows of the messages table:  *)
(* one promise chain per conversation, the history backfill of every       *)
(* monitored group after a connect, recalls, and the upsert on the event's *)
(* external id that lets the two of them meet (bot/core.ts,                *)
(* bot/startup-backfill.ts, services/feishu-*.ts, database/messages.ts).   *)
(*                                                                         *)
(* Messages are numbered in the order the platform accepted them.  Events  *)
(* of unmonitored conversations never enter a chain and are left out.      *)
(***************************************************************************)
EXTENDS Integers, Sequences, SequencesExt

CONSTANTS
    Groups,          \* monitored QQ groups: the conversations with a backfill
    Privates,        \* conversations without one
    NoScope,
    BackfillCount,   \* messages get_group_msg_history returns
    MaxAttempts,     \* withTransientRetry: attempts of one insert
    MaxMessages,     \* bound: messages ever sent
    MaxIngressFaults \* bound: failed calls, disconnects and gateway crashes

ASSUME ScopeAssumption == NoScope \notin Groups \cup Privates /\ Groups \cap Privates = {}
ASSUME IngressAssumption ==
    {BackfillCount, MaxAttempts} \subseteq Nat \ {0} /\ {MaxMessages, MaxIngressFaults} \subseteq Nat

VARIABLES
    scopeOf,     \* platform: the conversation of each message sent
    ownMessages, \* platform: the bot's own messages
    recalled,    \* platform: messages taken back
    online,      \* the gateway's socket
    chain,       \* [scope -> the jobs of its promise chain, head in progress]
    step,        \* [scope -> progress of the head: "start", "fetched"]
    attempts,    \* [scope -> inserts of the head that failed]
    fill,        \* [group -> its part of the backfill]
    strays,      \* messages whose backfill went on after its source timed out
    facts,       \* the messages table in row order
    heard,       \* events this process received live
    failed,      \* messages whose processing or listing failed, all logged
    unmatched,   \* recalls dropped because the original is not stored
    ingressFaults

platformVars == <<scopeOf, ownMessages, recalled>>
gatewayVars == <<online, chain, step, attempts, fill, strays, heard>>
ingressVars == <<platformVars, gatewayVars, facts, failed, unmatched, ingressFaults>>

Scopes == Groups \cup Privates
Messages == 1..MaxMessages
Sent == {m \in Messages : scopeOf[m] # NoScope}
Said(m) == [kind |-> "message", msg |-> m]
Recall(m) == [kind |-> "recall", msg |-> m]
NoFill == [step |-> "idle", todo |-> <<>>]

IngressInit ==
    /\ scopeOf = [m \in Messages |-> NoScope] /\ ownMessages = {} /\ recalled = {}
    /\ online = FALSE
    /\ chain = [s \in Scopes |-> <<>>]
    /\ step = [s \in Scopes |-> "start"]
    /\ attempts = [s \in Scopes |-> 0]
    /\ fill = [g \in Groups |-> NoFill]
    /\ strays = {} /\ facts = <<>> /\ heard = {} /\ failed = {} /\ unmatched = {}
    /\ ingressFaults = 0

IngressFault == ingressFaults < MaxIngressFaults /\ ingressFaults' = ingressFaults + 1

(* Seeded fault: the event id is not unique.                               *)
AppendedBlindly(fact) == Append(facts, fact)
(* INSERT ... ON CONFLICT (event_external_id) keeps the row there is.      *)
Appended(fact) == IF fact \in ToSet(facts) THEN facts ELSE Append(facts, fact)

Stored(m) == Said(m) \in ToSet(facts)

-----------------------------------------------------------------------------
(* The platform.                                                           *)

(* A connected gateway puts the event on the chain of its conversation.    *)
Hear(s, job) ==
    IF online THEN /\ chain' = [chain EXCEPT ![s] = Append(@, job)]
                   /\ heard' = heard \cup {job}
    ELSE UNCHANGED <<chain, heard>>

PlatformMessage(s, own) ==
    /\ \E m \in Messages :
          /\ Sent = 1..(m - 1)
          /\ scopeOf' = [scopeOf EXCEPT ![m] = s]
          /\ ownMessages' = IF own THEN ownMessages \cup {m} ELSE ownMessages
          /\ Hear(s, Said(m))
    /\ UNCHANGED <<recalled, online, step, attempts, fill, strays, facts, failed, unmatched,
                   ingressFaults>>

PlatformRecall(m) ==
    /\ m \in Sent \ recalled
    /\ recalled' = recalled \cup {m}
    /\ Hear(scopeOf[m], Recall(m))
    /\ UNCHANGED <<scopeOf, ownMessages, online, step, attempts, fill, strays, facts, failed,
                   unmatched, ingressFaults>>

-----------------------------------------------------------------------------
(* The chains: processMessage and the recall handlers.                     *)

Working(s, kind, where) ==
    chain[s] # <<>> /\ Head(chain[s]).kind = kind /\ step[s] = where
Current(s) == Head(chain[s]).msg

NextJob(s) ==
    /\ chain' = [chain EXCEPT ![s] = Tail(@)]
    /\ step' = [step EXCEPT ![s] = "start"]
    /\ attempts' = [attempts EXCEPT ![s] = 0]
    /\ UNCHANGED <<platformVars, online, fill, strays, heard>>

(* get_msg, parsing with forwarded messages and the media placeholders;    *)
(* the bot's own messages go no further.                                   *)
FetchMessage(s) ==
    /\ Working(s, "message", "start")
    /\ IF Current(s) \in ownMessages THEN NextJob(s)
       ELSE /\ step' = [step EXCEPT ![s] = "fetched"]
            /\ UNCHANGED <<platformVars, online, chain, attempts, fill, strays, heard>>
    /\ UNCHANGED <<facts, failed, unmatched, ingressFaults>>

FetchFails(s) ==
    /\ Working(s, "message", "start")
    /\ IngressFault
    /\ failed' = failed \cup {Current(s)}
    /\ NextJob(s)
    /\ UNCHANGED <<facts, unmatched>>

UpsertMessage(s) ==
    /\ Working(s, "message", "fetched")
    /\ facts' = Appended(Said(Current(s)))
    /\ NextJob(s)
    /\ UNCHANGED <<failed, unmatched, ingressFaults>>

(* persistMessageRecall looks for the original first.                      *)
StoreRecall(s) ==
    /\ Working(s, "recall", "start")
    /\ IF Stored(Current(s))
       THEN facts' = Appended(Recall(Current(s))) /\ UNCHANGED unmatched
       ELSE unmatched' = unmatched \cup {Current(s)} /\ UNCHANGED facts
    /\ NextJob(s)
    /\ UNCHANGED <<failed, ingressFaults>>

(* An insert whose answer is an error may have committed.  A transient     *)
(* error is tried again, MaxAttempts times in all.                         *)
StoreErrs(s) ==
    /\ \/ Working(s, "message", "fetched")
       \/ Working(s, "recall", "start") /\ Stored(Current(s))
    /\ IngressFault
    /\ facts' \in {facts, Appended(Head(chain[s]))}
    /\ \/ /\ attempts[s] + 1 < MaxAttempts
          /\ attempts' = [attempts EXCEPT ![s] = @ + 1]
          /\ UNCHANGED <<platformVars, online, chain, step, fill, strays, heard, failed>>
       \/ /\ failed' = failed \cup {Current(s)}
          /\ NextJob(s)
    /\ UNCHANGED unmatched

-----------------------------------------------------------------------------
(* The backfill.  Sources run INITIAL_BACKFILL_CONCURRENCY at a time and   *)
(* one backfill after another; here every due source may run.              *)

(* Seeded fault: a connection schedules no backfill.                       *)
NoBackfill == fill
(* lifecycle connect schedules a backfill of every group.                  *)
BackfillDue == [g \in Groups |-> [step |-> "due", todo |-> <<>>]]

Connect ==
    /\ ~online
    /\ \A g \in Groups : fill[g].step = "idle"
    /\ online' = TRUE
    /\ fill' = BackfillDue
    /\ UNCHANGED <<platformVars, chain, step, attempts, strays, heard, facts, failed, unmatched,
                   ingressFaults>>

SetFill(g, where, todo) ==
    fill' = [fill EXCEPT ![g] = IF todo = <<>> THEN NoFill ELSE [step |-> where, todo |-> todo]]

History(g) == {m \in Sent : scopeOf[m] = g}
Newest(ms) == {m \in ms : Cardinality({n \in ms : n > m}) < BackfillCount}

(* The history returns messages in the order they were sent.               *)
OldestFirst(ms) ==
    {todo \in [1..Cardinality(ms) -> ms] :
        ToSet(todo) = ms /\ \A i, j \in 1..Cardinality(ms) : i < j => todo[i] < todo[j]}

(* The newest messages that are not stored yet.  The platform may or may   *)
(* not still list a message that was recalled.                             *)
ListHistory(g) ==
    /\ fill[g].step = "due"
    /\ \E gone \in SUBSET (History(g) \cap recalled) :
          \E todo \in OldestFirst({m \in Newest(History(g) \ gone) : ~Stored(m)}) :
              SetFill(g, "listed", todo)
    /\ UNCHANGED <<platformVars, online, chain, step, attempts, strays, heard, facts, failed,
                   unmatched, ingressFaults>>

FillFetches(g) ==
    /\ fill[g].step = "listed"
    /\ IF Head(fill[g].todo) \in ownMessages THEN SetFill(g, "listed", Tail(fill[g].todo))
       ELSE SetFill(g, "fetched", fill[g].todo)
    /\ UNCHANGED <<platformVars, online, chain, step, attempts, strays, heard, facts, failed,
                   unmatched, ingressFaults>>

FillStores(g) ==
    /\ fill[g].step = "fetched"
    /\ facts' = Appended(Said(Head(fill[g].todo)))
    /\ SetFill(g, "listed", Tail(fill[g].todo))
    /\ UNCHANGED <<platformVars, online, chain, step, attempts, strays, heard, failed, unmatched,
                   ingressFaults>>

(* One message that fails is skipped.                                      *)
FillSkips(g) ==
    /\ fill[g].step \in {"listed", "fetched"}
    /\ IngressFault
    /\ failed' = failed \cup {Head(fill[g].todo)}
    /\ SetFill(g, "listed", Tail(fill[g].todo))
    /\ UNCHANGED <<platformVars, online, chain, step, attempts, strays, heard, facts, unmatched>>

(* The source fails or times out as a whole.  The message in flight is not *)
(* cancelled; the abort is seen after it.                                  *)
FillEnds(g) ==
    /\ fill[g].step # "idle"
    /\ IngressFault
    /\ fill' = [fill EXCEPT ![g] = NoFill]
    /\ strays' = IF fill[g].step = "fetched" THEN strays \cup {Head(fill[g].todo)} ELSE strays
    /\ failed' = failed \cup (IF fill[g].step = "due" THEN History(g) ELSE ToSet(fill[g].todo))
    /\ UNCHANGED <<platformVars, online, chain, step, attempts, heard, facts, unmatched>>

StrayStores(m) ==
    /\ m \in strays
    /\ strays' = strays \ {m}
    /\ facts' = Appended(Said(m))
    /\ UNCHANGED <<platformVars, online, chain, step, attempts, fill, heard, failed, unmatched,
                   ingressFaults>>

-----------------------------------------------------------------------------
(* The socket closes: chains and backfill go on.                           *)
Disconnect ==
    /\ online
    /\ IngressFault
    /\ online' = FALSE
    /\ UNCHANGED <<platformVars, chain, step, attempts, fill, strays, heard, facts, failed,
                   unmatched>>

(* The gateway ends, by a crash or by its shutdown, which does not wait    *)
(* for the chains.                                                         *)
GatewayEnds ==
    /\ IngressFault
    /\ online' = FALSE
    /\ chain' = [s \in Scopes |-> <<>>]
    /\ step' = [s \in Scopes |-> "start"]
    /\ attempts' = [s \in Scopes |-> 0]
    /\ fill' = [g \in Groups |-> NoFill]
    /\ strays' = {} /\ heard' = {}
    /\ UNCHANGED <<platformVars, facts, failed, unmatched>>

IngressNext ==
    \/ \E s \in Scopes :
          \/ \E own \in BOOLEAN : PlatformMessage(s, own)
          \/ FetchMessage(s)
          \/ FetchFails(s)
          \/ UpsertMessage(s)
          \/ StoreRecall(s)
          \/ StoreErrs(s)
    \/ \E m \in Messages : PlatformRecall(m) \/ StrayStores(m)
    \/ \E g \in Groups :
          \/ ListHistory(g)
          \/ FillFetches(g)
          \/ FillStores(g)
          \/ FillSkips(g)
          \/ FillEnds(g)
    \/ Connect
    \/ Disconnect
    \/ GatewayEnds

IngressSpec == IngressInit /\ [][IngressNext]_ingressVars

(* Calls of the gateway are answered, and the client connects again.       *)
ChainWorks(s) == FetchMessage(s) \/ UpsertMessage(s) \/ StoreRecall(s)
FillWorks(g) == ListHistory(g) \/ FillFetches(g) \/ FillStores(g)

-----------------------------------------------------------------------------
(* Properties.                                                             *)

Row(fact) == CHOOSE i \in DOMAIN facts : facts[i] = fact

(* Whatever live events, backfills, retries and lost answers there are:    *)
(* the table has one row per event, a recall comes after its message, a    *)
(* recall finds its message when the gateway had received that one live,   *)
(* and live messages of a conversation are stored in the order they came   *)
(* unless the first failed, or a backfill in between did not list it.      *)
FactsFollowEvents ==
    /\ IsInjective(facts)
    /\ \A m \in Messages :
          /\ Recall(m) \in ToSet(facts) => Stored(m) /\ Row(Said(m)) < Row(Recall(m))
          /\ m \in unmatched =>
                Said(m) \notin heard \/ m \in failed \cup ownMessages
    /\ \A m, n \in Messages :
          /\ m < n /\ scopeOf[m] = scopeOf[n] /\ {Said(m), Said(n)} \subseteq heard
          /\ Stored(n) /\ m \notin failed \cup ownMessages \cup recalled
          /\ Cardinality({k \in History(scopeOf[m]) : k > m}) < BackfillCount
          => Stored(m) /\ Row(Said(m)) < Row(Said(n))

(* A group message is stored even if the gateway was away when it was      *)
(* sent, unless it failed, is the bot's own, was recalled, or is no longer *)
(* among the newest the history returns.                                   *)
EveryGroupMessageStored ==
    \A m \in Messages :
        m \in Sent /\ scopeOf[m] \in Groups ~>
            \/ Stored(m)
            \/ m \in failed \cup ownMessages \cup recalled
            \/ Cardinality({n \in History(scopeOf[m]) : n > m}) >= BackfillCount
=============================================================================
