----------------------------- MODULE FeishuGateway -----------------------------
(***************************************************************************)
(* The Feishu gateway process (services/feishu-gateway.ts): events are     *)
(* acknowledged at once and worked off in one chain per chat, resources    *)
(* are downloaded, facts appended, failures logged; on a signal the        *)
(* gateway closes its socket and its server and drains the chains.  What   *)
(* the Agent may send to is decided over the facts stored so far.          *)
(*                                                                         *)
(* An event stands for its id.  `nth` numbers receipts, over restarts.     *)
(***************************************************************************)
EXTENDS Integers, Sequences, SequencesExt, FiniteSets

CONSTANTS
    FeishuGroups, FeishuPrivate, \* chats
    Pictures,         \* chats whose messages carry a picture, one each chat
    GroupSettings,    \* values BOT_FEISHU_GROUP_IDS has from start to start
    IngestAttempts,   \* attempts of withTransientRetry
    MaxReceipts, MaxGatewayStarts, MaxGatewayFaults \* bounds

FeishuChats == FeishuGroups \cup FeishuPrivate

ASSUME FeishuAssumption ==
    /\ FeishuGroups \cap FeishuPrivate = {} /\ Pictures \subseteq FeishuChats
    /\ GroupSettings \subseteq SUBSET FeishuGroups
    /\ IngestAttempts \in Nat \ {0}

(* Each chat has one message, which may be edited and recalled.            *)
FeishuEvent == [chat : FeishuChats, kind : {"message", "edit", "recall"}]

VARIABLES
    gateway, configured, gatewayStarts, \* the process's stage, its groups, its starts
    signals,           \* signals this process received
    chain,             \* per chat the scheduled tasks, first in first out
    feishuFacts,       \* the chat's rows in the order of their ids
    receipts, held,    \* receipts so far; history: those taken over since the
                       \* last start, forgotten when the process is killed
    aside,             \* history: those of them it set aside, and why
    gatewayFaults

ingressVars == <<chain, feishuFacts, aside>>
gatewayVars == <<gateway, configured, gatewayStarts, signals>>
feishuVars == <<gatewayVars, ingressVars, receipts, held, gatewayFaults>>

FeishuInit ==
    /\ gateway = "down" /\ configured = {} /\ gatewayStarts = 0 /\ signals = {}
    /\ chain = [c \in FeishuChats |-> <<>>] /\ feishuFacts = <<>>
    /\ receipts = 0 /\ held = {} /\ aside = {} /\ gatewayFaults = 0

GatewayStep == UNCHANGED <<receipts, gatewayFaults>>

GatewayStarts ==
    /\ gateway = "down" /\ gatewayStarts < MaxGatewayStarts
    /\ gateway' = "up" /\ gatewayStarts' = gatewayStarts + 1
    /\ configured' \in GroupSettings /\ signals' = {}
    /\ held' = {} /\ aside' = {}
    /\ UNCHANGED <<chain, feishuFacts>> /\ GatewayStep

(* The handler only schedules; it returns, which acknowledges the event.   *)
(* Feishu may deliver late, twice and in any order, or not at all.         *)
ReceiveFeishu(e) ==
    /\ gateway = "up" /\ receipts < MaxReceipts
    /\ receipts' = receipts + 1 /\ held' = held \cup {[nth |-> receipts', event |-> e]}
    /\ chain' = [chain EXCEPT ![e.chat] =
                   Append(@, [event |-> e, nth |-> receipts', at |-> "scheduled", picture |-> "none", tries |-> 0])]
    /\ UNCHANGED <<gatewayVars, feishuFacts, aside, gatewayFaults>>

-----------------------------------------------------------------------------
(* The tasks of a chat, which run to their end while the process lives.    *)

(* Seeded fault: every scheduled task of a chat runs at once.              *)
RunsAtOnce(c) == 1..Len(chain[c])
(* The task that may run: each starts when the one before it has ended.    *)
MayRun(c) == {k \in 1..Len(chain[c]) : k = 1}

IngestOnly == UNCHANGED <<gatewayVars, receipts, held>>
TaskGoes(c, k, task) == chain' = [chain EXCEPT ![c][k] = task]
TaskEnds(c, k) == chain' = [chain EXCEPT ![c] = RemoveAt(@, k)]
SetAside(c, k, why) == aside' = aside \cup {[nth |-> chain[c][k].nth, event |-> chain[c][k].event, why |-> why]}

(* A group that is not configured is left out; the bot's own messages are  *)
(* as well and are not events here.                                        *)
Normalize(c, k) ==
    /\ chain[c][k].at = "scheduled"
    /\ LET task == chain[c][k] IN
       IF task.event.kind # "recall" /\ c \in FeishuGroups \ configured
       THEN TaskEnds(c, k) /\ SetAside(c, k, "foreign")
       ELSE /\ TaskGoes(c, k, [task EXCEPT !.at = IF task.event.kind # "recall" /\ c \in Pictures
                                                 THEN "picture" ELSE "append"])
            /\ UNCHANGED aside
    /\ UNCHANGED <<feishuFacts, gatewayFaults>> /\ IngestOnly

(* A resource that cannot be downloaded, or is too large, becomes a        *)
(* placeholder text in the fact.                                           *)
Download(c, k, got) ==
    /\ chain[c][k].at = "picture"
    /\ TaskGoes(c, k, [chain[c][k] EXCEPT !.at = "append", !.picture = got])
    /\ UNCHANGED <<feishuFacts, aside, gatewayFaults>> /\ IngestOnly

StoredEvents == {feishuFacts[i].event : i \in 1..Len(feishuFacts)}
Heard(c) == \E e \in StoredEvents : e.chat = c /\ e.kind \in {"message", "edit"}

(* appendMessageFact is an upsert by event id that changes nothing of a    *)
(* row that is there; a recall needs a row of its message.                 *)
AppendedFact(task) ==
    IF task.event \in StoredEvents THEN feishuFacts
    ELSE Append(feishuFacts, [event |-> task.event, nth |-> task.nth, picture |-> task.picture])

OriginalMissing(task) == task.event.kind = "recall" /\ ~Heard(task.event.chat)

StoreFact(c, k) ==
    /\ chain[c][k].at = "append"
    /\ TaskEnds(c, k)
    /\ IF OriginalMissing(chain[c][k])
       THEN SetAside(c, k, "no_original") /\ UNCHANGED feishuFacts
       ELSE feishuFacts' = AppendedFact(chain[c][k]) /\ UNCHANGED aside
    /\ UNCHANGED gatewayFaults /\ IngestOnly

IngestFault == gatewayFaults < MaxGatewayFaults /\ gatewayFaults' = gatewayFaults + 1

(* An error of the database, perhaps only of its answer; transient ones    *)
(* are tried again.                                                        *)
AppendErrs(c, k) ==
    /\ chain[c][k].at = "append" /\ IngestFault
    /\ feishuFacts' \in {feishuFacts} \cup (IF OriginalMissing(chain[c][k]) THEN {} ELSE {AppendedFact(chain[c][k])})
    /\ \E transient \in BOOLEAN :
          IF transient /\ chain[c][k].tries + 1 < IngestAttempts
          THEN TaskGoes(c, k, [chain[c][k] EXCEPT !.tries = @ + 1])
          ELSE TaskGoes(c, k, [chain[c][k] EXCEPT !.at = "failed"])
    /\ UNCHANGED aside /\ IngestOnly

(* Normalizing, or storing a downloaded picture, may throw as well.        *)
TaskThrows(c, k) ==
    /\ chain[c][k].at = "picture" \/ (chain[c][k].at = "scheduled" /\ chain[c][k].event.kind # "recall")
    /\ IngestFault
    /\ TaskGoes(c, k, [chain[c][k] EXCEPT !.at = "failed"])
    /\ UNCHANGED <<feishuFacts, aside>> /\ IngestOnly

(* recordIngressFailure; its own failure is swallowed.                     *)
LogFailure(c, k) ==
    /\ chain[c][k].at = "failed" /\ TaskEnds(c, k)
    /\ \/ SetAside(c, k, "logged") /\ UNCHANGED gatewayFaults
       \/ SetAside(c, k, "unlogged") /\ IngestFault
    /\ UNCHANGED feishuFacts /\ IngestOnly

IngestStep(c, k) ==
    \/ Normalize(c, k) \/ StoreFact(c, k) \/ AppendErrs(c, k) \/ TaskThrows(c, k) \/ LogFailure(c, k)
    \/ \E got \in {"saved", "placeholder"} : Download(c, k, got)

-----------------------------------------------------------------------------
(* Shutdown.                                                               *)

ProcessExits ==
    /\ gateway' = "down" /\ chain' = [c \in FeishuChats |-> <<>>]
    /\ UNCHANGED <<configured, gatewayStarts, feishuFacts, aside>> /\ GatewayStep

(* The first signal closes the socket and the server.  Each signal has its *)
(* own handler, and shutdown returns at once the second time: the process  *)
(* exits with whatever is left in its chains.                              *)
FeishuSignal(s) ==
    /\ gateway # "down" /\ s \notin signals
    /\ signals' = signals \cup {s}
    /\ IF gateway = "up"
       THEN /\ gateway' = "draining"
            /\ UNCHANGED <<configured, gatewayStarts, ingressVars>> /\ GatewayStep
       ELSE ProcessExits
    /\ UNCHANGED held

(* Seeded fault: the chains are not waited for.                            *)
NothingIsLeft == TRUE
Drained == \A c \in FeishuChats : chain[c] = <<>>

DrainEnds ==
    /\ gateway = "draining" /\ Drained
    /\ ProcessExits /\ UNCHANGED <<signals, held>>

(* Killed: by the system, an error nobody catches, or a signal repeated.   *)
GatewayCrashes == gateway # "down" /\ ProcessExits /\ held' = {} /\ UNCHANGED signals

-----------------------------------------------------------------------------
(* What the Agent is told it may write to, and what /send lets through.    *)

(* Seeded fault: a group that was heard of once stays listed.              *)
ListedSoFar == {c \in FeishuChats : Heard(c)} \cup configured
ListedConversations ==
    {c \in {d \in FeishuChats : Heard(d)} \cup configured : c \in FeishuPrivate \/ c \in configured}

(* A reply needs a row of its message in the same chat.                    *)
MayWriteTo(c, isReply) ==
    /\ IF c \in FeishuGroups THEN c \in configured ELSE Heard(c)
    /\ isReply => Heard(c)

-----------------------------------------------------------------------------
FeishuNext ==
    \/ GatewayStarts \/ DrainEnds \/ GatewayCrashes
    \/ \E s \in {"SIGINT", "SIGTERM"} : FeishuSignal(s)
    \/ \E e \in FeishuEvent : ReceiveFeishu(e)
    \/ \E c \in FeishuChats : \E k \in MayRun(c) : IngestStep(c, k)

FeishuSpec == FeishuInit /\ [][FeishuNext]_feishuVars

-----------------------------------------------------------------------------
(* An event the gateway took over, and thereby acknowledged, ends in a     *)
(* row, in the failure log, or is set aside for a reason: SIGINT and       *)
(* SIGTERM start one graceful shutdown, which drains the chains            *)
(* (docs/OPERATIONS.md:183).  It does not hold: when a signal of the       *)
(* other kind comes during the drain, as after Ctrl-C under the            *)
(* supervisor, the exit cuts it.                                           *)
ReceivedIsKept ==
    \A h \in held :
        \/ \E c \in FeishuChats : \E k \in 1..Len(chain[c]) : chain[c][k].nth = h.nth
        \/ h.event \in StoredEvents
        \/ \E o \in aside : o.nth = h.nth

(* What holds of it: nothing that was acknowledged is dropped while the    *)
(* process runs, nor by a shutdown that only one kind of signal asked for. *)
OneSignalDrains == signals # {"SIGINT", "SIGTERM"} => ReceivedIsKept

(* However often it is delivered and tried, an event has one row; and the  *)
(* rows of a chat have the order in which they were received, although a   *)
(* picture may take long.                                                  *)
RowsFollowReceipt ==
    \A i, j \in 1..Len(feishuFacts) :
        i < j => /\ feishuFacts[i].event # feishuFacts[j].event
                 /\ feishuFacts[i].event.chat = feishuFacts[j].event.chat => feishuFacts[i].nth < feishuFacts[j].nth

(* A recall received after its message was stored finds it, also when the  *)
(* message was still waiting for its picture.                              *)
RecallFindsMessage ==
    \A o \in aside : o.why = "no_original" =>
        \A i \in 1..Len(feishuFacts) : feishuFacts[i].event.chat = o.event.chat => feishuFacts[i].nth > o.nth

(* What is listed can be written to, also after the configuration changed. *)
ListedIsAuthorized == gateway # "down" => \A c \in ListedConversations : MayWriteTo(c, FALSE)

(* The Feishu gateway (feishu-gateway.ts, feishu-event-routing.ts): the    *)
(* four above.                                                             *)
FeishuInv == OneSignalDrains /\ RowsFollowReceipt /\ RecallFindsMessage /\ ListedIsAuthorized
=============================================================================
