----------------------------- MODULE SendMessage -----------------------------
(***************************************************************************)
(* Sending a message: the conversation focus, the send_message tool with   *)
(* its safety hook and target policy, the delivery adapters, and the QQ    *)
(* gateway process that retries towards NapCat while its client waits.     *)
(*                                                                         *)
(* Texts are members of a small set, a conversation is its platform and    *)
(* kind (Target), the clock counts units of the hook's windows.            *)
(* The tool is exclusive: one call at a time, one action per call.         *)
(***************************************************************************)
EXTENDS Integers, FiniteSets

CONSTANTS
    Targets,          \* conversations, of [platform : Platforms, kind : Kinds]
    Texts, NoText,    \* texts, and that of an image or music share
    NoTarget,
    MonitoredGroups, AmbientGroups,  \* configuration of the QQ groups
    PrivateCooldown, DuplicateWindow, \* of the hook, in units of the clock
    RetryLimit,       \* attempts of the gateway
    MaxActions,       \* bound: deliveries
    MaxTime           \* bound: the clock

Platforms == {"qq", "feishu"}
Kinds == {"private", "group"}
ASSUME SendAssumption ==
    /\ Targets \subseteq [platform : Platforms, kind : Kinds]
    /\ AmbientGroups \subseteq MonitoredGroups /\ MonitoredGroups \subseteq Targets
    /\ NoTarget \notin Targets
    /\ NoText \in Texts /\ PrivateCooldown \in Nat /\ DuplicateWindow \in Nat
    /\ RetryLimit \in Nat \ {0} /\ MaxActions \in Nat

VARIABLES
    focus,        \* conversation opened, or NoTarget
    reachable,    \* conversations the directories list: groups, friends, Feishu chats
    awaitingReply, \* private conversations with pending mailbox notices
    now,
    call,         \* the send_message call in progress
    lastAction,   \* actions given out
    request,      \* the gateway's work on an action
    arrived,      \* how often an action's message reached its conversation
    answer,       \* the delivery status the tool was given
    lastPrivateAmbientAt, lastAmbientTextAt, \* the hook's maps
    confirmed     \* history: ambient messages confirmed to the Agent

sendVars == <<focus, reachable, awaitingReply, now, call, lastAction, request, arrived, answer,
              lastPrivateAmbientAt, lastAmbientTextAt, confirmed>>
world == <<focus, reachable, awaitingReply, now>>
guardMaps == <<lastPrivateAmbientAt, lastAmbientTextAt, confirmed>>

Actions == 1..MaxActions
Never == 0 - (PrivateCooldown + DuplicateWindow)   \* "no entry" of the maps
NoCall == [stage |-> "none"]
NoRequest == [attempts |-> 0, state |-> "none", heard |-> FALSE]
(* stage: "asked" after the hook, "delivering" with an action, "answered".  *)
Calls == [stage : {"asked", "delivering", "answered"}, target : Targets, reply : BOOLEAN, text : Texts]

SendInit ==
    /\ focus = NoTarget /\ reachable = Targets /\ awaitingReply = {} /\ now = 0
    /\ call = NoCall /\ lastAction = 0
    /\ request = [a \in Actions |-> NoRequest]
    /\ arrived = [a \in Actions |-> 0]
    /\ answer = [a \in Actions |-> "none"]
    /\ lastPrivateAmbientAt = [t \in Targets |-> Never]
    /\ lastAmbientTextAt = [x \in Texts |-> Never]
    /\ confirmed = {}

-----------------------------------------------------------------------------
(* Around the calls.                                                       *)

(* conversation open and close.                                            *)
OpenConversation(t) ==
    /\ call = NoCall /\ t \in reachable \cup {NoTarget}
    /\ focus' = t
    /\ UNCHANGED <<reachable, awaitingReply, now, call, lastAction, request, arrived, answer, guardMaps>>

(* A friend is removed, a group left, or a directory cannot be loaded.     *)
DirectoryChanges(t) ==
    /\ reachable' = IF t \in reachable THEN reachable \ {t} ELSE reachable \cup {t}
    /\ UNCHANGED <<focus, awaitingReply, now, call, lastAction, request, arrived, answer, guardMaps>>

(* The mailbox a round sees is the ledger's; it changes between rounds.    *)
MailboxChanges(t) ==
    /\ call = NoCall /\ t.kind = "private"
    /\ awaitingReply' = IF t \in awaitingReply THEN awaitingReply \ {t} ELSE awaitingReply \cup {t}
    /\ UNCHANGED <<focus, reachable, now, call, lastAction, request, arrived, answer, guardMaps>>

ClockTicks ==
    /\ now < MaxTime
    /\ now' = now + 1
    /\ UNCHANGED <<focus, reachable, awaitingReply, call, lastAction, request, arrived, answer, guardMaps>>

-----------------------------------------------------------------------------
(* The tool call.                                                          *)

(* isReplySend: a quoted message, or a private conversation that waits.    *)
IsReply(t, reply) == reply \/ t \in awaitingReply

(* beforeTool: no text twice within its window, no second unanswered       *)
(* private message within its cooldown.                                    *)
TooSoon(t, text) ==
    \/ text # NoText /\ now - lastAmbientTextAt[text] < DuplicateWindow
    \/ t # NoTarget /\ t.kind = "private" /\ now - lastPrivateAmbientAt[t] < PrivateCooldown

(* resolveCurrent and the safety hook: a stale focus is cleared and the    *)
(* call refused.                                                           *)
BeginSend(reply, text) ==
    /\ call = NoCall /\ lastAction < MaxActions
    /\ IsReply(focus, reply) \/ ~TooSoon(focus, text)
    /\ focus # NoTarget
    /\ IF focus \in reachable
       THEN /\ call' = [stage |-> "asked", target |-> focus, reply |-> reply, text |-> text]
            /\ UNCHANGED focus
       ELSE /\ focus' = NoTarget
            /\ UNCHANGED call
    /\ UNCHANGED <<reachable, awaitingReply, now, lastAction, request, arrived, answer, guardMaps>>

(* createSendTargetPolicy.authorize, with the directories as they are now. *)
(* A quoted message mentions the bot, or it does not.                      *)
Authorized(t, reply, mentionsBot) ==
    CASE t.platform = "feishu" -> t \in reachable
      [] t.kind = "private" -> t \in reachable
      [] OTHER -> /\ t \in MonitoredGroups
                  /\ t \in AmbientGroups \/ (reply /\ mentionsBot)

(* Every check failed or threw: reply target unknown, elsewhere, recalled  *)
(* or not mentioning the bot, target refused, empty, music off QQ, no image. *)
RefuseSend ==
    /\ call.stage = "asked"
    /\ call' = NoCall
    /\ UNCHANGED <<world, lastAction, request, arrived, answer, guardMaps>>

(* The gateway's handler starts, or the Feishu API is called.              *)
FirstState(t) == IF t.platform = "qq" THEN "running" ELSE "calling"
Open(a) == request[a].state \in {"running", "calling"}

Deliver(mentionsBot) ==
    /\ call.stage = "asked" /\ lastAction < MaxActions
    /\ Authorized(call.target, call.reply, mentionsBot)
    /\ lastAction' = lastAction + 1
    /\ call' = [call EXCEPT !.stage = "delivering"]
    /\ request' = [request EXCEPT ![lastAction + 1] =
                      [attempts |-> 0, state |-> FirstState(call.target), heard |-> TRUE]]
    /\ UNCHANGED <<world, arrived, answer, guardMaps>>

Delivering(platform) == call.stage = "delivering" /\ call.target.platform = platform

Answer(a, status) ==
    /\ answer' = [answer EXCEPT ![a] = status]
    /\ call' = [call EXCEPT !.stage = "answered"]

(* Adapter refusals before anything is sent: an identifier that is not a   *)
(* number, a text too long to fold, an unsupported payload.                *)
AdapterRefuses ==
    /\ call.stage = "delivering"
    /\ Open(lastAction) /\ request[lastAction].attempts = 0
    /\ request' = [request EXCEPT ![lastAction].state = "ended"]
    /\ Answer(lastAction, "failed")
    /\ UNCHANGED <<world, lastAction, arrived, guardMaps>>

-----------------------------------------------------------------------------
(* QQ: the gateway process and its client.                                 *)

Arrives(a, shown) == arrived' = [arrived EXCEPT ![a] = @ + (IF shown THEN 1 ELSE 0)]

(* sendGroupReply, sendPrivateMessage: the answer once an attempt got one, *)
(* or once all of them failed; between attempts there is none.             *)
AfterAttempt(attempt) == IF attempt < RetryLimit THEN "running" ELSE "failed"

(* One attempt.  NapCat answers, or the call throws: its message was sent  *)
(* and the answer was lost, or it was not sent.                            *)
GatewayAttempt(a, shown, ok) ==
    /\ request[a].state = "running"
    /\ request[a].attempts < RetryLimit
    /\ ok => shown
    /\ Arrives(a, shown)
    /\ LET attempt == request[a].attempts + 1
       IN  request' = [request EXCEPT ![a].attempts = attempt,
                          ![a].state = IF ok THEN "sent" ELSE AfterAttempt(attempt)]
    /\ UNCHANGED <<world, call, lastAction, answer, guardMaps>>

(* The client reads the gateway's answer.                                  *)
GatewayAnswers ==
    /\ Delivering("qq") /\ request[lastAction].heard
    /\ request[lastAction].state \in {"sent", "failed"}
    /\ Answer(lastAction, request[lastAction].state)
    /\ request' = [request EXCEPT ![lastAction].state = "ended"]
    /\ UNCHANGED <<world, lastAction, arrived, guardMaps>>

(* Seeded fault: an exception of the adapter is reported as a failure.     *)
FailedForUnknown == "failed"
(* createMessageDelivery: an exception of the adapter.                     *)
StatusOfException == "delivery_unknown"

(* The client gives up after 30 s, the connection breaks or the gateway    *)
(* answers with an error; the gateway's handler is not told and goes on.   *)
ClientGivesUp ==
    /\ Delivering("qq")
    /\ request' = [request EXCEPT ![lastAction].heard = FALSE]
    /\ Answer(lastAction, StatusOfException)
    /\ UNCHANGED <<world, lastAction, arrived, guardMaps>>

(* The gateway process ends with what it was sending.                      *)
GatewayRestarts ==
    /\ \E a \in Actions : request[a].state = "running"
    /\ request' = [a \in Actions |->
          IF request[a].state = "running" THEN [request[a] EXCEPT !.state = "lost"] ELSE request[a]]
    /\ UNCHANGED <<world, call, lastAction, arrived, answer, guardMaps>>

(* Feishu: one call with the action as its idempotence key.  An explicit   *)
(* error code is a failure; no message id or no answer leaves it unknown.  *)
FeishuAnswers(shown, status) ==
    /\ Delivering("feishu")
    /\ status = "sent" => shown
    /\ status = "failed" => ~shown
    /\ Arrives(lastAction, shown)
    /\ request' = [request EXCEPT ![lastAction].state = "ended"]
    /\ Answer(lastAction, status)
    /\ UNCHANGED <<world, lastAction, guardMaps>>

-----------------------------------------------------------------------------
(* Seeded fault: only the conversation is remembered when the call starts. *)
RemembersNothing(t, at) == lastPrivateAmbientAt
RemembersPrivate(t, at) ==
    IF t.kind = "private" THEN [lastPrivateAmbientAt EXCEPT ![t] = at] ELSE lastPrivateAmbientAt

(* afterTool: only a confirmed send counts.                                *)
EndSend ==
    /\ call.stage = "answered"
    /\ call' = NoCall
    /\ IF answer[lastAction] = "sent" /\ ~IsReply(call.target, call.reply)
       THEN /\ lastPrivateAmbientAt' = RemembersPrivate(call.target, now)
            /\ lastAmbientTextAt' = [lastAmbientTextAt EXCEPT ![call.text] = now]
            /\ confirmed' = confirmed \cup {[action |-> lastAction, target |-> call.target,
                                             text |-> call.text, at |-> now]}
       ELSE UNCHANGED guardMaps
    /\ UNCHANGED <<world, lastAction, request, arrived, answer>>

SendNext ==
    \/ \E t \in Targets \cup {NoTarget} : OpenConversation(t)
    \/ \E t \in Targets : DirectoryChanges(t) \/ MailboxChanges(t)
    \/ ClockTicks
    \/ \E reply \in BOOLEAN, text \in Texts : BeginSend(reply, text)
    \/ RefuseSend
    \/ \E mentionsBot \in BOOLEAN : Deliver(mentionsBot)
    \/ AdapterRefuses
    \/ \E a \in Actions, shown \in BOOLEAN, ok \in BOOLEAN :
          GatewayAttempt(a, shown, ok)
    \/ GatewayAnswers
    \/ ClientGivesUp
    \/ GatewayRestarts
    \/ \E shown \in BOOLEAN, status \in {"sent", "failed", "delivery_unknown"} :
          FeishuAnswers(shown, status)
    \/ EndSend

SendSpec == SendInit /\ [][SendNext]_sendVars

-----------------------------------------------------------------------------
(* Properties.                                                             *)

SendTypeOK ==
    /\ focus \in Targets \cup {NoTarget}
    /\ call \in Calls \cup {NoCall}
    /\ request \in [Actions -> [attempts : 0..RetryLimit, heard : BOOLEAN,
          state : {"none", "running", "calling", "sent", "failed", "lost", "ended"}]]
    /\ answer \in [Actions -> {"none", "sent", "failed", "delivery_unknown"}]

(* The Agent may build on a definite answer: nothing works on an action    *)
(* any more that was answered sent or failed, whatever timed out or broke  *)
(* in between, and one answered sent has reached its conversation.         *)
OnlyUnknownIsOpen ==
    \A a \in Actions : answer[a] \in {"sent", "failed"} =>
        /\ ~Open(a)
        /\ answer[a] = "sent" => arrived[a] > 0

(* Ambient messages confirmed to the Agent keep their distance: two to one *)
(* private conversation the cooldown, two of the same text the duplicate   *)
(* window, although the mailbox that decides what is ambient, the focus    *)
(* and the clock move between the hook's checks.                           *)
AmbientSpacing ==
    \A c, d \in confirmed : c.action < d.action =>
        /\ c.target = d.target /\ c.target.kind = "private" => d.at - c.at >= PrivateCooldown
        /\ c.text = d.text /\ c.text # NoText => d.at - c.at >= DuplicateWindow

(* Every request and answer has its type, a definite answer is final, and  *)
(* confirmed ambient messages keep their distance (send-policy.ts).        *)
SendInv == SendTypeOK /\ OnlyUnknownIsOpen /\ AmbientSpacing

(* docs/TOOLS.md:67 says that a failed or unknown delivery is never        *)
(* retried: one action reaches its conversation at most once.  The gateway *)
(* retries when only the answer of its first attempt was lost.             *)
DeliveredOncePerAction == \A a \in Actions : arrived[a] <= 1
=============================================================================
