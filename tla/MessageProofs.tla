---------------------------- MODULE MessageProofs ----------------------------
(***************************************************************************)
(* Proofs about what a message goes through beside its delivery: sending,  *)
(* for any conversations, texts, windows and retries; the pictures and     *)
(* their retention; the browser's pages; the gateway of Feishu; the rounds *)
(* with their tools; and the attention mailboxes are owed across           *)
(* compactions.                                                            *)
(***************************************************************************)
EXTENDS MCMessageFaults, MailboxDeliveryProofs, FiniteSetTheorems, SequenceTheorems, WellFoundedInduction, TLAPS

-----------------------------------------------------------------------------
(* Sending: the inductive invariant.                                       *)

Confirmed == [action : Actions, target : Targets, text : Texts, at : Nat]

(* What SendTypeOK leaves out.                                             *)
SendRangesOK ==
    /\ lastAction \in 0..MaxActions /\ now \in Nat
    /\ arrived \in [Actions -> Nat]
    /\ lastPrivateAmbientAt \in [Targets -> Int] /\ lastAmbientTextAt \in [Texts -> Int]
    /\ confirmed \in SUBSET Confirmed

(* What the gateway sent has arrived; an action not given out has neither  *)
(* request nor answer.                                                     *)
RequestsAreHonest ==
    \A a \in Actions :
        /\ request[a].state = "sent" => arrived[a] > 0
        /\ a > lastAction => request[a].state = "none" /\ answer[a] = "none"

(* A call under way has an action of its own once it is delivered.         *)
CallHasAction ==
    call # NoCall /\ call.stage # "asked" =>
        lastAction \in Actions /\ \A c \in confirmed : c.action < lastAction

(* The hook's maps hold the last confirmed message of each kind.           *)
MapsHoldLast ==
    \A c \in confirmed :
        /\ c.action <= lastAction /\ c.at <= now
        /\ c.target.kind = "private" => c.at <= lastPrivateAmbientAt[c.target]
        /\ c.at <= lastAmbientTextAt[c.text]

(* What the hook let through stays let through until the call ends.        *)
LetThrough ==
    call # NoCall /\ ~IsReply(call.target, call.reply) => ~TooSoon(call.target, call.text)

SendInd == SendInv /\ SendRangesOK /\ RequestsAreHonest /\ CallHasAction /\ MapsHoldLast /\ LetThrough

(* The hook's guard in the terms of the proof: what is not too soon keeps  *)
(* both distances.                                                         *)
LEMMA NotTooSoon ==
    ASSUME SendRangesOK, NEW t \in Targets, NEW x \in Texts
    PROVE  TooSoon(t, x) <=> \/ x # NoText /\ now - lastAmbientTextAt[x] < DuplicateWindow
                             \/ t.kind = "private" /\ now - lastPrivateAmbientAt[t] < PrivateCooldown
BY SendAssumption DEF TooSoon

(* At the start there is neither a call nor a request.                     *)
LEMMA SendStarts == SendInit => SendInd
<1> SUFFICES ASSUME SendInit PROVE SendInd OBVIOUS
<1> USE SendAssumption DEF SendInit
<1>1. Never \in Int BY DEF Never
<1>2. NoRequest \in [attempts : 0..RetryLimit, heard : BOOLEAN,
          state : {"none", "running", "calling", "sent", "failed", "lost", "ended"}]
  BY DEF NoRequest
<1>3. SendTypeOK BY <1>2 DEF SendTypeOK
<1>4. SendRangesOK BY <1>1 DEF SendRangesOK
<1>5. SendInv BY <1>3 DEF SendInv, OnlyUnknownIsOpen, AmbientSpacing
<1>6. RequestsAreHonest BY DEF RequestsAreHonest, NoRequest
<1> QED BY <1>4, <1>5, <1>6 DEF SendInd, CallHasAction, MapsHoldLast, LetThrough

(* Who is in a call is told by its stage.                                  *)
LEMMA CallIsKnown ==
    ASSUME SendTypeOK
    PROVE  /\ call.stage # "none" => call \in Calls /\ call # NoCall
           /\ call # NoCall => call \in Calls
BY DEF SendTypeOK, NoCall, Calls

(* Steps around the call: focus, directories, mailbox and clock.           *)
LEMMA WorldSteps ==
    ASSUME SendInd,
           UNCHANGED <<lastAction, request, arrived, answer, guardMaps>>,
           UNCHANGED call, focus' \in Targets \cup {NoTarget},
           call # NoCall => UNCHANGED awaitingReply,
           now' \in Nat, now' >= now
    PROVE  SendInd'
<1> USE SendAssumption DEF SendInd, SendInv, guardMaps
<1>1. SendTypeOK' BY DEF SendTypeOK
<1>2. SendRangesOK' BY DEF SendRangesOK
<1>3. OnlyUnknownIsOpen' BY DEF OnlyUnknownIsOpen, Open
<1>4. AmbientSpacing' BY DEF AmbientSpacing
<1>5. RequestsAreHonest' BY DEF RequestsAreHonest
<1>6. CallHasAction' BY DEF CallHasAction
<1>7. MapsHoldLast'
  <2> SUFFICES ASSUME NEW c \in confirmed
               PROVE  /\ c.action <= lastAction /\ c.at <= now'
                      /\ c.target.kind = "private" => c.at <= lastPrivateAmbientAt[c.target]
                      /\ c.at <= lastAmbientTextAt[c.text]
    BY DEF MapsHoldLast
  <2>1. c.at \in Nat /\ now \in Nat /\ c.at <= now BY DEF SendRangesOK, Confirmed, MapsHoldLast
  <2> QED BY <2>1 DEF MapsHoldLast
<1>8. LetThrough'
  <2> SUFFICES ASSUME call # NoCall, ~IsReply(call.target, call.reply)'
               PROVE  ~TooSoon(call.target, call.text)'
    BY DEF LetThrough
  <2>1. call \in Calls BY CallIsKnown
  <2>2. call.target \in Targets /\ call.text \in Texts BY <2>1 DEF Calls
  <2>3. ~IsReply(call.target, call.reply) BY DEF IsReply
  <2>4. ~TooSoon(call.target, call.text) BY <2>3 DEF LetThrough
  <2>5. /\ lastAmbientTextAt[call.text] \in Int /\ lastPrivateAmbientAt[call.target] \in Int
        /\ now \in Nat
    BY <2>2 DEF SendRangesOK
  <2> QED BY <2>2, <2>4, <2>5 DEF TooSoon
<1> QED BY <1>1, <1>2, <1>3, <1>4, <1>5, <1>6, <1>7, <1>8

(* The call begins: the hook has looked, and its conversation is reachable. *)
LEMMA SendBegins ==
    ASSUME SendInd, NEW reply \in BOOLEAN, NEW text \in Texts, BeginSend(reply, text)
    PROVE  SendInd'
<1>1. CASE focus \notin reachable
  <2>1. focus' = NoTarget /\ UNCHANGED call BY <1>1 DEF BeginSend
  <2>2. now \in Nat /\ now <= now BY DEF SendInd, SendRangesOK
  <2> QED BY <2>1, <2>2, WorldSteps DEF BeginSend
<1>2. CASE focus \in reachable
  <2> DEFINE new == [stage |-> "asked", target |-> focus, reply |-> reply, text |-> text]
  <2>1. /\ call = NoCall /\ call' = new /\ focus \in Targets
        /\ IsReply(focus, reply) \/ ~TooSoon(focus, text)
        /\ UNCHANGED <<focus, awaitingReply, now, lastAction, request, arrived, answer, guardMaps>>
    BY <1>2 DEF BeginSend, SendInd, SendInv, SendTypeOK
  <2> USE <2>1 DEF SendInd, SendInv, guardMaps
  <2>2. new \in Calls BY DEF Calls
  <2>3. SendTypeOK' BY <2>2 DEF SendTypeOK
  <2>4. SendRangesOK' BY DEF SendRangesOK
  <2>5. OnlyUnknownIsOpen' /\ AmbientSpacing' BY DEF OnlyUnknownIsOpen, Open, AmbientSpacing
  <2>6. RequestsAreHonest' BY DEF RequestsAreHonest
  <2>7. CallHasAction' BY DEF CallHasAction
  <2>8. MapsHoldLast' BY DEF MapsHoldLast
  <2>9. LetThrough' BY DEF LetThrough, IsReply, TooSoon
  <2> QED BY <2>3, <2>4, <2>5, <2>6, <2>7, <2>8, <2>9
<1> QED BY <1>1, <1>2

(* A call leaves for its delivery, is answered or is given up: nothing the  *)
(* hook knows changes, and what is let through stays so.                   *)
LEMMA CallGoesOn ==
    ASSUME SendInd, UNCHANGED <<world, guardMaps>>,
           lastAction' \in lastAction..MaxActions,
           call' = NoCall \/ \E s \in {"asked", "delivering", "answered"} :
                                 call \in Calls /\ call' = [call EXCEPT !.stage = s]
    PROVE  MapsHoldLast' /\ LetThrough' /\ AmbientSpacing'
           /\ call' \in Calls \cup {NoCall}
<1> USE SendAssumption DEF SendInd, SendInv, guardMaps, world
<1>1. MapsHoldLast'
  <2> SUFFICES ASSUME NEW c \in confirmed
               PROVE  c.action <= lastAction'
    BY DEF MapsHoldLast
  <2>1. c.action \in Int /\ lastAction \in Int /\ c.action <= lastAction
    BY DEF SendRangesOK, Confirmed, MapsHoldLast, Actions
  <2> QED BY <2>1
<1>2. AmbientSpacing' BY DEF AmbientSpacing
<1>3. call' \in Calls \cup {NoCall} BY DEF Calls
<1>4. LetThrough'
  <2> SUFFICES ASSUME call' # NoCall PROVE LetThrough' BY DEF LetThrough
  <2>1. /\ call \in Calls /\ call'.target = call.target /\ call'.reply = call.reply
        /\ call'.text = call.text
    BY DEF Calls
  <2>2. call # NoCall BY <2>1 DEF Calls, NoCall
  <2> QED BY <2>1, <2>2 DEF LetThrough, IsReply, TooSoon
<1> QED BY <1>1, <1>2, <1>3, <1>4

(* The call is refused before it has an action.                            *)
LEMMA SendRefused == SendInd /\ RefuseSend => SendInd'
<1> SUFFICES ASSUME SendInd, RefuseSend PROVE SendInd' OBVIOUS
<1> USE DEF RefuseSend
<1>1. lastAction' \in lastAction..MaxActions BY SendAssumption DEF SendInd, SendRangesOK
<1>2. MapsHoldLast' /\ LetThrough' /\ AmbientSpacing' /\ call' \in Calls \cup {NoCall}
  BY <1>1, CallGoesOn
<1> USE DEF SendInd, SendInv, world, guardMaps
<1>3. SendTypeOK' BY <1>2 DEF SendTypeOK
<1>4. SendRangesOK' BY DEF SendRangesOK
<1>5. OnlyUnknownIsOpen' BY DEF OnlyUnknownIsOpen, Open
<1>6. RequestsAreHonest' BY DEF RequestsAreHonest
<1>7. CallHasAction' BY DEF CallHasAction
<1> QED BY <1>2, <1>3, <1>4, <1>5, <1>6, <1>7

(* The call gets its action, which nothing knew before.                    *)
LEMMA SendDelivered ==
    ASSUME SendInd, NEW mentionsBot \in BOOLEAN, Deliver(mentionsBot)
    PROVE  SendInd'
<1> DEFINE new == [attempts |-> 0, state |-> FirstState(call.target), heard |-> TRUE]
           a == lastAction + 1
<1>0. /\ call.stage = "asked" /\ lastAction < MaxActions /\ lastAction' = a
      /\ call' = [call EXCEPT !.stage = "delivering"]
      /\ request' = [request EXCEPT ![a] = new]
      /\ UNCHANGED <<world, arrived, answer, guardMaps>>
  BY DEF Deliver
<1> USE SendAssumption
<1>1. lastAction \in 0..MaxActions /\ a \in Actions BY <1>0 DEF SendInd, SendRangesOK, Actions
<1>2. lastAction' \in lastAction..MaxActions BY <1>0, <1>1 DEF Actions
<1>3. call \in Calls BY <1>0, CallIsKnown DEF SendInd, SendInv
<1>4. MapsHoldLast' /\ LetThrough' /\ AmbientSpacing' /\ call' \in Calls \cup {NoCall}
  BY <1>0, <1>2, <1>3, CallGoesOn
<1> USE <1>0, <1>1 DEF SendInd, SendInv, world, guardMaps
<1>5. SendTypeOK' BY <1>4 DEF SendTypeOK, FirstState
<1>6. SendRangesOK' BY <1>2 DEF SendRangesOK
<1>7. OnlyUnknownIsOpen'
  <2> SUFFICES ASSUME NEW b \in Actions, answer[b] \in {"sent", "failed"}
               PROVE  ~(request'[b].state \in {"running", "calling"}) /\ (answer[b] = "sent" => arrived[b] > 0)
    BY DEF OnlyUnknownIsOpen, Open
  <2>1. b # a BY DEF RequestsAreHonest, Actions
  <2>2. request'[b] = request[b] BY <2>1 DEF SendTypeOK
  <2> QED BY <2>2 DEF OnlyUnknownIsOpen, Open
<1>8. RequestsAreHonest'
  <2> SUFFICES ASSUME NEW b \in Actions
               PROVE  /\ request'[b].state = "sent" => arrived[b] > 0
                      /\ b > a => request'[b].state = "none" /\ answer[b] = "none"
    BY DEF RequestsAreHonest
  <2>1. CASE b = a BY <2>1 DEF SendTypeOK, FirstState, Actions
  <2>2. CASE b # a BY <2>2 DEF SendTypeOK, RequestsAreHonest, Actions
  <2> QED BY <2>1, <2>2
<1>9. CallHasAction'
  <2> SUFFICES ASSUME NEW c \in confirmed PROVE c.action < a
    BY DEF CallHasAction
  <2>1. c.action \in Int /\ c.action <= lastAction
    BY DEF MapsHoldLast, SendRangesOK, Confirmed, Actions
  <2> QED BY <2>1
<1> QED BY <1>4, <1>5, <1>6, <1>7, <1>8, <1>9

Requests == [attempts : 0..RetryLimit, heard : BOOLEAN,
             state : {"none", "running", "calling", "sent", "failed", "lost", "ended"}]
Statuses == {"none", "sent", "failed", "delivery_unknown"}

(* The request of an action given out moves on, and its call may be        *)
(* answered: what the request is said to have done, it has done.           *)
LEMMA RequestMoves ==
    ASSUME SendInd, NEW a \in Actions, a <= lastAction, NEW r \in Requests, NEW status \in Statuses,
           request' = [request EXCEPT ![a] = r], answer' = [answer EXCEPT ![a] = status],
           arrived' \in [Actions -> Nat], \A b \in Actions : arrived'[b] >= arrived[b],
           r.state = "sent" => arrived'[a] > 0, status = "sent" => arrived'[a] > 0,
           r.state \in {"running", "calling"} => status \in {"none", "delivery_unknown"},
           UNCHANGED <<world, lastAction, guardMaps>>,
           UNCHANGED call \/ (call.stage = "delivering" /\ call' = [call EXCEPT !.stage = "answered"])
    PROVE  SendInd'
<1> USE SendAssumption DEF SendInd, SendInv
<1>1. lastAction' \in lastAction..MaxActions BY DEF SendRangesOK
<1>2. MapsHoldLast' /\ LetThrough' /\ AmbientSpacing' /\ call' \in Calls \cup {NoCall}
  <2>1. CASE call' = NoCall BY <2>1, <1>1, CallGoesOn
  <2>2. CASE call' # NoCall /\ UNCHANGED call
    <3>1. call \in Calls BY <2>2, CallIsKnown
    <3>2. call.stage \in {"asked", "delivering", "answered"} /\ call' = [call EXCEPT !.stage = call.stage]
      BY <2>2, <3>1 DEF Calls
    <3> QED BY <3>1, <3>2, <1>1, CallGoesOn
  <2>3. CASE call.stage = "delivering" /\ call' = [call EXCEPT !.stage = "answered"]
    <3>1. call \in Calls BY <2>3, CallIsKnown
    <3> QED BY <2>3, <3>1, <1>1, CallGoesOn
  <2> QED BY <2>1, <2>2, <2>3
<1> USE DEF world, guardMaps
<1>3. SendTypeOK' BY <1>2 DEF SendTypeOK, Requests, Statuses
<1>4. SendRangesOK' BY DEF SendRangesOK
<1>5. \A b \in Actions : arrived[b] \in Nat /\ arrived'[b] \in Nat BY DEF SendRangesOK
<1>6. \A b \in Actions : /\ request'[b] = (IF b = a THEN r ELSE request[b])
                         /\ answer'[b] = (IF b = a THEN status ELSE answer[b])
  BY DEF SendTypeOK
<1>7. OnlyUnknownIsOpen'
  <2> SUFFICES ASSUME NEW b \in Actions, answer'[b] \in {"sent", "failed"}
               PROVE  request'[b].state \notin {"running", "calling"}
                      /\ (answer'[b] = "sent" => arrived'[b] > 0)
    BY DEF OnlyUnknownIsOpen, Open
  <2>1. CASE b = a BY <2>1, <1>6
  <2>2. CASE b # a BY <2>2, <1>5, <1>6 DEF OnlyUnknownIsOpen, Open
  <2> QED BY <2>1, <2>2
<1>8. RequestsAreHonest'
  <2> SUFFICES ASSUME NEW b \in Actions
               PROVE  /\ request'[b].state = "sent" => arrived'[b] > 0
                      /\ b > lastAction => request'[b].state = "none" /\ answer'[b] = "none"
    BY DEF RequestsAreHonest
  <2>1. CASE b = a BY <2>1, <1>6 DEF SendRangesOK, Actions
  <2>2. CASE b # a BY <2>2, <1>5, <1>6 DEF RequestsAreHonest
  <2> QED BY <2>1, <2>2
<1>9. CallHasAction'
  <2>1. call'.stage # "asked" /\ call' # NoCall => call.stage # "asked" /\ call # NoCall
    BY DEF NoCall, Calls
  <2> QED BY <2>1 DEF CallHasAction
<1> QED BY <1>2, <1>3, <1>4, <1>7, <1>8, <1>9

(* A message reaches its conversation, or does not: none is taken back.     *)
LEMMA ArrivingCounts ==
    ASSUME SendInd, NEW a \in Actions, NEW reaches \in BOOLEAN, Arrives(a, reaches)
    PROVE  /\ arrived' \in [Actions -> Nat] /\ \A b \in Actions : arrived'[b] >= arrived[b]
           /\ reaches => arrived'[a] > 0
<1>1. arrived \in [Actions -> Nat] BY DEF SendInd, SendRangesOK
<1>2. CASE reaches BY <1>1, <1>2 DEF Arrives
<1>3. CASE ~reaches BY <1>1, <1>3 DEF Arrives
<1> QED BY <1>2, <1>3

(* A call that is being delivered has the last action.                     *)
LEMMA DeliveringHasAction ==
    ASSUME SendInd, call.stage = "delivering"
    PROVE  /\ lastAction \in Actions /\ lastAction <= lastAction
           /\ request[lastAction] \in Requests
           /\ \A s \in {"ended"} : [request[lastAction] EXCEPT !.state = s] \in Requests
           /\ \A h \in BOOLEAN : [request[lastAction] EXCEPT !.heard = h] \in Requests
<1>1. lastAction \in Actions
  BY CallIsKnown DEF SendInd, SendInv, CallHasAction
<1>2. request[lastAction] \in Requests BY <1>1 DEF SendInd, SendInv, SendTypeOK, Requests
<1>3. lastAction <= lastAction BY <1>1 DEF Actions
<1> QED BY <1>1, <1>2, <1>3 DEF Requests

(* The adapter refuses, the gateway answers, its client gives up, Feishu   *)
(* answers: what the tool is told is so.                                   *)
LEMMA SendAnswered ==
    ASSUME SendInd,
           \/ AdapterRefuses \/ GatewayAnswers \/ ClientGivesUp
           \/ \E reaches \in BOOLEAN, status \in {"sent", "failed", "delivery_unknown"} :
                 FeishuAnswers(reaches, status)
    PROVE  SendInd'
<1>0. call.stage = "delivering"
  BY DEF AdapterRefuses, GatewayAnswers, ClientGivesUp, FeishuAnswers, Delivering
<1>a. PICK a \in Actions : a = lastAction BY <1>0, DeliveringHasAction
<1>1. /\ a <= lastAction /\ request[a] \in Requests
      /\ [request[a] EXCEPT !.state = "ended"] \in Requests
      /\ [request[a] EXCEPT !.heard = FALSE] \in Requests
  BY <1>a, <1>0, DeliveringHasAction
<1>2. UNCHANGED arrived => arrived' \in [Actions -> Nat] /\ \A b \in Actions : arrived'[b] >= arrived[b]
  BY DEF SendInd, SendRangesOK
<1>3. request \in [Actions -> Requests]
  BY DEF SendInd, SendInv, SendTypeOK, Requests
<1>4. CASE AdapterRefuses
  <2> DEFINE r == [request[a] EXCEPT !.state = "ended"]
  <2>1. /\ request' = [request EXCEPT ![a] = r] /\ answer' = [answer EXCEPT ![a] = "failed"]
        /\ call' = [call EXCEPT !.stage = "answered"]
        /\ UNCHANGED <<world, lastAction, arrived, guardMaps>>
    BY <1>a, <1>4 DEF AdapterRefuses, Answer
  <2>2. r \in Requests /\ r.state = "ended" BY <1>1 DEF Requests
  <2> HIDE DEF r
  <2> QED BY <1>0, <1>1, <1>2, <2>1, <2>2, RequestMoves DEF Statuses
<1>5. CASE GatewayAnswers
  <2> DEFINE r == [request[a] EXCEPT !.state = "ended"]
             status == request[a].state
  <2>1. /\ request' = [request EXCEPT ![a] = r] /\ answer' = [answer EXCEPT ![a] = status]
        /\ call' = [call EXCEPT !.stage = "answered"] /\ status \in {"sent", "failed"}
        /\ UNCHANGED <<world, lastAction, arrived, guardMaps>>
    BY <1>a, <1>5 DEF GatewayAnswers, Answer
  <2>2. r \in Requests /\ r.state = "ended" BY <1>1 DEF Requests
  <2>3. status = "sent" => arrived[a] > 0 BY <1>1 DEF SendInd, RequestsAreHonest
  <2> HIDE DEF r, status
  <2> QED BY <1>0, <1>1, <1>2, <2>1, <2>2, <2>3, RequestMoves DEF Statuses
<1>6. CASE ClientGivesUp
  <2> DEFINE r == [request[a] EXCEPT !.heard = FALSE]
  <2>1. /\ request' = [request EXCEPT ![a] = r]
        /\ answer' = [answer EXCEPT ![a] = "delivery_unknown"]
        /\ call' = [call EXCEPT !.stage = "answered"]
        /\ UNCHANGED <<world, lastAction, arrived, guardMaps>>
    BY <1>a, <1>6 DEF ClientGivesUp, Answer, StatusOfException
  <2>2. r \in Requests /\ r.state = request[a].state BY <1>1 DEF Requests
  <2>3. r.state = "sent" => arrived[a] > 0 BY <1>1, <2>2 DEF SendInd, RequestsAreHonest
  <2> HIDE DEF r
  <2> QED BY <1>0, <1>1, <1>2, <2>1, <2>2, <2>3, RequestMoves DEF Statuses
<1>7. ASSUME NEW reaches \in BOOLEAN, NEW status \in {"sent", "failed", "delivery_unknown"},
             FeishuAnswers(reaches, status)
      PROVE  SendInd'
  <2> DEFINE r == [request[a] EXCEPT !.state = "ended"]
  <2>1. /\ request' = [request EXCEPT ![a] = r] /\ answer' = [answer EXCEPT ![a] = status]
        /\ call' = [call EXCEPT !.stage = "answered"] /\ Arrives(a, reaches)
        /\ status = "sent" => reaches
        /\ UNCHANGED <<world, lastAction, guardMaps>>
    BY <1>a, <1>7 DEF FeishuAnswers, Answer
  <2>2. /\ arrived' \in [Actions -> Nat] /\ \A b \in Actions : arrived'[b] >= arrived[b]
        /\ reaches => arrived'[a] > 0
    BY <1>1, <2>1, ArrivingCounts
  <2>3. r \in Requests /\ r.state = "ended" BY <1>1 DEF Requests
  <2> HIDE DEF r
  <2> QED BY <1>0, <1>1, <2>1, <2>2, <2>3, RequestMoves DEF Statuses
<1> QED BY <1>4, <1>5, <1>6, <1>7

(* One attempt of the gateway, for a call that waits or gave up long ago.   *)
LEMMA GatewayTries ==
    ASSUME SendInd, NEW a \in Actions, NEW reaches \in BOOLEAN, NEW ok \in BOOLEAN,
           GatewayAttempt(a, reaches, ok)
    PROVE  SendInd'
<1> DEFINE attempt == request[a].attempts + 1
           next == IF ok THEN "sent" ELSE AfterAttempt(attempt)
           r == [[request[a] EXCEPT !.attempts = attempt] EXCEPT !.state = next]
<1>1. /\ request[a].state = "running" /\ request[a].attempts < RetryLimit /\ (ok => reaches)
      /\ Arrives(a, reaches) /\ request' = [request EXCEPT ![a] = r]
      /\ UNCHANGED <<world, call, lastAction, answer, guardMaps>>
  BY DEF GatewayAttempt, SendInd, SendInv, SendTypeOK
<1>2. request[a] \in Requests /\ answer[a] \in Statuses /\ answer = [answer EXCEPT ![a] = answer[a]]
  BY DEF SendInd, SendInv, SendTypeOK, Requests, Statuses
<1>3. next \in {"sent", "running", "failed"} /\ (next = "sent" <=> ok) BY DEF AfterAttempt
<1> HIDE DEF next
<1>8. attempt \in 0..RetryLimit BY <1>1, <1>2, SendAssumption DEF Requests
<1> HIDE DEF attempt
<1>4. r \in Requests /\ r.state = next BY <1>2, <1>3, <1>8 DEF Requests
<1>5. /\ arrived' \in [Actions -> Nat] /\ \A b \in Actions : arrived'[b] >= arrived[b]
      /\ reaches => arrived'[a] > 0
  BY <1>1, ArrivingCounts
<1>6. answer[a] \in {"none", "delivery_unknown"}
  BY <1>1, <1>2 DEF SendInd, SendInv, OnlyUnknownIsOpen, Open, Statuses
<1>7. a <= lastAction
  BY <1>1 DEF SendInd, SendRangesOK, RequestsAreHonest, Actions
<1> HIDE DEF r
<1> QED BY <1>1, <1>2, <1>3, <1>4, <1>5, <1>6, <1>7, RequestMoves

(* The gateway process ends: nothing it sent is taken back, and nothing is  *)
(* answered.                                                               *)
LEMMA GatewayEnds == SendInd /\ GatewayRestarts => SendInd'
<1> SUFFICES ASSUME SendInd, GatewayRestarts PROVE SendInd' OBVIOUS
<1> USE DEF GatewayRestarts, SendInd, SendInv, world, guardMaps
<1>1. \A a \in Actions :
         /\ request[a] \in Requests
         /\ request'[a] = IF request[a].state = "running" THEN [request[a] EXCEPT !.state = "lost"]
                          ELSE request[a]
  BY DEF SendTypeOK, Requests
<1>2. \A a \in Actions :
         /\ request'[a] \in Requests
         /\ request[a].state = "none" => request'[a].state = "none"
         /\ request'[a].state \notin {"lost"} => request'[a].state = request[a].state
  BY <1>1 DEF Requests
<1>3. request' \in [Actions -> Requests]
  BY <1>2
<1>4. SendTypeOK' BY <1>3 DEF SendTypeOK, Requests
<1>5. SendRangesOK' BY DEF SendRangesOK
<1>6. OnlyUnknownIsOpen' BY <1>2 DEF OnlyUnknownIsOpen, Open
<1>7. RequestsAreHonest' BY <1>2 DEF RequestsAreHonest
<1>8. AmbientSpacing' /\ CallHasAction' /\ MapsHoldLast'
  BY DEF AmbientSpacing, CallHasAction, MapsHoldLast
<1>9. LetThrough' BY DEF LetThrough, IsReply, TooSoon
<1> QED BY <1>4, <1>5, <1>6, <1>7, <1>8, <1>9

(* The call ends: a confirmed ambient message is as far from those before   *)
(* it as the hook found when the call began, or further.                   *)
LEMMA SendEnds == SendInd /\ EndSend => SendInd'
<1> SUFFICES ASSUME SendInd, EndSend PROVE SendInd' OBVIOUS
<1> USE SendAssumption
<1>1. /\ call.stage = "answered" /\ call' = NoCall
      /\ UNCHANGED <<world, lastAction, request, arrived, answer>>
  BY DEF EndSend
<1>2. /\ call \in Calls /\ call # NoCall /\ lastAction \in Actions
      /\ \A c \in confirmed : c.action < lastAction
  BY <1>1, CallIsKnown DEF SendInd, SendInv, CallHasAction
<1>3. SendTypeOK' BY <1>1 DEF SendInd, SendInv, SendTypeOK, world
<1>4. OnlyUnknownIsOpen' BY <1>1 DEF SendInd, SendInv, OnlyUnknownIsOpen, Open
<1>5. RequestsAreHonest' BY <1>1 DEF SendInd, RequestsAreHonest
<1>6. CallHasAction' /\ LetThrough' BY <1>1 DEF CallHasAction, LetThrough
<1>7. CASE answer[lastAction] = "sent" /\ ~IsReply(call.target, call.reply)
  <2> DEFINE t == call.target  x == call.text
             new == [action |-> lastAction, target |-> t, text |-> x, at |-> now]
  <2>1. t \in Targets /\ x \in Texts /\ now \in Nat BY <1>2 DEF Calls, SendInd, SendRangesOK
  <2>2. /\ lastPrivateAmbientAt' = RemembersPrivate(t, now)
        /\ lastAmbientTextAt' = [lastAmbientTextAt EXCEPT ![x] = now]
        /\ confirmed' = confirmed \cup {new} /\ now' = now /\ lastAction' = lastAction
    BY <1>1, <1>7 DEF EndSend, world
  <2>3. ~TooSoon(t, x) BY <1>2, <1>7 DEF SendInd, LetThrough
  <2>4. /\ x # NoText => now - lastAmbientTextAt[x] >= DuplicateWindow
        /\ t.kind = "private" => now - lastPrivateAmbientAt[t] >= PrivateCooldown
    BY <2>1, <2>3, NotTooSoon DEF SendInd, SendRangesOK
  <2>5. new \in Confirmed BY <2>1, <1>2 DEF Confirmed
  <2>6. /\ lastAmbientTextAt \in [Texts -> Int] /\ lastPrivateAmbientAt \in [Targets -> Int]
        /\ confirmed \subseteq Confirmed
    BY DEF SendInd, SendRangesOK
  <2>7. SendRangesOK'
    BY <1>1, <2>1, <2>2, <2>5, <2>6 DEF SendInd, SendRangesOK, RemembersPrivate
  <2>8. \A c \in confirmed :
           /\ c \in Confirmed /\ c.action < lastAction /\ c.at <= now
           /\ c.target.kind = "private" => c.at <= lastPrivateAmbientAt[c.target]
           /\ c.at <= lastAmbientTextAt[c.text]
    BY <1>2, <2>6 DEF SendInd, MapsHoldLast
  <2> HIDE DEF new
  <2>9. MapsHoldLast'
    <3> SUFFICES ASSUME NEW c \in confirmed'
                 PROVE  /\ c.action <= lastAction /\ c.at <= now
                        /\ c.target.kind = "private" => c.at <= lastPrivateAmbientAt'[c.target]
                        /\ c.at <= lastAmbientTextAt'[c.text]
      BY <2>2 DEF MapsHoldLast
    <3>1. CASE c = new
      BY <3>1, <2>1, <2>2, <2>6, <1>2 DEF RemembersPrivate, new, Actions
    <3>2. CASE c \in confirmed
      <4>1. /\ c.action \in Int /\ c.at \in Nat /\ c.target \in Targets /\ c.text \in Texts
            /\ c.action < lastAction /\ c.at <= now
        BY <3>2, <2>8 DEF Confirmed, Actions
      <4>2. c.at <= lastAmbientTextAt'[c.text]
        BY <3>2, <4>1, <2>1, <2>2, <2>6, <2>8
      <4>3. c.target.kind = "private" => c.at <= lastPrivateAmbientAt'[c.target]
        BY <3>2, <4>1, <2>1, <2>2, <2>6, <2>8 DEF RemembersPrivate
      <4>4. lastAction \in Int BY <1>2 DEF Actions
      <4> QED BY <4>1, <4>2, <4>3, <4>4
    <3> QED BY <3>1, <3>2, <2>2
  <2>10. AmbientSpacing'
    <3> SUFFICES ASSUME NEW c \in confirmed', NEW d \in confirmed', c.action < d.action
                 PROVE  /\ c.target = d.target /\ c.target.kind = "private" => d.at - c.at >= PrivateCooldown
                        /\ c.text = d.text /\ c.text # NoText => d.at - c.at >= DuplicateWindow
      BY DEF AmbientSpacing
    <3>1. CASE c \in confirmed /\ d \in confirmed
      BY <3>1 DEF SendInd, SendInv, AmbientSpacing
    <3>2. CASE c = new
      <4>1. d.action <= lastAction BY <2>2, <2>8, <1>2 DEF new, Confirmed, Actions
      <4> QED BY <3>2, <4>1, <2>2, <2>8, <1>2 DEF new, Confirmed, Actions
    <3>3. CASE c \in confirmed /\ d = new
      <4>1. c.at \in Nat /\ c.target \in Targets /\ c.text \in Texts BY <3>3, <2>8 DEF Confirmed
      <4>2. d.at = now /\ d.target = t /\ d.text = x BY <3>3 DEF new
      <4>3. lastAmbientTextAt[x] \in Int /\ lastPrivateAmbientAt[t] \in Int BY <2>1, <2>6
      <4> HIDE DEF t, x
      <4> QED BY <3>3, <4>1, <4>2, <4>3, <2>1, <2>4, <2>8
    <3> QED BY <3>1, <3>2, <3>3, <2>2
  <2> QED BY <1>3, <1>4, <1>5, <1>6, <2>7, <2>9, <2>10 DEF SendInd, SendInv
<1>8. CASE ~(answer[lastAction] = "sent" /\ ~IsReply(call.target, call.reply))
  <2>1. UNCHANGED guardMaps BY <1>8 DEF EndSend
  <2>2. SendRangesOK' BY <1>1, <2>1 DEF SendInd, SendRangesOK, world, guardMaps
  <2>3. AmbientSpacing' /\ MapsHoldLast'
    BY <1>1, <2>1 DEF SendInd, SendInv, AmbientSpacing, MapsHoldLast, world, guardMaps
  <2> QED BY <1>3, <1>4, <1>5, <1>6, <2>2, <2>3 DEF SendInd, SendInv
<1> QED BY <1>7, <1>8

(* send-policy.ts, tools/send-message.ts and the gateways: for any number   *)
(* of conversations and texts, any windows and any number of retries, what  *)
(* the Agent is told for certain is so and stays so, and ambient messages   *)
(* keep their distance.                                                    *)
THEOREM SendIsSound == SendSpec => []SendInv
<1>1. SendInit => SendInd BY SendStarts
<1>2. SendInd /\ [SendNext]_sendVars => SendInd'
  <2> SUFFICES ASSUME SendInd, [SendNext]_sendVars PROVE SendInd' OBVIOUS
  <2>0. now \in Nat /\ focus \in Targets \cup {NoTarget} /\ now <= now
    BY DEF SendInd, SendInv, SendTypeOK, SendRangesOK
  <2>1. CASE UNCHANGED sendVars BY <2>0, <2>1, WorldSteps DEF sendVars, guardMaps
  <2>2. ASSUME NEW t \in Targets \cup {NoTarget}, OpenConversation(t) PROVE SendInd'
    <3>1. focus' \in Targets \cup {NoTarget} BY <2>2 DEF OpenConversation
    <3> QED BY <3>1, <2>0, <2>2, WorldSteps DEF OpenConversation
  <2>3. ASSUME NEW t \in Targets, DirectoryChanges(t) \/ MailboxChanges(t) PROVE SendInd'
    BY <2>0, <2>3, WorldSteps DEF DirectoryChanges, MailboxChanges
  <2>4. CASE ClockTicks
    <3>1. now' \in Nat /\ now <= now' /\ now' >= now BY <2>0, <2>4 DEF ClockTicks
    <3> QED BY <3>1, <2>0, <2>4, WorldSteps DEF ClockTicks
  <2>5. ASSUME NEW reply \in BOOLEAN, NEW text \in Texts, BeginSend(reply, text) PROVE SendInd'
    BY <2>5, SendBegins
  <2>6. CASE RefuseSend BY <2>6, SendRefused
  <2>7. ASSUME NEW mentionsBot \in BOOLEAN, Deliver(mentionsBot) PROVE SendInd'
    BY <2>7, SendDelivered
  <2>8. CASE AdapterRefuses BY <2>8, SendAnswered
  <2>9. ASSUME NEW a \in Actions, NEW reaches \in BOOLEAN, NEW ok \in BOOLEAN,
               GatewayAttempt(a, reaches, ok)
        PROVE  SendInd'
    BY <2>9, GatewayTries
  <2>10. CASE GatewayAnswers BY <2>10, SendAnswered
  <2>11. CASE ClientGivesUp BY <2>11, SendAnswered
  <2>12. CASE GatewayRestarts BY <2>12, GatewayEnds
  <2>13. ASSUME NEW reaches \in BOOLEAN, NEW status \in {"sent", "failed", "delivery_unknown"},
                FeishuAnswers(reaches, status)
         PROVE  SendInd'
    BY <2>13, SendAnswered
  <2>14. CASE EndSend BY <2>14, SendEnds
  <2> QED BY <2>1, <2>2, <2>3, <2>4, <2>5, <2>6, <2>7, <2>8, <2>9, <2>10, <2>11, <2>12, <2>13, <2>14
          DEF SendNext
<1>3. SendInd => SendInv BY DEF SendInd
<1> QED BY <1>1, <1>2, <1>3, PTL DEF SendSpec

-----------------------------------------------------------------------------
(* Pictures: the inductive invariant.                                      *)

Captions == Descriptions \cup {NoCaption, Undescribed, Oversize}

MediaTypeOK ==
    /\ media \in [Media -> {"none", "row", "deleted"}] /\ messages \subseteq Media
    /\ blobOf \in [Media -> Blobs \cup {NoBlob}]
    /\ describedAs \in [Media -> Captions] /\ written \in [Media -> Nat]
    /\ generation \in [Media -> {"no", "queued", "working"}]
    /\ frozen \in [Media -> Captions] /\ rendering \in [Media -> Captions]
    /\ shown \in [Media -> SUBSET Captions]
    /\ stickers \subseteq Media

(* Only a row has a blob, and the blob is kept; what has no row yet has no  *)
(* message, text or description either.                                    *)
PictureOK(i) ==
    /\ media[i] # "row" => blobOf[i] = NoBlob
    /\ media[i] = "row" /\ blobOf[i] # NoBlob => blobOf[i] \in blobs
    /\ media[i] = "none" => /\ i \notin messages /\ shown[i] = {} /\ rendering[i] = NoCaption
                            /\ generation[i] # "working" /\ written[i] = 0

(* What is being described has no description.                             *)
DescriptionOK(i) ==
    /\ written[i] <= 1 /\ (written[i] = 1 => describedAs[i] \in Descriptions)
    /\ generation[i] = "working" => describedAs[i] = NoCaption

(* A text shown is the frozen one, or that of a message deleted while it   *)
(* was rendered for the only time.                                         *)
TextOK(i) ==
    /\ frozen[i] # NoCaption => rendering[i] = NoCaption
    /\ i \notin unfrozen =>
          \/ shown[i] = {}
          \/ frozen[i] # NoCaption /\ shown[i] = {frozen[i]}
          \/ /\ \E x \in Captions : shown[i] = {x}
             /\ frozen[i] = NoCaption /\ rendering[i] = NoCaption /\ i \notin messages

(* A sweep that may still delete rows spares the stickers it found.        *)
StickersOK ==
    /\ \A i \in stickers \ lateStickers : media[i] = "row"
    /\ sweep \in {"listed", "messages"} => stickers \ lateStickers \subseteq spared

MediaInd ==
    /\ MediaTypeOK /\ StickersOK
    /\ \A i \in Media : PictureOK(i) /\ DescriptionOK(i) /\ TextOK(i)

(* The parts of the invariant a step leaves alone with their variables.     *)
LEMMA DescriptionStays ==
    ASSUME NEW i \in Media, DescriptionOK(i), UNCHANGED descriptionVars
    PROVE  DescriptionOK(i)'
BY DEF DescriptionOK, descriptionVars

(* So does the part about the text that was shown.                          *)
LEMMA TextStays ==
    ASSUME NEW i \in Media, TextOK(i), UNCHANGED textVars, i \in messages' => i \in messages \/ shown[i] = {}
    PROVE  TextOK(i)'
BY DEF TextOK, textVars

(* And the part about stickers, while no row of a picture disappears.       *)
LEMMA StickersStay ==
    ASSUME StickersOK, UNCHANGED <<stickerVars, sweep, spared>>,
           \A i \in Media : media[i] = "row" => media'[i] = "row",
           stickers \subseteq Media
    PROVE  StickersOK'
BY DEF StickersOK, stickerVars

(* At the start there is nothing.                                          *)
LEMMA MediaStarts == MediaInit => MediaInd
BY DEF MediaInit, MediaInd, MediaTypeOK, StickersOK, PictureOK, DescriptionOK, TextOK, Captions

(* A picture arrives with its message.                                     *)
LEMMA PictureArrives ==
    ASSUME MediaInd, NEW j \in Media,
           \/ StorePlaceholder(j) \/ StoreOversize(j)
           \/ \E b \in Blobs : StoreDownloaded(j, b) \/ DownloadEnds(j, b)
           \/ DownloadFails(j)
    PROVE  MediaInd'
<1> USE MediaAssumption
<1>1. CASE StorePlaceholder(j) \/ StoreOversize(j)
  <2>1. MediaTypeOK' BY <1>1 DEF MediaInd, MediaTypeOK, StorePlaceholder, StoreOversize, NewRow,
          descriptionVars, textVars, stickerVars, Captions
  <2>2. StickersOK' BY <1>1 DEF MediaInd, MediaTypeOK, StorePlaceholder, StoreOversize, NewRow,
          sweepVars, stickerVars, StickersOK
  <2> QED BY <2>1, <2>2, <1>1 DEF MediaInd, MediaTypeOK, StorePlaceholder, StoreOversize, NewRow,
          descriptionVars, textVars, PictureOK, DescriptionOK, TextOK
<1>2. ASSUME NEW b \in Blobs, StoreDownloaded(j, b) \/ DownloadEnds(j, b) PROVE MediaInd'
  <2>1. MediaTypeOK' BY <1>2 DEF MediaInd, MediaTypeOK, StoreDownloaded, DownloadEnds, NewRow,
          AttachBlob, Requested, textVars, stickerVars
  <2>2. StickersOK' BY <1>2 DEF MediaInd, MediaTypeOK, StoreDownloaded, DownloadEnds, NewRow,
          sweepVars, stickerVars, StickersOK
  <2>3. ASSUME NEW i \in Media PROVE PictureOK(i)'
    BY <1>2, <2>3 DEF MediaInd, MediaTypeOK, StoreDownloaded, DownloadEnds, NewRow, AttachBlob,
          Requested, MediaRows, textVars, PictureOK
  <2>4. ASSUME NEW i \in Media PROVE DescriptionOK(i)' /\ TextOK(i)'
    BY <1>2, <2>4 DEF MediaInd, MediaTypeOK, StoreDownloaded, DownloadEnds, NewRow,
          Requested, textVars, PictureOK, DescriptionOK, TextOK
  <2> QED BY <2>1, <2>2, <2>3, <2>4 DEF MediaInd
<1>3. CASE DownloadFails(j)
  BY <1>3 DEF MediaInd, MediaTypeOK, DownloadFails, descriptionVars, textVars, sweepVars,
          stickerVars, PictureOK, DescriptionOK, TextOK, StickersOK
<1> QED BY <1>1, <1>2, <1>3

(* A description is asked for, made and written.                           *)
LEMMA PictureIsDescribed ==
    ASSUME MediaInd, NEW j \in Media,
           \/ InspectMedia(j) \/ StartDescribing(j) \/ DescribeFails(j)
           \/ \E text \in Descriptions : Describe(j, text)
    PROVE  MediaInd'
<1> USE MediaAssumption
<1>1. UNCHANGED <<pictureVars, textVars, sweepVars, stickerVars>>
  BY DEF InspectMedia, StartDescribing, DescribeFails, Describe
<1>2. StickersOK'
  BY <1>1 DEF MediaInd, StickersOK, pictureVars, sweepVars, stickerVars
<1>3. ASSUME NEW i \in Media PROVE TextOK(i)'
  BY <1>1, <1>3, TextStays DEF MediaInd, pictureVars
<1>4. CASE InspectMedia(j) \/ StartDescribing(j) \/ DescribeFails(j)
  <2>1. /\ UNCHANGED <<describedAs, written>> /\ generation' \in [Media -> {"no", "queued", "working"}]
        /\ \A i \in Media : generation'[i] = "working" =>
              \/ generation[i] = "working"
              \/ media[i] = "row" /\ describedAs[i] = NoCaption
    BY <1>4 DEF InspectMedia, StartDescribing, DescribeFails, Requested, MediaRows, MediaInd, MediaTypeOK
  <2> QED BY <1>1, <1>2, <1>3, <2>1 DEF MediaInd, MediaTypeOK, PictureOK, DescriptionOK, pictureVars,
          textVars, stickerVars
<1>5. ASSUME NEW text \in Descriptions, Describe(j, text) PROVE MediaInd'
  <2>1. MediaTypeOK' BY <1>1, <1>5 DEF MediaInd, MediaTypeOK, Describe, pictureVars, textVars,
          stickerVars, Captions
  <2>2. ASSUME NEW i \in Media PROVE DescriptionOK(i)'
    BY <1>5, <2>2 DEF MediaInd, MediaTypeOK, Describe, DescriptionOK
  <2>3. ASSUME NEW i \in Media PROVE PictureOK(i)'
    BY <1>1, <1>5, <2>3 DEF MediaInd, MediaTypeOK, Describe, PictureOK, MediaRows, pictureVars, textVars
  <2> QED BY <1>2, <1>3, <2>1, <2>2, <2>3 DEF MediaInd
<1> QED BY <1>4, <1>5

(* A message is rendered, its text frozen, and shown.                      *)
LEMMA PictureIsRendered ==
    ASSUME MediaInd, NEW j \in Media, BeginRender(j) \/ FinishRender(j) \/ RenderFrozen(j)
    PROVE  MediaInd'
<1> USE MediaAssumption
<1>1. UNCHANGED <<pictureVars, descriptionVars, sweepVars, stickerVars>>
  BY DEF BeginRender, FinishRender, RenderFrozen
<1>2. StickersOK'
  BY <1>1 DEF MediaInd, StickersOK, pictureVars, sweepVars, stickerVars
<1>3. ASSUME NEW i \in Media PROVE DescriptionOK(i)'
  BY <1>1, <1>3, DescriptionStays DEF MediaInd
<1>4. /\ frozen' \in [Media -> Captions] /\ rendering' \in [Media -> Captions]
      /\ shown' \in [Media -> SUBSET Captions]
  BY DEF MediaInd, MediaTypeOK, BeginRender, FinishRender, RenderFrozen, Show, Rendered, FrozenText, Captions
<1>5. MediaTypeOK' BY <1>1, <1>4 DEF MediaInd, MediaTypeOK, pictureVars, descriptionVars, stickerVars
<1>6. ASSUME NEW i \in Media PROVE PictureOK(i)'
  BY <1>1, <1>6 DEF MediaInd, MediaTypeOK, PictureOK, BeginRender, FinishRender, RenderFrozen, Show,
          pictureVars, descriptionVars
<1>7. ASSUME NEW i \in Media PROVE TextOK(i)'
  <2>1. CASE i # j
    BY <1>1, <1>7, <2>1 DEF MediaInd, MediaTypeOK, TextOK, BeginRender, FinishRender, RenderFrozen, Show,
          pictureVars
  <2>2. CASE i = j /\ BeginRender(j)
    BY <1>1, <2>2 DEF MediaInd, MediaTypeOK, TextOK, BeginRender, pictureVars
  <2>3. CASE i = j /\ FinishRender(j)
    <3>1. rendering[j] # NoCaption /\ rendering[j] \in Captions /\ frozen[j] = NoCaption
      BY <2>3 DEF MediaInd, MediaTypeOK, TextOK, FinishRender
    <3>2. j \in unfrozen \/ shown[j] = {} BY <3>1 DEF MediaInd, TextOK
    <3>3. rendering'[j] = NoCaption /\ messages' = messages /\ shown'[j] = shown[j] \cup {rendering[j]}
      BY <1>1, <2>3 DEF FinishRender, Show, MediaInd, MediaTypeOK, pictureVars
    <3>4. \/ /\ unfrozen' = unfrozen
             /\ frozen'[j] = IF j \in messages THEN rendering[j] ELSE NoCaption
          \/ j \in unfrozen'
      BY <2>3, <3>1 DEF FinishRender, MediaInd, MediaTypeOK
    <3> QED BY <2>3, <3>1, <3>2, <3>3, <3>4 DEF TextOK
  <2>4. CASE i = j /\ RenderFrozen(j)
    BY <1>1, <2>4 DEF MediaInd, MediaTypeOK, TextOK, RenderFrozen, Show, FrozenText, pictureVars
  <2> QED BY <2>1, <2>2, <2>3, <2>4
<1> QED BY <1>2, <1>3, <1>5, <1>6, <1>7 DEF MediaInd

(* Stickers are collected and removed, rows and blobs age: no row, text or  *)
(* description changes.                                                    *)
LEMMA StickersChange ==
    ASSUME MediaInd,
           \/ \E j \in Media : BeginCollect(j) \/ FinishCollect(j) \/ RemoveSticker(j) \/ MediaAges(j)
           \/ \E b \in Blobs : BlobAges(b)
    PROVE  MediaInd'
<1>1. UNCHANGED <<media, messages, blobOf, blobs, descriptionVars, textVars>>
  BY DEF BeginCollect, FinishCollect, RemoveSticker, MediaAges, BlobAges, pictureVars
<1>2. stickers' \subseteq Media
  BY DEF MediaInd, MediaTypeOK, BeginCollect, FinishCollect, RemoveSticker, MediaAges, BlobAges, stickerVars
<1>3. StickersOK'
  <2>1. ASSUME NEW j \in Media, FinishCollect(j) PROVE StickersOK'
    BY <1>1, <2>1 DEF MediaInd, MediaTypeOK, StickersOK, FinishCollect, MediaRows, sweepVars
  <2> QED BY <1>1, <2>1 DEF MediaInd, StickersOK, BeginCollect, RemoveSticker, MediaAges, BlobAges,
            sweepVars, stickerVars
<1> QED BY <1>1, <1>2, <1>3 DEF MediaInd, MediaTypeOK, PictureOK, DescriptionOK, TextOK,
          descriptionVars, textVars

(* One step of the retention sweep, or its end: a row whose picture is in   *)
(* use keeps it, and no sticker of the pool the sweep found loses its row.  *)
LEMMA SweepGoesOn ==
    ASSUME MediaInd, ListProtected \/ DeleteMessages \/ DeleteMedia \/ DeleteBlobs \/ SweepFails
    PROVE  MediaInd'
<1> USE MediaAssumption
<1>1. UNCHANGED <<descriptionVars, textVars, stickerVars>>
  BY DEF ListProtected, DeleteMessages, DeleteMedia, DeleteBlobs, SweepFails
<1>2. ASSUME NEW i \in Media PROVE DescriptionOK(i)'
  BY <1>1, <1>2, DescriptionStays DEF MediaInd
<1>3. messages' \subseteq messages
  BY DEF ListProtected, DeleteMessages, DeleteMedia, DeleteBlobs, SweepFails, pictureVars
<1>4. ASSUME NEW i \in Media PROVE TextOK(i)'
  BY <1>1, <1>3, <1>4, TextStays DEF MediaInd
<1>5. CASE DeleteMedia
  <2>1. /\ \A i \in Media : i \in MediaRows /\ i \in oldMedia \ spared =>
              media'[i] = "deleted" /\ blobOf'[i] = NoBlob
        /\ \A i \in Media : ~(i \in MediaRows /\ i \in oldMedia \ spared) =>
              media'[i] = media[i] /\ blobOf'[i] = blobOf[i]
        /\ media' \in [Media -> {"none", "row", "deleted"}]
        /\ blobOf' \in [Media -> Blobs \cup {NoBlob}]
        /\ sweep = "messages" /\ sweep' = "media" /\ spared' = spared
        /\ UNCHANGED <<messages, blobs>>
    BY <1>5 DEF DeleteMedia, MediaInd, MediaTypeOK
  <2>2. MediaTypeOK' BY <1>1, <2>1 DEF MediaInd, MediaTypeOK, descriptionVars, textVars, stickerVars
  <2>3. StickersOK'
    BY <1>1, <2>1 DEF MediaInd, MediaTypeOK, StickersOK, stickerVars
  <2>4. ASSUME NEW i \in Media PROVE PictureOK(i)'
    BY <1>1, <2>1, <2>4 DEF MediaInd, MediaTypeOK, PictureOK, MediaRows, descriptionVars, textVars
  <2> QED BY <1>2, <1>4, <2>2, <2>3, <2>4 DEF MediaInd
<1>6. CASE ListProtected \/ DeleteMessages \/ DeleteBlobs \/ SweepFails
  <2>1. UNCHANGED <<media, blobOf>> /\ \A i \in Media : media[i] = "row" /\ blobOf[i] \in blobs => blobOf[i] \in blobs'
    BY <1>6 DEF ListProtected, DeleteMessages, DeleteBlobs, SweepFails, MediaRows, pictureVars
  <2>2. MediaTypeOK'
    BY <1>1, <1>3, <2>1 DEF MediaInd, MediaTypeOK, descriptionVars, textVars, stickerVars
  <2>3. StickersOK'
    BY <1>1, <1>6, <2>1 DEF MediaInd, StickersOK, stickerVars, ListProtected, DeleteMessages,
            DeleteBlobs, SweepFails
  <2>4. ASSUME NEW i \in Media PROVE PictureOK(i)'
    BY <1>1, <1>3, <2>1, <2>4 DEF MediaInd, PictureOK, descriptionVars, textVars
  <2> QED BY <1>2, <1>4, <2>2, <2>3, <2>4 DEF MediaInd
<1> QED BY <1>5, <1>6

(* media/*.ts, jobs/generate-description.ts, database/retention.ts: for any *)
(* media and contents, the text of a message the Agent has seen stays, a    *)
(* description is written once, and what is in use is kept.                *)
THEOREM MediaIsSound == MediaSpec => []MediaIsStable
<1>1. MediaInit => MediaInd BY MediaStarts
<1>2. MediaInd /\ [MediaNext]_mediaVars => MediaInd'
  <2> SUFFICES ASSUME MediaInd, [MediaNext]_mediaVars PROVE MediaInd' OBVIOUS
  <2>1. CASE UNCHANGED mediaVars
    BY <2>1 DEF mediaVars, pictureVars, descriptionVars, textVars, sweepVars, stickerVars, MediaInd,
            MediaTypeOK, PictureOK, DescriptionOK, TextOK, StickersOK
  <2>2. ASSUME NEW j \in Media,
               \/ StorePlaceholder(j) \/ StoreOversize(j)
               \/ \E b \in Blobs : StoreDownloaded(j, b) \/ DownloadEnds(j, b)
               \/ DownloadFails(j)
        PROVE  MediaInd'
    BY <2>2, PictureArrives
  <2>3. ASSUME NEW j \in Media,
               \/ InspectMedia(j) \/ StartDescribing(j) \/ DescribeFails(j)
               \/ \E text \in Descriptions : Describe(j, text)
        PROVE  MediaInd'
    BY <2>3, PictureIsDescribed
  <2>4. ASSUME NEW j \in Media, BeginRender(j) \/ FinishRender(j) \/ RenderFrozen(j) PROVE MediaInd'
    BY <2>4, PictureIsRendered
  <2>5. ASSUME NEW j \in Media, BeginCollect(j) \/ FinishCollect(j) \/ RemoveSticker(j) \/ MediaAges(j)
        PROVE  MediaInd'
    BY <2>5, StickersChange
  <2>6. ASSUME NEW b \in Blobs, BlobAges(b) PROVE MediaInd' BY <2>6, StickersChange
  <2>7. CASE ListProtected \/ DeleteMessages \/ DeleteMedia \/ DeleteBlobs \/ SweepFails
    BY <2>7, SweepGoesOn
  <2> QED BY <2>1, <2>2, <2>3, <2>4, <2>5, <2>6, <2>7 DEF MediaNext
<1>3. MediaInd => MediaIsStable
  <2> SUFFICES ASSUME MediaInd PROVE MediaIsStable OBVIOUS
  <2>1. ASSUME NEW i \in Media \ unfrozen PROVE Cardinality(shown[i]) <= 1
    <3>1. shown[i] = {} \/ \E x \in Captions : shown[i] = {x}
      BY <2>1 DEF MediaInd, MediaTypeOK, TextOK
    <3>2. Cardinality(shown[i]) \in {0, 1} BY <3>1, FS_EmptySet, FS_Singleton
    <3> QED BY <3>2
  <2>2. DescribedOnce BY DEF MediaInd, MediaTypeOK, DescriptionOK, DescribedOnce
  <2>3. UsedMediaIsKept
    BY DEF MediaInd, MediaTypeOK, PictureOK, StickersOK, UsedMediaIsKept, MediaRows
  <2> QED BY <2>1, <2>2, <2>3 DEF MediaIsStable, ShownTextStays
<1> QED BY <1>1, <1>2, <1>3, PTL DEF MediaSpec

-----------------------------------------------------------------------------
(* Extremes of sets of numbers.                                            *)

(* A nonempty set of natural numbers has a least element, which is its     *)
(* minimum.                                                                *)
LEMMA MinIsLeast ==
    ASSUME NEW S, S \subseteq Nat, S # {}
    PROVE  Min(S) \in S /\ \A y \in S : Min(S) <= y
<1> DEFINE R == OpToRel(<, Nat)
<1>1. PICK x \in S : \A y \in S : <<y, x>> \notin R
  <2>1. IsWellFoundedOn(R, Nat) BY NatLessThanWellFounded
  <2> HIDE DEF R
  <2> QED BY <2>1, WFMin, Zenon
<1>2. \A y \in S : ~(y < x) BY <1>1 DEF OpToRel
<1>3. \A y \in S : x <= y BY <1>2
<1> QED BY <1>3 DEF Min

(* A bounded one has a greatest element, which is its maximum.             *)
LEMMA MaxIsGreatest ==
    ASSUME NEW N \in Nat, NEW S, S \subseteq 0..N, S # {}
    PROVE  Max(S) \in S /\ \A y \in S : y <= Max(S)
<1> DEFINE U == {k \in Nat : \A y \in S : y <= k}
           n == Min(U)
<1>1. U \subseteq Nat /\ N \in U OBVIOUS
<1>2. n \in U /\ \A k \in U : n <= k
  <2> HIDE DEF U
  <2> QED BY <1>1, MinIsLeast
<1> HIDE DEF n
<1>3. n \in S
  <2> SUFFICES ASSUME n \notin S PROVE FALSE OBVIOUS
  <2>1. \A y \in S : y <= n - 1 BY <1>2
  <2>2. PICK y \in S : TRUE OBVIOUS
  <2>3. n - 1 \in U BY <1>2, <2>1, <2>2
  <2> QED BY <1>2, <2>3
<1> QED BY <1>2, <1>3 DEF Max

-----------------------------------------------------------------------------
(* The browser's pages: the inductive invariant.                           *)

(* The controller holds the browser that lives, and pages are numbered so  *)
(* far.                                                                    *)
BrowserInd ==
    /\ context = browser /\ lastPage \in Nat /\ openPages \subseteq 1..lastPage
    /\ PagesAreTracked

(* Once some pages are unlisted the active one is among those left.        *)
LEMMA UnlistingKeepsActive ==
    ASSUME BrowserInd, NEW gone, Unlists(gone), openPages \ gone \subseteq openPages',
           openPages' \subseteq openPages, context' \in {0, browser'}, lastPage' = lastPage,
           context' = browser', listed \ gone \subseteq openPages',
           openPages' \cap gone \subseteq unclosed', unclosed \subseteq unclosed'
    PROVE  BrowserInd'
<1>1. /\ listed' = listed \ gone
      /\ activePage' = IF activePage \in gone THEN FirstOf(listed \ gone) ELSE activePage
  BY DEF Unlists, NextActive
<1>2. listed \ gone # {} => FirstOf(listed \ gone) \in listed \ gone
  <2> DEFINE S == listed \ gone
  <2>1. S \subseteq Nat
    <3>1. listed \subseteq 1..lastPage /\ lastPage \in Nat BY DEF BrowserInd, PagesAreTracked
    <3>2. \A p \in listed : p \in Nat BY <3>1
    <3> QED BY <3>2
  <2> HIDE DEF S
  <2> QED BY <2>1, MinIsLeast DEF FirstOf, S
<1>3. 0 \notin openPages BY DEF BrowserInd
<1>4. FirstOf(listed \ gone) = 0 <=> listed \ gone = {}
  BY <1>2, <1>3 DEF FirstOf, BrowserInd, PagesAreTracked
<1>5. listed' \subseteq openPages' /\ openPages' \subseteq listed' \cup unclosed'
  BY <1>1 DEF BrowserInd, PagesAreTracked
<1>6. activePage' \in openPages' \cup {0} /\ (listed' # {} => activePage' # 0)
  <2>1. CASE activePage \in gone BY <1>1, <1>2, <1>4, <1>5, <2>1
  <2>2. CASE activePage \notin gone BY <1>1, <2>2 DEF BrowserInd, PagesAreTracked
  <2> QED BY <2>1, <2>2
<1> QED BY <1>5, <1>6 DEF BrowserInd, PagesAreTracked

(* A page just opened is listed, and active if none was.                   *)
LEMMA RegisteringKeepsActive ==
    ASSUME BrowserInd, Registers
    PROVE  /\ listed' \subseteq openPages' /\ openPages' \subseteq listed' \cup unclosed
           /\ lastPage' \in Nat /\ openPages' \subseteq 1..lastPage'
           /\ activePage' \in openPages' /\ activePage' # 0
<1>1. /\ lastPage' = lastPage + 1 /\ openPages' = openPages \cup {lastPage + 1}
      /\ listed' = listed \cup {lastPage + 1}
      /\ activePage' = IF activePage = 0 THEN lastPage + 1 ELSE activePage
  BY DEF Registers
<1>2. lastPage + 1 # 0 BY DEF BrowserInd
<1> QED BY <1>1, <1>2 DEF BrowserInd, PagesAreTracked

(* browser/controller.ts: for any number of actions at a time, however they *)
(* overlap, the controller lists what is open, but for pages that could not *)
(* be closed, and knows an active page.                                    *)
THEOREM BrowserIsSound == BrowserSpec => []PagesAreTracked
<1>1. BrowserInit => BrowserInd BY DEF BrowserInit, BrowserInd, PagesAreTracked
<1>2. BrowserInd /\ [BrowserNext]_browserVars => BrowserInd'
  <2> SUFFICES ASSUME BrowserInd, [BrowserNext]_browserVars PROVE BrowserInd' OBVIOUS
  <2>1. CASE UNCHANGED <<context, browser, openPages, lastPage, listed, activePage, unclosed>>
    BY <2>1 DEF BrowserInd, PagesAreTracked
  <2>2. ASSUME NEW a \in ActionSlots, NEW k \in {"open", "use", "close"}, NEW w \in {-1, 0} \cup Pages,
               BeginAction(a, k, w)
        PROVE  BrowserInd'
    BY <2>1, <2>2 DEF BeginAction
  <2>3. ASSUME NEW a \in ActionSlots, LaunchFails(a) \/ PageNotCreated(a) \/ ActionFails(a)
        PROVE  BrowserInd'
    BY <2>1, <2>3 DEF LaunchFails, PageNotCreated, ActionFails, ActiveAfterFailure
  <2>9. ASSUME NEW a \in ActionSlots, CloseFails(a) PROVE BrowserInd'
    BY <2>9, UnlistingKeepsActive DEF CloseFails, BrowserInd, PagesAreTracked
  <2>4. ASSUME NEW a \in ActionSlots, LaunchReturns(a) \/ PageCreated(a) PROVE BrowserInd'
    <3>1. Registers /\ context' = browser' /\ unclosed' = unclosed
      BY <2>4 DEF LaunchReturns, PageCreated, BrowserInd
    <3> QED BY <3>1, RegisteringKeepsActive DEF BrowserInd, PagesAreTracked
  <2>5. ASSUME NEW a \in ActionSlots, ActionSucceeds(a) PROVE BrowserInd'
    <3>1. target[a] \in openPages /\ UNCHANGED <<context, browser, lastPage, unclosed>>
      BY <2>5 DEF ActionSucceeds
    <3>2. CASE kind[a] = "open"
      BY <2>5, <3>1, <3>2 DEF ActionSucceeds, BrowserInd, PagesAreTracked
    <3>3. CASE kind[a] = "close"
      <4>1. Forgets({target[a]}) BY <2>5, <3>3 DEF ActionSucceeds
      <4> QED BY <3>1, <4>1, UnlistingKeepsActive DEF Forgets, BrowserInd, PagesAreTracked
    <3>4. CASE kind[a] \notin {"open", "close"} BY <2>1, <2>5, <3>1, <3>4 DEF ActionSucceeds
    <3> QED BY <3>2, <3>3, <3>4
  <2>6. ASSUME NEW p \in Pages, PageCloses(p) PROVE BrowserInd'
    <3>1. Forgets({p}) /\ UNCHANGED <<context, browser, lastPage, unclosed>> BY <2>6 DEF PageCloses
    <3> QED BY <3>1, UnlistingKeepsActive DEF Forgets, BrowserInd, PagesAreTracked
  <2>7. ASSUME NEW p \in Pages, SwitchPage(p) PROVE BrowserInd'
    BY <2>7 DEF SwitchPage, BrowserInd, PagesAreTracked
  <2>8. CASE BrowserDies
    <3>1. Forgets(openPages) /\ context' = browser' /\ UNCHANGED <<lastPage, unclosed>>
      BY <2>8 DEF BrowserDies
    <3> QED BY <3>1, UnlistingKeepsActive DEF Forgets, BrowserInd, PagesAreTracked
  <2> QED BY <2>1, <2>2, <2>3, <2>4, <2>5, <2>6, <2>7, <2>8, <2>9 DEF BrowserNext, browserVars
<1>3. BrowserInd => PagesAreTracked BY DEF BrowserInd
<1> QED BY <1>1, <1>2, <1>3, PTL DEF BrowserSpec

-----------------------------------------------------------------------------
(* The gateway of Feishu: the inductive invariant.                         *)

FeishuTask ==
    [event : FeishuEvent, nth : Nat, at : {"scheduled", "picture", "append", "failed"},
     picture : {"none", "saved", "placeholder"}, tries : Nat]
FeishuRow == [event : FeishuEvent, nth : Nat, picture : {"none", "saved", "placeholder"}]

Reasons == {"foreign", "no_original", "logged", "unlogged"}

FeishuTypeOK ==
    /\ receipts \in Nat /\ chain \in [FeishuChats -> Seq(FeishuTask)]
    /\ feishuFacts \in Seq(FeishuRow) /\ held \subseteq [nth : Nat, event : FeishuEvent]
    /\ aside \subseteq [nth : Nat, event : FeishuEvent, why : Reasons]
    /\ configured \subseteq FeishuGroups

Tasks(c) == 1..Len(chain[c])
RowNumbers == 1..Len(feishuFacts)

(* A chat's chain holds its tasks in the order of their receipt, and an     *)
(* event the process took over is that of the task with its number.        *)
ChainsInOrder ==
    /\ \A c \in FeishuChats : \A k \in Tasks(c) :
          /\ chain[c][k].event.chat = c /\ chain[c][k].nth <= receipts
          /\ \A l \in Tasks(c) : k < l => chain[c][k].nth < chain[c][l].nth
          /\ \A h \in held : chain[c][k].nth = h.nth => chain[c][k].event = h.event
    /\ \A h \in held : h.nth <= receipts

(* Of a chat, what is stored or set aside came before its first task; or    *)
(* the row is that of this task, stored by an attempt that seemed to fail. *)
WorkedOffInOrder ==
    /\ \A i \in RowNumbers : feishuFacts[i].nth <= receipts
    /\ \A o \in aside : o.nth <= receipts
    /\ \A c \in FeishuChats : chain[c] # <<>> =>
          /\ \A i \in RowNumbers : feishuFacts[i].event.chat = c =>
                \/ feishuFacts[i].nth < chain[c][1].nth
                \/ feishuFacts[i].nth = chain[c][1].nth /\ feishuFacts[i].event = chain[c][1].event
          /\ \A o \in aside : o.event.chat = c => o.nth < chain[c][1].nth

(* A chat with a row has one of its message.                               *)
RowsAreHeard == \A i \in RowNumbers : Heard(feishuFacts[i].event.chat)

FeishuParts == OneSignalDrains /\ RowsFollowReceipt /\ RecallFindsMessage
FeishuInd == FeishuTypeOK /\ ChainsInOrder /\ WorkedOffInOrder /\ RowsAreHeard /\ FeishuParts

(* Only a signal starts a drain, so that the next one is of the other kind. *)
DrainIsAskedFor ==
    /\ gateway \in {"down", "up", "draining"} /\ signals \subseteq {"SIGINT", "SIGTERM"}
    /\ gateway = "draining" => signals # {}

(* The first task of a chain changes, its event stays.                     *)
LEMMA FirstGoes ==
    ASSUME FeishuTypeOK, NEW c \in FeishuChats, chain[c] # <<>>, NEW task \in FeishuTask,
           TaskGoes(c, 1, task), task.nth = chain[c][1].nth, task.event = chain[c][1].event
    PROVE  /\ chain' \in [FeishuChats -> Seq(FeishuTask)]
           /\ \A d \in FeishuChats :
                 /\ Len(chain'[d]) = Len(chain[d]) /\ (chain'[d] = <<>> <=> chain[d] = <<>>)
                 /\ \A k \in Tasks(d) : /\ chain'[d][k].nth = chain[d][k].nth
                                        /\ chain'[d][k].event = chain[d][k].event
<1>1. chain[c] \in Seq(FeishuTask) /\ 1 \in 1..Len(chain[c])
  BY EmptySeq, LenProperties DEF FeishuTypeOK
<1> DEFINE s == [chain[c] EXCEPT ![1] = task]
<1>2. /\ s \in Seq(FeishuTask) /\ Len(s) = Len(chain[c])
      /\ \A k \in 1..Len(chain[c]) : s[k] = IF k = 1 THEN task ELSE chain[c][k]
  BY <1>1, ExceptSeq
<1>3. chain' = [chain EXCEPT ![c] = s] BY DEF TaskGoes
<1> HIDE DEF s
<1>4. chain' \in [FeishuChats -> Seq(FeishuTask)] BY <1>2, <1>3 DEF FeishuTypeOK
<1>5. ASSUME NEW d \in FeishuChats
      PROVE  /\ Len(chain'[d]) = Len(chain[d]) /\ (chain'[d] = <<>> <=> chain[d] = <<>>)
             /\ \A k \in Tasks(d) : /\ chain'[d][k].nth = chain[d][k].nth
                                    /\ chain'[d][k].event = chain[d][k].event
  <2>1. CASE d # c BY <1>3, <2>1 DEF FeishuTypeOK
  <2>2. CASE d = c
    <3>1. chain'[d] = s BY <1>3, <2>2 DEF FeishuTypeOK
    <3>2. s # <<>> BY <1>1, <1>2, EmptySeq
    <3> QED BY <1>2, <2>2, <3>1, <3>2 DEF Tasks
  <2> QED BY <2>1, <2>2
<1> QED BY <1>4, <1>5

(* The first task of a chain ends, the others move up.                     *)
LEMMA FirstEnds ==
    ASSUME FeishuTypeOK, NEW c \in FeishuChats, chain[c] # <<>>, TaskEnds(c, 1)
    PROVE  /\ chain' \in [FeishuChats -> Seq(FeishuTask)]
           /\ \A d \in FeishuChats \ {c} : chain'[d] = chain[d]
           /\ Len(chain'[c]) = Len(chain[c]) - 1 /\ Len(chain[c]) \in Nat \ {0}
           /\ chain'[c] = <<>> <=> Len(chain[c]) = 1
           /\ \A k \in 1..Len(chain[c]) - 1 : chain'[c][k] = chain[c][k + 1]
<1> DEFINE s == chain[c]  t == SubSeq(s, 2, Len(s))
<1>1. s \in Seq(FeishuTask) /\ Len(s) \in Nat \ {0}
  BY EmptySeq, LenProperties DEF FeishuTypeOK
<1> HIDE DEF s
<1>2. \A i \in 2..Len(s) : s[i] \in FeishuTask BY <1>1, ElementOfSeq
<1>3. /\ t \in Seq(FeishuTask) /\ Len(t) = Len(s) - 1
      /\ \A k \in 1..Len(s) - 1 : t[k] = s[k + 1]
  <2>1. /\ t \in Seq(FeishuTask) /\ Len(t) = IF 2 <= Len(s) THEN Len(s) - 2 + 1 ELSE 0
        /\ \A i \in 1..Len(s) - 2 + 1 : t[i] = s[2 + i - 1]
    BY <1>1, <1>2, SubSeqProperties
  <2>2. Len(t) = Len(s) - 1 BY <1>1, <2>1
  <2>3. ASSUME NEW k \in 1..Len(s) - 1 PROVE t[k] = s[k + 1]
    <3>1. k \in 1..Len(s) - 2 + 1 /\ 2 + k - 1 = k + 1 BY <1>1
    <3> QED BY <2>1, <3>1
  <2> QED BY <2>1, <2>2, <2>3
<1>4. RemoveAt(s, 1) = t
  <2>1. SubSeq(s, 1, 0) = <<>> BY SubSeqEmpty
  <2> HIDE DEF t
  <2>2. <<>> \o t = t BY <1>3, ConcatEmptySeq
  <2> QED BY <1>1, <2>1, <2>2 DEF RemoveAt, t
<1>5. chain' = [chain EXCEPT ![c] = t] BY <1>4 DEF TaskEnds, s
<1> HIDE DEF t
<1>6. chain' \in [FeishuChats -> Seq(FeishuTask)] BY <1>3, <1>5 DEF FeishuTypeOK
<1>7. chain'[c] = t /\ \A d \in FeishuChats \ {c} : chain'[d] = chain[d] BY <1>5 DEF FeishuTypeOK
<1>8. t = <<>> <=> Len(s) = 1 BY <1>1, <1>3, EmptySeq
<1> QED BY <1>1, <1>3, <1>6, <1>7, <1>8 DEF s

(* appendMessageFact adds a row for an event that has none, and nothing     *)
(* else.                                                                   *)
LEMMA FactAppended ==
    ASSUME FeishuTypeOK, NEW task \in FeishuTask, feishuFacts' = AppendedFact(task)
    PROVE  /\ feishuFacts' \in Seq(FeishuRow) /\ Len(feishuFacts) \in Nat
           /\ \A i \in RowNumbers : i \in RowNumbers' /\ feishuFacts'[i] = feishuFacts[i]
           /\ \/ feishuFacts' = feishuFacts /\ task.event \in StoredEvents
              \/ /\ task.event \notin StoredEvents /\ Len(feishuFacts') = Len(feishuFacts) + 1
                 /\ feishuFacts'[Len(feishuFacts) + 1].event = task.event
                 /\ feishuFacts'[Len(feishuFacts) + 1].nth = task.nth
<1> DEFINE row == [event |-> task.event, nth |-> task.nth, picture |-> task.picture]
<1>1. feishuFacts \in Seq(FeishuRow) /\ row \in FeishuRow BY DEF FeishuTypeOK, FeishuTask, FeishuRow
<1>2. Len(feishuFacts) \in Nat BY <1>1, LenProperties
<1>3. CASE task.event \in StoredEvents BY <1>1, <1>2, <1>3 DEF AppendedFact, RowNumbers
<1>4. CASE task.event \notin StoredEvents
  <2>1. feishuFacts' = Append(feishuFacts, row) BY <1>4 DEF AppendedFact
  <2>2. row.event = task.event /\ row.nth = task.nth OBVIOUS
  <2> HIDE DEF row
  <2>3. /\ feishuFacts' \in Seq(FeishuRow) /\ Len(feishuFacts') = Len(feishuFacts) + 1
        /\ \A i \in 1..Len(feishuFacts) : feishuFacts'[i] = feishuFacts[i]
        /\ feishuFacts'[Len(feishuFacts) + 1] = row
    BY <1>1, <2>1, AppendProperties
  <2> QED BY <1>2, <1>4, <2>2, <2>3 DEF RowNumbers
<1> QED BY <1>3, <1>4

(* The first task of a chain, and its event.                               *)
LEMMA FirstTask ==
    ASSUME FeishuInd, NEW c \in FeishuChats, chain[c] # <<>>
    PROVE  /\ 1 \in Tasks(c) /\ chain[c][1] \in FeishuTask /\ chain[c][1].event.chat = c
           /\ chain[c][1].nth \in Nat /\ chain[c][1].nth <= receipts
           /\ chain[c][1].event \in FeishuEvent
<1>1. chain[c] \in Seq(FeishuTask) BY DEF FeishuInd, FeishuTypeOK
<1>2. 1 \in Tasks(c) BY <1>1, EmptySeq DEF Tasks
<1>3. chain[c][1] \in FeishuTask BY <1>1, <1>2, ElementOfSeq DEF Tasks
<1> QED BY <1>2, <1>3 DEF FeishuInd, ChainsInOrder, FeishuTask

(* A row of the first task, or none: the rows stay in the order of receipt, *)
(* and a recall has its message.                                           *)
LEMMA FactsMove ==
    ASSUME FeishuInd, NEW c \in FeishuChats, chain[c] # <<>>,
           \/ UNCHANGED feishuFacts
           \/ feishuFacts' = AppendedFact(chain[c][1]) /\ ~OriginalMissing(chain[c][1])
    PROVE  /\ feishuFacts' \in Seq(FeishuRow) /\ StoredEvents \subseteq StoredEvents'
           /\ RowsFollowReceipt' /\ RowsAreHeard'
           /\ \A i \in RowNumbers' :
                 \/ i \in RowNumbers /\ feishuFacts'[i] = feishuFacts[i]
                 \/ feishuFacts'[i].nth = chain[c][1].nth /\ feishuFacts'[i].event = chain[c][1].event
           /\ feishuFacts' = AppendedFact(chain[c][1]) => chain[c][1].event \in StoredEvents'
<1> DEFINE task == chain[c][1]
<1>0. task \in FeishuTask /\ task.event.chat = c /\ task.nth \in Nat /\ task.event \in FeishuEvent
  BY FirstTask
<1> HIDE DEF task
<1>1. feishuFacts \in Seq(FeishuRow) /\ Len(feishuFacts) \in Nat
  BY LenProperties DEF FeishuInd, FeishuTypeOK
<1>2. CASE UNCHANGED feishuFacts /\ feishuFacts' # AppendedFact(task)
  BY <1>1, <1>2 DEF StoredEvents, RowsFollowReceipt, RowsAreHeard, Heard, RowNumbers, FeishuInd, FeishuParts, task
<1>3. CASE feishuFacts' = AppendedFact(task)
  <2> DEFINE n == Len(feishuFacts)
  <2>1. /\ feishuFacts' \in Seq(FeishuRow) /\ n \in Nat
        /\ \A i \in RowNumbers : i \in RowNumbers' /\ feishuFacts'[i] = feishuFacts[i]
        /\ \/ feishuFacts' = feishuFacts /\ task.event \in StoredEvents
           \/ /\ task.event \notin StoredEvents /\ Len(feishuFacts') = n + 1
              /\ feishuFacts'[n + 1].event = task.event
              /\ feishuFacts'[n + 1].nth = task.nth
    BY <1>0, <1>3, FactAppended DEF FeishuInd
  <2>2. StoredEvents \subseteq StoredEvents' BY <2>1 DEF StoredEvents, RowNumbers
  <2>3. CASE feishuFacts' = feishuFacts /\ task.event \in StoredEvents
    BY <1>1, <2>3 DEF StoredEvents, RowsFollowReceipt, RowsAreHeard, Heard, RowNumbers, FeishuInd,
            FeishuParts, task
  <2>4. CASE /\ task.event \notin StoredEvents /\ Len(feishuFacts') = n + 1
             /\ feishuFacts'[n + 1].event = task.event
             /\ feishuFacts'[n + 1].nth = task.nth
    <3>1. RowNumbers' = RowNumbers \cup {n + 1} /\ RowNumbers = 1..n /\ n + 1 \notin RowNumbers
      BY <2>1, <2>4 DEF RowNumbers
    <3>2. task.event \in StoredEvents'
      BY <3>1, <2>4 DEF StoredEvents, RowNumbers
    <3>3. ~OriginalMissing(task)
      <4>1. CASE UNCHANGED feishuFacts BY <2>1, <2>4, <4>1
      <4> QED BY <4>1 DEF task
    <3>4. Heard(c)'
      <4>1. CASE task.event.kind # "recall"
        BY <1>0, <3>2, <4>1 DEF Heard, FeishuEvent
      <4>2. CASE Heard(c) BY <2>2, <4>2 DEF Heard
      <4> QED BY <1>0, <3>3, <4>1, <4>2 DEF OriginalMissing
    <3>5. RowsAreHeard'
      <4> SUFFICES ASSUME NEW i \in RowNumbers'
                   PROVE  \E e \in StoredEvents' : /\ e.chat = feishuFacts'[i].event.chat
                                                    /\ e.kind \in {"message", "edit"}
        BY DEF RowsAreHeard, Heard
      <4>1. CASE i = n + 1 BY <1>0, <2>4, <3>4, <4>1 DEF Heard
      <4>2. CASE i \in RowNumbers
        <5>1. Heard(feishuFacts[i].event.chat) BY <4>2 DEF FeishuInd, RowsAreHeard
        <5> QED BY <2>1, <2>2, <4>2, <5>1 DEF Heard
      <4> QED BY <3>1, <4>1, <4>2
    <3>6. \A i \in RowNumbers : /\ feishuFacts[i].event # task.event
                                /\ feishuFacts[i].event.chat = c => feishuFacts[i].nth < task.nth
      BY <2>4 DEF FeishuInd, WorkedOffInOrder, StoredEvents, RowNumbers, task
    <3>7. RowsFollowReceipt'
      <4> SUFFICES ASSUME NEW i \in RowNumbers', NEW j \in RowNumbers', i < j
                   PROVE  /\ feishuFacts'[i].event # feishuFacts'[j].event
                          /\ feishuFacts'[i].event.chat = feishuFacts'[j].event.chat =>
                                feishuFacts'[i].nth < feishuFacts'[j].nth
        BY DEF RowsFollowReceipt, RowNumbers
      <4>1. i \in RowNumbers BY <2>1, <3>1
      <4>2. CASE j = n + 1 BY <1>0, <2>1, <2>4, <3>6, <4>1, <4>2
      <4>3. CASE j \in RowNumbers
        BY <2>1, <4>1, <4>3 DEF FeishuInd, FeishuParts, RowsFollowReceipt, RowNumbers
      <4> QED BY <3>1, <4>2, <4>3
    <3>8. \A i \in RowNumbers' :
             \/ i \in RowNumbers /\ feishuFacts'[i] = feishuFacts[i]
             \/ feishuFacts'[i].nth = task.nth /\ feishuFacts'[i].event = task.event
      BY <2>1, <2>4, <3>1
    <3> QED BY <2>1, <2>2, <3>2, <3>5, <3>7, <3>8 DEF task
  <2> QED BY <2>1, <2>3, <2>4
<1> QED BY <1>2, <1>3 DEF task

(* The rows of a chat never pass what was set aside of it for want of its   *)
(* message.                                                                *)
LEMMA FactsPassRecalls ==
    ASSUME FeishuInd, NEW c \in FeishuChats, chain[c] # <<>>,
           \A i \in RowNumbers' :
              \/ i \in RowNumbers /\ feishuFacts'[i] = feishuFacts[i]
              \/ feishuFacts'[i].nth = chain[c][1].nth /\ feishuFacts'[i].event = chain[c][1].event
    PROVE  \A o \in aside : o.why = "no_original" =>
              \A i \in RowNumbers' : feishuFacts'[i].event.chat = o.event.chat => feishuFacts'[i].nth > o.nth
<1> SUFFICES ASSUME NEW o \in aside, o.why = "no_original", NEW i \in RowNumbers',
                    feishuFacts'[i].event.chat = o.event.chat
             PROVE  feishuFacts'[i].nth > o.nth
  OBVIOUS
<1>1. CASE i \in RowNumbers /\ feishuFacts'[i] = feishuFacts[i]
  BY <1>1 DEF FeishuInd, FeishuParts, RecallFindsMessage, RowNumbers
<1>2. CASE feishuFacts'[i].nth = chain[c][1].nth /\ feishuFacts'[i].event = chain[c][1].event
  <2>1. chain[c][1].event.chat = c /\ chain[c][1].nth \in Nat BY FirstTask
  <2>2. o.nth \in Nat BY DEF FeishuInd, FeishuTypeOK
  <2>3. o.nth < chain[c][1].nth BY <1>2, <2>1 DEF FeishuInd, WorkedOffInOrder
  <2> QED BY <1>2, <2>1, <2>2, <2>3
<1> QED BY <1>1, <1>2

(* A step of a chain's first task that goes on: its event waits further.    *)
LEMMA TaskGoesOn ==
    ASSUME FeishuInd, NEW c \in FeishuChats, chain[c] # <<>>, NEW task \in FeishuTask,
           TaskGoes(c, 1, task), task.nth = chain[c][1].nth, task.event = chain[c][1].event,
           \/ UNCHANGED feishuFacts
           \/ feishuFacts' = AppendedFact(chain[c][1]) /\ ~OriginalMissing(chain[c][1]),
           UNCHANGED <<aside, configured, receipts, held, signals>>
    PROVE  FeishuInd'
<1>1. /\ chain' \in [FeishuChats -> Seq(FeishuTask)]
      /\ \A d \in FeishuChats :
            /\ Len(chain'[d]) = Len(chain[d]) /\ (chain'[d] = <<>> <=> chain[d] = <<>>)
            /\ \A k \in Tasks(d) : /\ chain'[d][k].nth = chain[d][k].nth
                                   /\ chain'[d][k].event = chain[d][k].event
  BY FirstGoes DEF FeishuInd
<1>2. /\ feishuFacts' \in Seq(FeishuRow) /\ StoredEvents \subseteq StoredEvents'
      /\ RowsFollowReceipt' /\ RowsAreHeard'
      /\ \A i \in RowNumbers' :
            \/ i \in RowNumbers /\ feishuFacts'[i] = feishuFacts[i]
            \/ feishuFacts'[i].nth = chain[c][1].nth /\ feishuFacts'[i].event = chain[c][1].event
  BY FactsMove
<1>3. FeishuTypeOK' BY <1>1, <1>2 DEF FeishuInd, FeishuTypeOK
<1>4. ChainsInOrder' BY <1>1 DEF FeishuInd, ChainsInOrder, Tasks
<1>5. WorkedOffInOrder'
  <2>1. chain[c][1].event.chat = c /\ chain[c][1].nth <= receipts BY FirstTask
  <2>2. \A i \in RowNumbers' : feishuFacts'[i].nth <= receipts'
    BY <1>2, <2>1 DEF FeishuInd, WorkedOffInOrder
  <2>3. ASSUME NEW d \in FeishuChats, chain'[d] # <<>>
        PROVE  /\ \A i \in RowNumbers' : feishuFacts'[i].event.chat = d =>
                     \/ feishuFacts'[i].nth < chain'[d][1].nth
                     \/ feishuFacts'[i].nth = chain'[d][1].nth /\ feishuFacts'[i].event = chain'[d][1].event
               /\ \A o \in aside' : o.event.chat = d => o.nth < chain'[d][1].nth
    <3>1. chain[d] # <<>> BY <1>1, <2>3
    <3>2. 1 \in Tasks(d) BY <3>1, FirstTask
    <3>3. chain'[d][1].nth = chain[d][1].nth /\ chain'[d][1].event = chain[d][1].event BY <1>1, <3>2
    <3> QED BY <1>2, <2>1, <3>1, <3>3 DEF FeishuInd, WorkedOffInOrder
  <2> QED BY <2>2, <2>3 DEF FeishuInd, WorkedOffInOrder
<1>6. OneSignalDrains'
  BY <1>1, <1>2 DEF FeishuInd, FeishuParts, OneSignalDrains, ReceivedIsKept, Tasks
<1>7. RecallFindsMessage' BY <1>2, FactsPassRecalls DEF RecallFindsMessage, RowNumbers
<1> QED BY <1>2, <1>3, <1>4, <1>5, <1>6, <1>7 DEF FeishuInd, FeishuParts

(* A chain's first task ends: its event is stored or set aside.            *)
LEMMA TaskIsDone ==
    ASSUME FeishuInd, NEW c \in FeishuChats, chain[c] # <<>>, TaskEnds(c, 1),
           UNCHANGED <<configured, receipts, held, signals>>,
           aside \subseteq aside', aside' \subseteq [nth : Nat, event : FeishuEvent, why : Reasons],
           \A o \in aside' \ aside :
              /\ o.nth = chain[c][1].nth /\ o.event = chain[c][1].event
              /\ o.why = "no_original" => OriginalMissing(chain[c][1]) /\ UNCHANGED feishuFacts,
           \/ feishuFacts' = AppendedFact(chain[c][1]) /\ ~OriginalMissing(chain[c][1])
           \/ UNCHANGED feishuFacts /\ \E o \in aside' : o.nth = chain[c][1].nth
    PROVE  FeishuInd'
<1> DEFINE task == chain[c][1]
<1>0. /\ 1 \in Tasks(c) /\ task \in FeishuTask /\ task.event.chat = c /\ task.nth \in Nat
      /\ task.nth <= receipts /\ task.event \in FeishuEvent
  BY FirstTask
<1>1. /\ chain' \in [FeishuChats -> Seq(FeishuTask)]
      /\ \A d \in FeishuChats \ {c} : chain'[d] = chain[d]
      /\ Len(chain'[c]) = Len(chain[c]) - 1 /\ Len(chain[c]) \in Nat \ {0}
      /\ chain'[c] = <<>> <=> Len(chain[c]) = 1
      /\ \A k \in 1..Len(chain[c]) - 1 : chain'[c][k] = chain[c][k + 1]
  BY FirstEnds DEF FeishuInd
<1>2. /\ feishuFacts' \in Seq(FeishuRow) /\ StoredEvents \subseteq StoredEvents'
      /\ RowsFollowReceipt' /\ RowsAreHeard'
      /\ \A i \in RowNumbers' :
            \/ i \in RowNumbers /\ feishuFacts'[i] = feishuFacts[i]
            \/ feishuFacts'[i].nth = task.nth /\ feishuFacts'[i].event = task.event
      /\ feishuFacts' = AppendedFact(task) => task.event \in StoredEvents'
  BY FactsMove
<1>3. /\ aside \subseteq aside'
      /\ \A o \in aside' : o \in aside \/ (o.nth = task.nth /\ o.event = task.event)
      /\ task.event \in StoredEvents' \/ \E o \in aside' : o.nth = task.nth
  BY <1>2
<1> HIDE DEF task
<1>4. FeishuTypeOK' BY <1>1, <1>2, <1>3 DEF FeishuInd, FeishuTypeOK
<1>5. ASSUME NEW k \in Tasks(c)'
      PROVE  k + 1 \in Tasks(c) /\ k \in Tasks(c) /\ chain'[c][k] = chain[c][k + 1]
  BY <1>1, <1>5 DEF Tasks
<1>6. ChainsInOrder'
  <2> SUFFICES ASSUME NEW d \in FeishuChats, NEW k \in Tasks(d)'
               PROVE  /\ chain'[d][k].event.chat = d /\ chain'[d][k].nth <= receipts
                      /\ \A l \in Tasks(d)' : k < l => chain'[d][k].nth < chain'[d][l].nth
                      /\ \A h \in held : chain'[d][k].nth = h.nth => chain'[d][k].event = h.event
    BY DEF FeishuInd, ChainsInOrder
  <2>1. CASE d # c
    <3>1. chain'[d] = chain[d] /\ Tasks(d)' = Tasks(d) BY <1>1, <2>1 DEF Tasks
    <3> QED BY <3>1 DEF FeishuInd, ChainsInOrder
  <2>2. CASE d = c
    <3>1. k + 1 \in Tasks(c) /\ chain'[c][k] = chain[c][k + 1] BY <1>5, <2>2
    <3>2. ASSUME NEW l \in Tasks(d)', k < l PROVE chain'[d][k].nth < chain'[d][l].nth
      <4>1. l + 1 \in Tasks(c) /\ chain'[c][l] = chain[c][l + 1] BY <1>5, <2>2, <3>2
      <4>2. k + 1 < l + 1 BY <3>1, <3>2, <4>1 DEF Tasks
      <4> QED BY <2>2, <3>1, <4>1, <4>2 DEF FeishuInd, ChainsInOrder
    <3> QED BY <2>2, <3>1, <3>2 DEF FeishuInd, ChainsInOrder
  <2> QED BY <2>1, <2>2
<1>7. WorkedOffInOrder'
  <2>1. \A i \in RowNumbers' : feishuFacts'[i].nth <= receipts'
    BY <1>0, <1>2 DEF FeishuInd, WorkedOffInOrder
  <2>2. \A o \in aside' : o.nth <= receipts'
    BY <1>0, <1>3 DEF FeishuInd, WorkedOffInOrder
  <2>3. ASSUME NEW d \in FeishuChats, chain'[d] # <<>>
        PROVE  /\ \A i \in RowNumbers' : feishuFacts'[i].event.chat = d =>
                     \/ feishuFacts'[i].nth < chain'[d][1].nth
                     \/ feishuFacts'[i].nth = chain'[d][1].nth /\ feishuFacts'[i].event = chain'[d][1].event
               /\ \A o \in aside' : o.event.chat = d => o.nth < chain'[d][1].nth
    <3>1. CASE d # c
      <4>1. chain'[d] = chain[d] /\ chain[d] # <<>> BY <1>1, <2>3, <3>1
      <4>2. \A i \in RowNumbers' : feishuFacts'[i].event.chat = d =>
               i \in RowNumbers /\ feishuFacts'[i] = feishuFacts[i]
        BY <1>0, <1>2, <3>1
      <4>3. \A o \in aside' : o.event.chat = d => o \in aside BY <1>0, <1>3, <3>1
      <4> QED BY <4>1, <4>2, <4>3 DEF FeishuInd, WorkedOffInOrder
    <3>2. CASE d = c
      <4>1. 1 \in Tasks(c)' BY <1>1, <2>3, <3>2 DEF Tasks
      <4>2. 2 \in Tasks(c) /\ chain'[c][1] = chain[c][2]
        <5>1. 1 + 1 \in Tasks(c) /\ chain'[c][1] = chain[c][1 + 1] BY <1>5, <4>1
        <5>2. 1 + 1 = 2 OBVIOUS
        <5> QED BY <5>1, <5>2
      <4>3. task.nth < chain'[c][1].nth
        BY <1>0, <4>2 DEF FeishuInd, ChainsInOrder, task
      <4>4. chain'[c][1].nth \in Nat
        <5>1. chain[c][2] \in FeishuTask
          BY <4>2, ElementOfSeq DEF Tasks, FeishuInd, FeishuTypeOK
        <5> QED BY <4>2, <5>1 DEF FeishuTask
      <4>6. ASSUME NEW i \in RowNumbers PROVE feishuFacts[i].nth \in Nat
        <5>1. feishuFacts[i] \in FeishuRow
          BY <4>6, ElementOfSeq DEF FeishuInd, FeishuTypeOK, RowNumbers
        <5> QED BY <5>1 DEF FeishuRow
      <4>7. \A o \in aside : o.nth \in Nat BY DEF FeishuInd, FeishuTypeOK
      <4>5. /\ \A i \in RowNumbers : feishuFacts[i].event.chat = c => feishuFacts[i].nth <= task.nth
            /\ \A o \in aside : o.event.chat = c => o.nth < task.nth
        BY <1>0, <4>6 DEF FeishuInd, WorkedOffInOrder, task
      <4>8. ASSUME NEW i \in RowNumbers', feishuFacts'[i].event.chat = d
            PROVE  feishuFacts'[i].nth < chain'[d][1].nth
        BY <1>0, <1>2, <3>2, <4>3, <4>4, <4>5, <4>6, <4>8
      <4>9. ASSUME NEW o \in aside', o.event.chat = d PROVE o.nth < chain'[d][1].nth
        BY <1>0, <1>3, <3>2, <4>3, <4>4, <4>5, <4>7, <4>9
      <4> QED BY <4>8, <4>9
    <3> QED BY <3>1, <3>2
  <2> QED BY <2>1, <2>2, <2>3 DEF WorkedOffInOrder
<1>8. OneSignalDrains'
  <2> SUFFICES ASSUME ReceivedIsKept, NEW h \in held
               PROVE  \/ \E d \in FeishuChats : \E k \in Tasks(d)' : chain'[d][k].nth = h.nth
                      \/ h.event \in StoredEvents'
                      \/ \E o \in aside' : o.nth = h.nth
    BY DEF FeishuInd, FeishuParts, OneSignalDrains, ReceivedIsKept, Tasks
  <2>1. CASE h.event \in StoredEvents \/ \E o \in aside : o.nth = h.nth
    BY <1>2, <1>3, <2>1
  <2>2. ASSUME NEW d \in FeishuChats, NEW k \in Tasks(d), chain[d][k].nth = h.nth
        PROVE  \/ \E e \in FeishuChats : \E l \in Tasks(e)' : chain'[e][l].nth = h.nth
               \/ h.event \in StoredEvents'
               \/ \E o \in aside' : o.nth = h.nth
    <3>1. CASE d # c BY <1>1, <2>2, <3>1 DEF Tasks
    <3>2. CASE d = c /\ k = 1
      <4>1. h.event = task.event BY <2>2, <3>2 DEF FeishuInd, ChainsInOrder, task
      <4> QED BY <1>3, <2>2, <3>2, <4>1 DEF task
    <3>3. CASE d = c /\ k # 1
      <4>1. k - 1 \in Tasks(c)' /\ k - 1 \in 1..Len(chain[c]) - 1 /\ (k - 1) + 1 = k
        BY <1>1, <3>3 DEF Tasks
      <4>2. chain'[c][k - 1] = chain[c][k] BY <1>1, <4>1
      <4> QED BY <2>2, <3>3, <4>1, <4>2
    <3> QED BY <3>1, <3>2, <3>3
  <2> QED BY <2>1, <2>2 DEF ReceivedIsKept, Tasks
<1>9. RecallFindsMessage'
  <2> SUFFICES ASSUME NEW o \in aside', o.why = "no_original", NEW i \in RowNumbers',
                      feishuFacts'[i].event.chat = o.event.chat
               PROVE  feishuFacts'[i].nth > o.nth
    BY DEF RecallFindsMessage, RowNumbers
  <2>1. CASE o \in aside BY <1>2, <2>1, FactsPassRecalls DEF task
  <2>2. CASE o \notin aside
    <3>1. UNCHANGED feishuFacts /\ OriginalMissing(task) /\ o.event = task.event
      BY <2>2 DEF task
    <3>2. ~Heard(c) BY <1>0, <3>1 DEF OriginalMissing
    <3>3. i \in RowNumbers /\ feishuFacts[i].event.chat = c BY <1>0, <3>1 DEF RowNumbers
    <3> QED BY <3>2, <3>3 DEF FeishuInd, RowsAreHeard
  <2> QED BY <2>1, <2>2
<1> QED BY <1>2, <1>4, <1>6, <1>7, <1>8, <1>9 DEF FeishuInd, FeishuParts

(* An event is taken over: it is the last of its chain.                    *)
LEMMA EventIsTakenOver ==
    ASSUME FeishuInd, NEW e \in FeishuEvent, ReceiveFeishu(e)
    PROVE  FeishuInd'
<1> DEFINE c == e.chat  n == receipts + 1
           task == [event |-> e, nth |-> n, at |-> "scheduled", picture |-> "none", tries |-> 0]
<1>0. /\ c \in FeishuChats /\ receipts \in Nat /\ n \in Nat /\ receipts' = n
      /\ held' = held \cup {[nth |-> n, event |-> e]}
      /\ chain' = [chain EXCEPT ![c] = Append(@, task)]
      /\ UNCHANGED <<feishuFacts, aside, configured, signals>>
  BY DEF ReceiveFeishu, gatewayVars, FeishuInd, FeishuTypeOK, FeishuEvent
<1>1. task \in FeishuTask /\ task.event = e /\ task.nth = n BY <1>0 DEF FeishuTask
<1> HIDE DEF task
<1>2. chain[c] \in Seq(FeishuTask) /\ Len(chain[c]) \in Nat
  BY <1>0, LenProperties DEF FeishuInd, FeishuTypeOK
<1>3. /\ Append(chain[c], task) \in Seq(FeishuTask)
      /\ Len(Append(chain[c], task)) = Len(chain[c]) + 1
      /\ \A k \in Tasks(c) : Append(chain[c], task)[k] = chain[c][k]
      /\ Append(chain[c], task)[Len(chain[c]) + 1] = task
  BY <1>1, <1>2, AppendProperties DEF Tasks
<1>4. /\ chain' \in [FeishuChats -> Seq(FeishuTask)]
      /\ \A d \in FeishuChats \ {c} : chain'[d] = chain[d] /\ Tasks(d)' = Tasks(d)
      /\ Tasks(c)' = Tasks(c) \cup {Len(chain[c]) + 1} /\ chain'[c] # <<>>
      /\ \A k \in Tasks(c) : chain'[c][k] = chain[c][k] /\ k < Len(chain[c]) + 1
      /\ chain'[c][Len(chain[c]) + 1] = task
  <2>1. /\ chain' \in [FeishuChats -> Seq(FeishuTask)] /\ chain'[c] = Append(chain[c], task)
        /\ \A d \in FeishuChats \ {c} : chain'[d] = chain[d]
    BY <1>0, <1>3 DEF FeishuInd, FeishuTypeOK
  <2>2. Tasks(c)' = Tasks(c) \cup {Len(chain[c]) + 1} BY <1>2, <1>3, <2>1 DEF Tasks
  <2>3. chain'[c] # <<>> BY <1>2, <1>3, <2>1, EmptySeq
  <2>4. \A k \in Tasks(c) : k < Len(chain[c]) + 1 BY <1>2 DEF Tasks
  <2> QED BY <1>3, <2>1, <2>2, <2>3, <2>4 DEF Tasks
<1> DEFINE m == Len(chain[c]) + 1
<1>5. FeishuTypeOK' BY <1>0, <1>4 DEF FeishuInd, FeishuTypeOK
<1>6. \A d \in FeishuChats : \A k \in Tasks(d) : chain[d][k].nth \in Nat /\ chain[d][k].nth < n
  <2> SUFFICES ASSUME NEW d \in FeishuChats, NEW k \in Tasks(d)
               PROVE  chain[d][k].nth \in Nat /\ chain[d][k].nth < n
    OBVIOUS
  <2>1. chain[d][k] \in FeishuTask
    <3>1. chain[d] \in Seq(FeishuTask) BY DEF FeishuInd, FeishuTypeOK
    <3> QED BY <3>1, ElementOfSeq DEF Tasks
  <2>2. chain[d][k].nth \in Nat /\ chain[d][k].nth <= receipts
    BY <2>1 DEF FeishuTask, FeishuInd, ChainsInOrder
  <2> QED BY <1>0, <2>2
<1>7. \A h \in held : h.nth \in Nat /\ h.nth < n
  BY <1>0 DEF FeishuInd, FeishuTypeOK, ChainsInOrder
<1>8. ChainsInOrder'
  <2>1. ASSUME NEW d \in FeishuChats, NEW k \in Tasks(d)'
        PROVE  /\ chain'[d][k].event.chat = d /\ chain'[d][k].nth <= receipts'
               /\ \A l \in Tasks(d)' : k < l => chain'[d][k].nth < chain'[d][l].nth
               /\ \A h \in held' : chain'[d][k].nth = h.nth => chain'[d][k].event = h.event
    <3>1. CASE k \in Tasks(d)
      <4>1. chain'[d][k] = chain[d][k] BY <1>4, <3>1
      <4>2. chain[d][k].nth \in Nat /\ chain[d][k].nth < n BY <1>6, <3>1
      <4>3. chain[d][k].event.chat = d BY <3>1 DEF FeishuInd, ChainsInOrder
      <4>4. ASSUME NEW l \in Tasks(d)', k < l PROVE chain[d][k].nth < chain'[d][l].nth
        <5>1. CASE l \in Tasks(d)
          <6>1. chain'[d][l] = chain[d][l] BY <1>4, <5>1
          <6> QED BY <3>1, <4>4, <5>1, <6>1 DEF FeishuInd, ChainsInOrder
        <5>2. CASE l \notin Tasks(d)
          <6>1. chain'[d][l] = task BY <1>4, <4>4, <5>2
          <6> QED BY <1>1, <4>2, <6>1
        <5> QED BY <5>1, <5>2
      <4>5. ASSUME NEW h \in held', chain[d][k].nth = h.nth PROVE chain[d][k].event = h.event
        <5>1. h \in held BY <1>0, <4>2, <4>5
        <5> QED BY <3>1, <4>5, <5>1 DEF FeishuInd, ChainsInOrder
      <4>6. chain[d][k].nth <= receipts' BY <1>0, <4>2
      <4>7. \A l \in Tasks(d)' : k < l => chain'[d][k].nth < chain'[d][l].nth BY <4>1, <4>4
      <4>8. \A h \in held' : chain'[d][k].nth = h.nth => chain'[d][k].event = h.event BY <4>1, <4>5
      <4> QED BY <4>1, <4>3, <4>6, <4>7, <4>8
    <3>2. CASE k \notin Tasks(d)
      <4>1. d = c /\ k = m /\ chain'[d][k] = task BY <1>4, <2>1, <3>2
      <4>2. ASSUME NEW l \in Tasks(d)' PROVE ~(k < l)
        <5>1. l \in Tasks(c) \cup {m} BY <1>4, <4>1, <4>2
        <5>2. m \in Nat /\ \A j \in Tasks(c) : j \in Nat /\ j < m BY <1>2, <1>4 DEF Tasks
        <5> HIDE DEF m
        <5> QED BY <4>1, <5>1, <5>2
      <4>3. \A h \in held' : task.nth = h.nth => task.event = h.event
        BY <1>0, <1>1, <1>7
      <4> QED BY <1>0, <1>1, <4>1, <4>2, <4>3
    <3> QED BY <3>1, <3>2
  <2>2. \A h \in held' : h.nth <= receipts' BY <1>0, <1>7
  <2> QED BY <2>1, <2>2 DEF ChainsInOrder
<1>9. WorkedOffInOrder'
  <2>1. ASSUME NEW i \in RowNumbers PROVE feishuFacts[i].nth \in Nat /\ feishuFacts[i].nth < n
    <3>1. feishuFacts[i] \in FeishuRow
      BY <2>1, ElementOfSeq DEF FeishuInd, FeishuTypeOK, RowNumbers
    <3>2. feishuFacts[i].nth <= receipts BY <2>1 DEF FeishuInd, WorkedOffInOrder
    <3> QED BY <1>0, <3>1, <3>2 DEF FeishuRow
  <2>2. ASSUME NEW o \in aside PROVE o.nth \in Nat /\ o.nth < n
    BY <1>0 DEF FeishuInd, FeishuTypeOK, WorkedOffInOrder
  <2>3. ASSUME NEW d \in FeishuChats, chain'[d] # <<>>
        PROVE  /\ \A i \in RowNumbers : feishuFacts[i].event.chat = d =>
                     \/ feishuFacts[i].nth < chain'[d][1].nth
                     \/ feishuFacts[i].nth = chain'[d][1].nth /\ feishuFacts[i].event = chain'[d][1].event
               /\ \A o \in aside : o.event.chat = d => o.nth < chain'[d][1].nth
    <3>1. CASE chain[d] # <<>>
      <4>1. 1 \in Tasks(d) BY <3>1, FirstTask
      <4>2. chain'[d][1] = chain[d][1] BY <1>4, <4>1
      <4> QED BY <3>1, <4>2 DEF FeishuInd, WorkedOffInOrder
    <3>2. CASE chain[d] = <<>>
      <4>1. d = c BY <1>4, <2>3, <3>2
      <4>2. Len(chain[c]) = 0 BY <3>2, <4>1, EmptySeq
      <4>3. chain'[d][1] = task
        <5>1. Len(chain[c]) + 1 = 1 BY <4>2
        <5> QED BY <1>4, <4>1, <5>1
      <4> QED BY <1>1, <2>1, <2>2, <4>3
    <3> QED BY <3>1, <3>2
  <2> QED BY <1>0, <2>1, <2>2, <2>3 DEF WorkedOffInOrder, RowNumbers
<1>10. RowsAreHeard' /\ RowsFollowReceipt' /\ RecallFindsMessage'
  BY <1>0 DEF FeishuInd, FeishuParts, RowsAreHeard, RowsFollowReceipt, RecallFindsMessage, Heard,
       StoredEvents, RowNumbers
<1>11. OneSignalDrains'
  <2> SUFFICES ASSUME ReceivedIsKept, NEW h \in held'
               PROVE  \/ \E d \in FeishuChats : \E k \in Tasks(d)' : chain'[d][k].nth = h.nth
                      \/ h.event \in StoredEvents
                      \/ \E o \in aside : o.nth = h.nth
    BY <1>0 DEF FeishuInd, FeishuParts, OneSignalDrains, ReceivedIsKept, Tasks, StoredEvents
  <2>1. CASE h \in held
    <3>1. \A d \in FeishuChats : \A k \in Tasks(d) : k \in Tasks(d)' /\ chain'[d][k] = chain[d][k]
      BY <1>4
    <3> QED BY <2>1, <3>1 DEF ReceivedIsKept, Tasks
  <2>2. CASE h \notin held
    <3>1. h.nth = n BY <1>0, <2>2
    <3>2. m \in Tasks(c)' /\ chain'[c][m].nth = n BY <1>1, <1>4
    <3> QED BY <1>0, <3>1, <3>2
  <2> QED BY <2>1, <2>2
<1> QED BY <1>5, <1>8, <1>9, <1>10, <1>11 DEF FeishuInd, FeishuParts

(* The process ends or starts: the chains are empty, and it has taken       *)
(* nothing over, its work is done, or signals of both kinds cut it.        *)
LEMMA ChainsAreGone ==
    ASSUME FeishuInd, UNCHANGED <<feishuFacts, receipts>>, configured' \subseteq FeishuGroups,
           aside' \in {aside, {}}, held' \in {held, {}},
           \/ chain' = [c \in FeishuChats |-> <<>>]
           \/ UNCHANGED chain /\ held' = {},
           \/ held' = {}
           \/ Drained /\ aside' = aside /\ signals' = signals
           \/ signals' = {"SIGINT", "SIGTERM"}
    PROVE  FeishuInd'
<1>1. RowsAreHeard' /\ RowsFollowReceipt' /\ RecallFindsMessage'
  BY DEF FeishuInd, FeishuParts, RowsAreHeard, RowsFollowReceipt, RecallFindsMessage, Heard,
       StoredEvents, RowNumbers
<1>2. OneSignalDrains'
  <2>1. CASE held' = {} BY <2>1 DEF OneSignalDrains, ReceivedIsKept
  <2>2. CASE held' = held /\ Drained /\ aside' = aside /\ signals' = signals
    <3>1. \A c \in FeishuChats : 1..Len(chain[c]) = {} BY <2>2, EmptySeq DEF Drained
    <3> QED BY <2>2, <3>1 DEF FeishuInd, FeishuParts, OneSignalDrains, ReceivedIsKept, StoredEvents
  <2>3. CASE signals' = {"SIGINT", "SIGTERM"} BY <2>3 DEF OneSignalDrains
  <2> QED BY <2>1, <2>2, <2>3
<1>3. CASE chain' = [c \in FeishuChats |-> <<>>]
  <2>1. <<>> \in Seq(FeishuTask) /\ 1..Len(<<>>) = {} BY EmptySeq
  <2>2. \A c \in FeishuChats : chain'[c] = <<>> /\ Tasks(c)' = {} BY <1>3, <2>1 DEF Tasks
  <2>3. FeishuTypeOK' BY <1>3, <2>1 DEF FeishuInd, FeishuTypeOK
  <2>4. ChainsInOrder' BY <2>2 DEF FeishuInd, ChainsInOrder
  <2>5. WorkedOffInOrder' BY <2>2 DEF FeishuInd, WorkedOffInOrder, RowNumbers
  <2> QED BY <1>1, <1>2, <2>3, <2>4, <2>5 DEF FeishuInd, FeishuParts
<1>4. CASE UNCHANGED chain /\ held' = {}
  <2>1. FeishuTypeOK' BY <1>4 DEF FeishuInd, FeishuTypeOK
  <2>2. ChainsInOrder' /\ WorkedOffInOrder'
    BY <1>4 DEF FeishuInd, ChainsInOrder, WorkedOffInOrder, Tasks, RowNumbers
  <2> QED BY <1>1, <1>2, <2>1, <2>2 DEF FeishuInd, FeishuParts
<1> QED BY <1>3, <1>4

(* A step of the task that runs, the first of its chain.                   *)
LEMMA TaskSteps ==
    ASSUME FeishuInd, NEW c \in FeishuChats, NEW k \in MayRun(c), IngestStep(c, k)
    PROVE  FeishuInd'
<1> DEFINE task == chain[c][1]
<1>0. k = 1 /\ chain[c] # <<>>
  BY EmptySeq DEF MayRun
<1>1. /\ task \in FeishuTask /\ task.event.chat = c /\ task.nth \in Nat /\ task.event \in FeishuEvent
  BY <1>0, FirstTask
<1>2. UNCHANGED <<configured, receipts, held, signals>>
  BY <1>0 DEF IngestStep, Normalize, StoreFact, AppendErrs, TaskThrows, LogFailure, Download,
       IngestOnly, gatewayVars
<1>3. aside \subseteq [nth : Nat, event : FeishuEvent, why : Reasons] BY DEF FeishuInd, FeishuTypeOK
<1>4. ASSUME NEW why \in {"foreign", "no_original", "logged", "unlogged"}, SetAside(c, 1, why),
             TaskEnds(c, 1), UNCHANGED feishuFacts, why = "no_original" => OriginalMissing(task)
      PROVE  FeishuInd'
  <2> DEFINE o == [nth |-> task.nth, event |-> task.event, why |-> why]
  <2>1. aside' = aside \cup {o} BY <1>4 DEF SetAside
  <2>2. /\ o \in [nth : Nat, event : FeishuEvent, why : Reasons]
        /\ o.nth = task.nth /\ o.event = task.event /\ o.why = why
    <3>1. why \in Reasons BY DEF Reasons
    <3> HIDE DEF task
    <3> QED BY <1>1, <3>1
  <2> HIDE DEF o
  <2>3. aside \subseteq aside' /\ aside' \subseteq [nth : Nat, event : FeishuEvent, why : Reasons]
    BY <1>3, <2>1, <2>2
  <2>4. \A p \in aside' \ aside :
           /\ p.nth = chain[c][1].nth /\ p.event = chain[c][1].event
           /\ p.why = "no_original" => OriginalMissing(chain[c][1]) /\ UNCHANGED feishuFacts
    BY <1>4, <2>1, <2>2
  <2>5. UNCHANGED feishuFacts /\ \E p \in aside' : p.nth = chain[c][1].nth
    BY <1>4, <2>1, <2>2
  <2> QED BY <1>0, <1>2, <1>4, <2>3, <2>4, <2>5, TaskIsDone
<1>5. ASSUME NEW next \in FeishuTask, TaskGoes(c, 1, next), UNCHANGED aside,
             next.nth = task.nth, next.event = task.event,
             \/ UNCHANGED feishuFacts
             \/ feishuFacts' = AppendedFact(task) /\ ~OriginalMissing(task)
      PROVE  FeishuInd'
  BY <1>0, <1>2, <1>5, TaskGoesOn
<1> HIDE DEF task
<1>6. CASE Normalize(c, 1)
  <2>1. CASE TaskEnds(c, 1) /\ SetAside(c, 1, "foreign")
    BY <1>4, <1>6, <2>1 DEF Normalize
  <2>2. CASE ~(TaskEnds(c, 1) /\ SetAside(c, 1, "foreign"))
    <3> DEFINE place == IF task.event.kind # "recall" /\ c \in Pictures THEN "picture" ELSE "append"
               next == [task EXCEPT !.at = place]
    <3>1. TaskGoes(c, 1, next) /\ UNCHANGED <<aside, feishuFacts>>
      BY <1>6, <2>2 DEF Normalize, task
    <3>2. next \in FeishuTask /\ next.nth = task.nth /\ next.event = task.event
      BY <1>1 DEF FeishuTask
    <3> HIDE DEF next
    <3> QED BY <1>5, <3>1, <3>2
  <2> QED BY <2>1, <2>2
<1>7. ASSUME NEW got \in {"saved", "placeholder"}, Download(c, 1, got) PROVE FeishuInd'
  <2> DEFINE next == [[task EXCEPT !.at = "append"] EXCEPT !.picture = got]
  <2>1. TaskGoes(c, 1, next) /\ UNCHANGED <<aside, feishuFacts>>
    BY <1>1, <1>7 DEF Download, task, FeishuTask
  <2>2. next \in FeishuTask /\ next.nth = task.nth /\ next.event = task.event
    BY <1>1, <1>7 DEF FeishuTask
  <2> HIDE DEF next
  <2> QED BY <1>5, <2>1, <2>2
<1>8. CASE StoreFact(c, 1)
  <2>1. CASE OriginalMissing(task)
    <3>1. SetAside(c, 1, "no_original") /\ TaskEnds(c, 1) /\ UNCHANGED feishuFacts
      BY <1>8, <2>1 DEF StoreFact, task
    <3> QED BY <1>4, <2>1, <3>1
  <2>2. CASE ~OriginalMissing(task)
    <3>1. TaskEnds(c, 1) /\ feishuFacts' = AppendedFact(task) /\ aside' = aside
      BY <1>8, <2>2 DEF StoreFact, task
    <3> QED BY <1>0, <1>2, <1>3, <2>2, <3>1, TaskIsDone DEF task
  <2> QED BY <2>1, <2>2
<1>9. CASE AppendErrs(c, 1)
  <2> DEFINE again == [task EXCEPT !.tries = @ + 1]
             failed == [task EXCEPT !.at = "failed"]
  <2>1. again \in FeishuTask /\ again.nth = task.nth /\ again.event = task.event BY <1>1 DEF FeishuTask
  <2>2. failed \in FeishuTask /\ failed.nth = task.nth /\ failed.event = task.event
    BY <1>1 DEF FeishuTask
  <2>3. /\ \/ UNCHANGED feishuFacts
           \/ feishuFacts' = AppendedFact(task) /\ ~OriginalMissing(task)
        /\ TaskGoes(c, 1, again) \/ TaskGoes(c, 1, failed)
        /\ UNCHANGED aside
    BY <1>9 DEF AppendErrs, task
  <2> HIDE DEF again, failed
  <2> QED BY <1>5, <2>1, <2>2, <2>3
<1>10. CASE TaskThrows(c, 1)
  <2> DEFINE next == [task EXCEPT !.at = "failed"]
  <2>1. TaskGoes(c, 1, next) /\ UNCHANGED <<aside, feishuFacts>> BY <1>10 DEF TaskThrows, task
  <2>2. next \in FeishuTask /\ next.nth = task.nth /\ next.event = task.event
    BY <1>1 DEF FeishuTask
  <2> HIDE DEF next
  <2> QED BY <1>5, <2>1, <2>2
<1>11. CASE LogFailure(c, 1)
  BY <1>4, <1>11 DEF LogFailure
<1> QED BY <1>0, <1>6, <1>7, <1>8, <1>9, <1>10, <1>11 DEF IngestStep

(* services/feishu-gateway.ts: for any chats and settings, however often    *)
(* and in whatever order events are delivered, fail and are tried again,   *)
(* what was received is kept through a shutdown by one kind of signal, rows *)
(* and recalls follow the order of receipt, and what is listed may be       *)
(* written to.                                                             *)
THEOREM FeishuIsSound == FeishuSpec => []FeishuInv
<1>1. FeishuInit => FeishuInd /\ DrainIsAskedFor
  <2> SUFFICES ASSUME FeishuInit PROVE FeishuInd /\ DrainIsAskedFor OBVIOUS
  <2> USE DEF FeishuInit
  <2>1. \A S : <<>> \in Seq(S) BY EmptySeq
  <2>2. Len(<<>>) = 0 BY EmptySeq
  <2>3. FeishuTypeOK BY <2>1 DEF FeishuTypeOK
  <2>4. RowNumbers = {} /\ 1..Len(feishuFacts) = {} /\ \A c \in FeishuChats : Tasks(c) = {}
    BY <2>2 DEF RowNumbers, Tasks
  <2>5. ChainsInOrder /\ WorkedOffInOrder /\ RowsAreHeard
    BY <2>4 DEF ChainsInOrder, WorkedOffInOrder, RowsAreHeard
  <2>6. FeishuParts
    BY <2>4 DEF FeishuParts, OneSignalDrains, ReceivedIsKept, RowsFollowReceipt, RecallFindsMessage
  <2> QED BY <2>3, <2>5, <2>6 DEF FeishuInd, DrainIsAskedFor
<1>2. FeishuInd /\ DrainIsAskedFor /\ [FeishuNext]_feishuVars => (FeishuInd /\ DrainIsAskedFor)'
  <2> SUFFICES ASSUME FeishuInd, DrainIsAskedFor, [FeishuNext]_feishuVars
               PROVE  FeishuInd' /\ DrainIsAskedFor'
    OBVIOUS
  <2>0. configured \subseteq FeishuGroups BY DEF FeishuInd, FeishuTypeOK
  <2>1. ASSUME UNCHANGED <<configured, chain, feishuFacts, aside, receipts, held>>,
               signals = {"SIGINT", "SIGTERM"} => signals' = signals
        PROVE  FeishuInd'
    <3>1. FeishuTypeOK' /\ ChainsInOrder' /\ WorkedOffInOrder'
      BY <2>1 DEF FeishuInd, FeishuTypeOK, ChainsInOrder, WorkedOffInOrder, RowNumbers, Tasks
    <3>2. RowsAreHeard' /\ RowsFollowReceipt' /\ RecallFindsMessage'
      <4>1. RowsAreHeard'
        BY <2>1 DEF FeishuInd, FeishuParts, RowsAreHeard, Heard, StoredEvents, RowNumbers
      <4>2. RowsFollowReceipt'
        BY <2>1 DEF FeishuInd, FeishuParts, RowsFollowReceipt, StoredEvents, RowNumbers
      <4>3. RecallFindsMessage'
        BY <2>1 DEF FeishuInd, FeishuParts, RecallFindsMessage, StoredEvents, RowNumbers
      <4> QED BY <4>1, <4>2, <4>3
    <3>3. OneSignalDrains'
      BY <2>1 DEF FeishuInd, FeishuParts, OneSignalDrains, ReceivedIsKept, StoredEvents
    <3> QED BY <3>1, <3>2, <3>3 DEF FeishuInd, FeishuParts
  <2>2. ASSUME GatewayStarts PROVE FeishuInd'
    <3>1. configured' \subseteq FeishuGroups BY <2>2, FeishuAssumption DEF GatewayStarts
    <3> QED BY <2>2, <3>1, ChainsAreGone DEF GatewayStarts, GatewayStep
  <2>3. ASSUME DrainEnds PROVE FeishuInd'
    BY <2>0, <2>3, ChainsAreGone DEF DrainEnds, ProcessExits, GatewayStep
  <2>4. ASSUME GatewayCrashes PROVE FeishuInd'
    BY <2>0, <2>4, ChainsAreGone DEF GatewayCrashes, ProcessExits, GatewayStep
  <2>5. ASSUME NEW s \in {"SIGINT", "SIGTERM"}, FeishuSignal(s) PROVE FeishuInd'
    <3>1. CASE gateway = "up"
      BY <2>1, <2>5, <3>1 DEF FeishuSignal, GatewayStep, ingressVars
    <3>2. CASE gateway # "up"
      <4>1. ProcessExits /\ UNCHANGED held BY <2>5, <3>2 DEF FeishuSignal
      <4>2. signals' = {"SIGINT", "SIGTERM"}
        <5>1. signals # {} /\ signals' = signals \cup {s} /\ s \notin signals
          BY <2>5, <3>2 DEF FeishuSignal, DrainIsAskedFor
        <5> QED BY <2>5, <5>1 DEF DrainIsAskedFor
      <4> QED BY <2>0, <4>1, <4>2, ChainsAreGone DEF ProcessExits, GatewayStep
    <3> QED BY <3>1, <3>2
  <2>6. ASSUME NEW e \in FeishuEvent, ReceiveFeishu(e) PROVE FeishuInd' BY <2>6, EventIsTakenOver
  <2>7. ASSUME NEW c \in FeishuChats, NEW k \in MayRun(c), IngestStep(c, k) PROVE FeishuInd'
    BY <2>7, TaskSteps
  <2>8. DrainIsAskedFor'
    <3>1. CASE \E s \in {"SIGINT", "SIGTERM"} : FeishuSignal(s)
      BY <3>1 DEF FeishuSignal, ProcessExits, DrainIsAskedFor
    <3>2. CASE UNCHANGED <<gateway, signals>> BY <3>2 DEF DrainIsAskedFor
    <3>3. CASE \E c \in FeishuChats : \E k \in MayRun(c) : IngestStep(c, k)
      <4>1. UNCHANGED gatewayVars
        BY <3>3 DEF IngestStep, Normalize, StoreFact, AppendErrs, TaskThrows, LogFailure, Download,
             IngestOnly
      <4> QED BY <3>2, <4>1 DEF gatewayVars
    <3>4. CASE \E e \in FeishuEvent : ReceiveFeishu(e) BY <3>2, <3>4 DEF ReceiveFeishu, gatewayVars
    <3>5. CASE GatewayStarts \/ DrainEnds \/ GatewayCrashes
      BY <3>5 DEF GatewayStarts, DrainEnds, GatewayCrashes, ProcessExits, DrainIsAskedFor
    <3> QED BY <3>1, <3>2, <3>3, <3>4, <3>5 DEF FeishuNext, feishuVars, gatewayVars
  <2> QED BY <2>1, <2>2, <2>3, <2>4, <2>5, <2>6, <2>7, <2>8
          DEF FeishuNext, feishuVars, gatewayVars, ingressVars
<1>3. FeishuInd => FeishuInv
  <2> SUFFICES ASSUME FeishuInd PROVE FeishuInv OBVIOUS
  <2>1. ListedIsAuthorized
    BY FeishuAssumption DEF FeishuInd, FeishuTypeOK, ListedIsAuthorized, ListedConversations, MayWriteTo,
         FeishuChats
  <2> QED BY <2>1 DEF FeishuInd, FeishuParts, FeishuInv
<1> QED BY <1>1, <1>2, <1>3, PTL DEF FeishuSpec

-----------------------------------------------------------------------------
(* Rounds: what acts is exclusive.                                         *)

(* A call whose tool would act is never classified as parallel, however it *)
(* is wrapped: both sides resolve the same tool and the same action.       *)
LEMMA ActingIsExclusive ==
    ASSUME NEW c \in ToolCall, Acts(Found(c))
    PROVE  Classify(c) # "parallel"
<1>1. CASE c.name # "invoke"
  <2>1. c.args \in Arguments BY DEF ToolCall
  <2>2. c.name \in AlwaysOn /\ Found(c) = Parsed("none", c.name, c.args)
    BY <1>1 DEF Found, Acts, Refusal
  <2> QED BY <1>1, <2>1, <2>2
          DEF Classify, Policy, ByAction, Parsed, Acts, Refusal, AlwaysOn, StrippedArgs, HasBackground,
              Arguments
<1>2. CASE c.name = "invoke"
  <2> DEFINE n == Normalized(c)
             e == EntryFor(c.tool, Enclosed(n))
  <2>1. c.args \in Arguments /\ NoArgs \in Arguments
    BY DEF ToolCall, NoArgs, Args, Arguments, GivenActions
  <2>2. /\ n.tool = c.tool /\ n.name = c.name /\ n.args = c.args
        /\ n.form = (IF c.form = "json" THEN "object" ELSE c.form)
    BY DEF Normalized, ToolCall
  <2>3. Enclosed(n) \in Arguments BY <2>1, <2>2 DEF Enclosed
  <2>4. Found(c).tool # "none" BY DEF Acts
  <2>5. CASE c.form = "null"
    BY <1>2, <2>2, <2>5 DEF Classify, ShellParses
  <2>6. CASE c.form # "null"
    <3>1. StrippedShell(n) = n BY <2>2, <2>6 DEF StrippedShell, ToolCall
    <3>2. ShellParses(n) /\ Deferred(n.tool) /\ Found(c) = Parsed(e.capability, e.tool, Enclosed(n))
      BY <1>2, <2>2, <2>4, <3>1 DEF Found, Refusal
    <3>3. Classify(c) \in {Policy(e.tool, Enclosed(n)), "exclusive"}
      BY <1>2, <2>2 DEF Classify
    <3> DEFINE tool == e.tool
               capability == e.capability
               given == Enclosed(n)
    <3> HIDE DEF n, e, tool, capability, given
    <3>4. Acts(Parsed(capability, tool, given)) BY <3>2 DEF tool, capability, given
    <3>5. given \in Arguments BY <2>3 DEF given
    <3>6. Policy(tool, given) # "parallel"
      BY <3>4, <3>5 DEF Policy, ByAction, Parsed, Acts, Refusal, StrippedArgs, HasBackground, Arguments,
           Fits, SchemaActions
    <3> QED BY <3>3, <3>6 DEF tool, given
  <2> QED BY <2>5, <2>6
<1> QED BY <1>1, <1>2

-----------------------------------------------------------------------------
(* Rounds: the inductive invariant.                                        *)

RoundRangesOK ==
    /\ RoundTypeOK
    /\ calls \in Seq(ToolCall) /\ DOMAIN result = 1..Len(calls)
    /\ performed \subseteq 1..Len(calls)
    /\ completions \in 0..2 /\ effectsLost \in BOOLEAN

(* Before the completion is accepted nothing has happened.                 *)
NothingYet ==
    roundPhase = "llm" =>
        /\ calls = <<>> /\ cursor = 1 /\ batchEnd = 0
        /\ answers = <<>> /\ effects = <<>> /\ performed = {}
        /\ completions \in 0..1

(* Calls before the batch are settled and those after it untouched; a      *)
(* batch of more than one call is parallel.                                *)
BatchShape ==
    /\ \A i \in 1..Len(calls) :
          /\ i < cursor => stage[i] = "settled"
          /\ stage[i] # "idle" <=> (i < cursor \/ i <= batchEnd)
    /\ batchEnd # 0 =>
          /\ cursor <= batchEnd
          /\ cursor = batchEnd \/ \A i \in cursor..batchEnd : ParallelSafe(i)

(* A round that ended leaves no call under way.                            *)
EndsSettled ==
    /\ roundPhase # "tools" => batchEnd = 0 \/ BatchSettled
    /\ roundPhase = "done" => batchEnd = 0 /\ cursor = Len(calls) + 1

(* A result is that of a call that ran.                                    *)
ResultsAreReal ==
    \A i \in 1..Len(calls) :
        /\ i \in performed <=> result[i] = Ok
        /\ stage[i] \in {"idle", "hooks", "running"} => result[i] = NoResult
        /\ stage[i] = "running" \/ result[i].ok => Runs(i)

(* The answers so far, and the effects, are in the order of the calls.     *)
ReportedSoFar ==
    /\ answers \in InCallOrder(1..(cursor - 1))
    /\ effects \in InCallOrder({i \in performed : i < cursor})

(* Effects are lost only to a picture that could not be stored.            *)
LostToPicture ==
    effectsLost => roundPhase = "failed" /\ \E i \in 1..Len(calls) : MayShow(i) /\ result[i].ok

RoundInd ==
    /\ RoundRangesOK /\ NothingYet /\ BatchShape /\ EndsSettled
    /\ ResultsAreReal /\ ReportedSoFar /\ LostToPicture

(* The last call of a batch: the first alone, or all are parallel.         *)
LEMMA BatchIsParallel ==
    ASSUME NEW from \in 1..Len(calls), Len(calls) \in Nat
    PROVE  /\ BatchLast(from) \in from..Len(calls)
           /\ BatchLast(from) = from \/ \A i \in from..BatchLast(from) : ParallelSafe(i)
<1> DEFINE Ends == {to \in from..Len(calls) : to < Len(calls) => ~ParallelSafe(to + 1)}
           least == Min(Ends)
<1>1. CASE ~ParallelSafe(from) BY <1>1 DEF BatchLast
<1>2. CASE ParallelSafe(from)
  <2>1. Ends \subseteq Nat /\ Len(calls) \in Ends OBVIOUS
  <2>2. least \in Ends /\ \A y \in Ends : least <= y
    <3> HIDE DEF Ends
    <3> QED BY <2>1, MinIsLeast
  <2> HIDE DEF least
  <2>3. \A i \in from..least : ParallelSafe(i)
    <3> TAKE i \in from..least
    <3>1. CASE i = from BY <1>2, <3>1
    <3>2. CASE i # from
      <4>1. i - 1 \in from..Len(calls) /\ i - 1 < least BY <2>2, <3>2
      <4>2. i - 1 \notin Ends
        <5>1. least \in Int BY <2>1, <2>2
        <5> HIDE DEF Ends
        <5> QED BY <2>2, <4>1, <5>1
      <4> QED BY <4>1, <4>2
    <3> QED BY <3>1, <3>2
  <2>4. \E to \in from..Len(calls) :
            (\A i \in from..to : ParallelSafe(i)) /\ (to < Len(calls) => ~ParallelSafe(to + 1))
    BY <2>2, <2>3
  <2> QED BY <1>2, <2>4 DEF BatchLast
<1> QED BY <1>1, <1>2

(* The listing of one set of calls followed by that of a later one is the  *)
(* listing of both.                                                        *)
LEMMA ListingsJoin ==
    ASSUME NEW S, NEW T, S \subseteq Int, T \subseteq Int, IsFiniteSet(S), IsFiniteSet(T),
           \A i \in S, j \in T : i < j,
           NEW s \in InCallOrder(S), NEW t \in InCallOrder(T)
    PROVE  s \o t \in InCallOrder(S \cup T)
<1> DEFINE m == Cardinality(S)
           n == Cardinality(T)
           U == S \cup T
<1>1. m \in Nat /\ n \in Nat BY FS_CardinalityType
<1>2. S \cap T = {} OBVIOUS
<1>3. Cardinality(U) = m + n
  <2>1. Cardinality(S \cap T) = 0 BY <1>2, FS_EmptySet
  <2>2. Cardinality(U) = Cardinality(S) + Cardinality(T) - Cardinality(S \cap T) BY FS_Union
  <2> QED BY <1>1, <2>1, <2>2
<1> HIDE DEF m, n
<1>4. /\ s \in [1..m -> S] /\ S = {s[i] : i \in 1..m}
      /\ \A i, j \in 1..m : i < j => s[i] < s[j]
  BY DEF InCallOrder, m
<1>5. /\ t \in [1..n -> T] /\ T = {t[i] : i \in 1..n}
      /\ \A i, j \in 1..n : i < j => t[i] < t[j]
  BY DEF InCallOrder, n
<1>6. s \in Seq(U) /\ Len(s) = m BY <1>1, <1>4
<1>7. t \in Seq(U) /\ Len(t) = n BY <1>1, <1>5
<1> DEFINE c == s \o t
<1>8. /\ c \in Seq(U) /\ Len(c) = m + n
      /\ \A i \in 1..(m + n) : c[i] = IF i <= m THEN s[i] ELSE t[i - m]
  <2> HIDE DEF U
  <2> QED BY <1>6, <1>7, ConcatProperties
<1> HIDE DEF c
<1>9. c \in [1..(m + n) -> U]
  <2> HIDE DEF U
  <2> QED BY <1>8, LenProperties
<1>10. \A i, j \in 1..(m + n) : i < j => c[i] < c[j]
  <2> TAKE i, j \in 1..(m + n)
  <2> HAVE i < j
  <2>1. CASE j <= m BY <1>1, <1>4, <1>8, <2>1
  <2>2. CASE i > m
    <3>1. i - m \in 1..n /\ j - m \in 1..n /\ i - m < j - m BY <1>1, <2>2
    <3> QED BY <1>1, <1>5, <1>8, <2>2, <3>1
  <2>3. CASE i <= m /\ j > m
    <3>1. j - m \in 1..n /\ i \in 1..m BY <1>1, <2>3
    <3>2. s[i] \in S /\ t[j - m] \in T BY <1>4, <1>5, <3>1
    <3>3. s[i] < t[j - m] BY <3>2
    <3>4. c[i] = s[i] /\ c[j] = t[j - m] BY <1>1, <1>8, <2>3
    <3> QED BY <3>3, <3>4
  <2> QED BY <1>1, <2>1, <2>2, <2>3
<1>11. U = {c[i] : i \in 1..(m + n)}
  <2>1. \A x \in S : \E i \in 1..(m + n) : c[i] = x
    <3> TAKE x \in S
    <3>1. PICK i \in 1..m : s[i] = x BY <1>4
    <3> QED BY <1>1, <1>8, <3>1
  <2>2. \A x \in T : \E i \in 1..(m + n) : c[i] = x
    <3> TAKE x \in T
    <3>1. PICK i \in 1..n : t[i] = x BY <1>5
    <3>2. i + m \in 1..(m + n) /\ ~(i + m <= m) /\ (i + m) - m = i BY <1>1, <3>1
    <3> QED BY <1>8, <3>1, <3>2
  <2>3. \A i \in 1..(m + n) : c[i] \in U BY <1>9
  <2> QED BY <2>1, <2>2, <2>3
<1> HIDE DEF U
<1>12. c \in InCallOrder(U)
  BY <1>3, <1>9, <1>10, <1>11 DEF InCallOrder
<1> QED BY <1>12 DEF c, U

(* At the start of a round nothing has been answered.                      *)
LEMMA EmptyListing == <<>> \in InCallOrder({})
<1>1. Cardinality({}) = 0 BY FS_EmptySet
<1> QED BY <1>1 DEF InCallOrder

(* A round starts within its invariant.                                     *)
LEMMA RoundStarts == RoundInit => RoundInd
<1> SUFFICES ASSUME RoundInit PROVE RoundInd OBVIOUS
<1> USE DEF RoundInit
<1>1. <<>> \in Seq(ToolCall) /\ Len(<<>>) = 0 BY EmptySeq
<1>2. RoundRangesOK
  <2>1. effectsLost \in BOOLEAN BY Zenon
  <2> QED BY <1>1, <2>1 DEF RoundRangesOK, RoundTypeOK
<1>3. 1..(cursor - 1) = {} /\ {i \in performed : i < cursor} = {} OBVIOUS
<1>4. ReportedSoFar BY <1>3, EmptyListing DEF ReportedSoFar
<1>5. NothingYet /\ BatchShape /\ EndsSettled /\ ResultsAreReal /\ LostToPicture
  BY <1>1 DEF NothingYet, BatchShape, EndsSettled, ResultsAreReal, LostToPicture
<1> QED BY <1>2, <1>4, <1>5 DEF RoundInd

(* A completion that fails ends the round with nothing done.               *)
LEMMA FailedCompletionIsEmpty ==
    ASSUME RoundInd, CompletionFails
    PROVE  RoundInd'
<1>1. /\ calls = <<>> /\ batchEnd = 0 /\ performed = {} /\ effectsLost' = FALSE /\ roundPhase' = "failed"
      /\ UNCHANGED <<completions, calls, cursor, batchEnd, stage, result, performed, answers, effects>>
  BY DEF RoundInd, NothingYet, CompletionFails, RoundThrows
<1>2. RoundRangesOK' BY <1>1 DEF RoundInd, RoundRangesOK, RoundTypeOK
<1>3. BatchShape' /\ ResultsAreReal' /\ ReportedSoFar'
  BY <1>1 DEF RoundInd, BatchShape, ResultsAreReal, ReportedSoFar, ParallelSafe, Runs
<1>4. NothingYet' /\ EndsSettled' /\ LostToPicture'
  BY <1>1 DEF NothingYet, EndsSettled, LostToPicture
<1> QED BY <1>2, <1>3, <1>4 DEF RoundInd

(* Asking for larger output before anything was answered keeps the          *)
(* invariant.                                                               *)
LEMMA EscalationStays ==
    ASSUME RoundInd, Escalate
    PROVE  RoundInd'
<1> USE DEF Escalate
<1>1. RoundRangesOK' BY DEF RoundInd, RoundRangesOK, RoundTypeOK
<1>2. BatchShape' /\ ResultsAreReal' /\ ReportedSoFar'
  BY DEF RoundInd, BatchShape, ResultsAreReal, ReportedSoFar, ParallelSafe, Runs
<1>3. NothingYet' /\ LostToPicture'
  BY DEF RoundInd, NothingYet, LostToPicture
<1>4. EndsSettled' BY DEF RoundInd, NothingYet, EndsSettled
<1> QED BY <1>1, <1>2, <1>3, <1>4 DEF RoundInd

(* An accepted completion gives the round its calls, none of them begun.   *)
LEMMA CompletionGivesCalls ==
    ASSUME RoundInd, NEW asked \in Seq(ToolCall), Complete(asked)
    PROVE  RoundInd'
<1> DEFINE n == Len(asked)
<1>1. n \in Nat BY LenProperties
<1>2. /\ calls' = asked /\ Len(calls') = n
      /\ stage' = [i \in 1..n |-> "idle"] /\ result' = [i \in 1..n |-> NoResult]
      /\ completions' \in 1..2 /\ cursor' = 1 /\ batchEnd' = 0 /\ performed' = {}
      /\ answers' = <<>> /\ effects' = <<>> /\ effectsLost' = FALSE
      /\ roundPhase' \in {"done", "tools"} /\ (roundPhase' = "done" => n = 0)
  <2>1. effectsLost \in BOOLEAN BY DEF RoundInd, RoundRangesOK
  <2>2. roundPhase' = "done" => n = 0 BY EmptySeq DEF Complete
  <2> QED BY <2>1, <2>2 DEF RoundInd, NothingYet, Complete, LostToPicture
<1> HIDE DEF n
<1>3. RoundRangesOK'
  <2>1. effectsLost' \in BOOLEAN BY <1>2, Zenon
  <2>2. stage' \in [1..n -> Stages] /\ DOMAIN result' = 1..n BY <1>2 DEF Stages
  <2> QED BY <1>1, <1>2, <2>1, <2>2 DEF RoundRangesOK, RoundTypeOK
<1>4. 1..(cursor - 1)' = {} /\ {i \in performed' : i < cursor'} = {} BY <1>2
<1>5. ReportedSoFar' BY <1>2, <1>4, EmptyListing DEF ReportedSoFar
<1>6. NoResult # Ok /\ ~NoResult.ok BY DEF NoResult, Refused, Ok
<1>7. ResultsAreReal' BY <1>2, <1>6 DEF ResultsAreReal
<1>8. NothingYet' /\ BatchShape' /\ EndsSettled' /\ LostToPicture'
  BY <1>1, <1>2 DEF NothingYet, BatchShape, EndsSettled, LostToPicture
<1> QED BY <1>3, <1>5, <1>7, <1>8 DEF RoundInd

(* A batch is taken when the one before it is settled.                     *)
LEMMA BatchIsTaken ==
    ASSUME RoundInd, TakeBatch
    PROVE  RoundInd'
<1> DEFINE last == BatchLast(cursor)
<1>1. /\ Len(calls) \in Nat /\ cursor \in 1..Len(calls) /\ batchEnd = 0 /\ roundPhase = "tools"
      /\ stage \in [1..Len(calls) -> Stages]
  BY LenProperties DEF RoundInd, RoundRangesOK, RoundTypeOK, TakeBatch
<1>2. last \in cursor..Len(calls) /\ (last = cursor \/ \A i \in cursor..last : ParallelSafe(i))
  BY <1>1, BatchIsParallel
<1> HIDE DEF last
<1>3. /\ batchEnd' = last
      /\ stage' = [i \in 1..Len(calls) |-> IF i \in cursor..last THEN "hooks" ELSE stage[i]]
      /\ UNCHANGED <<roundPhase, completions, calls, cursor, result, performed, answers, effects,
                     effectsLost>>
  BY <1>1 DEF TakeBatch, last
<1>4. stage' \in [1..Len(calls) -> Stages] BY <1>1, <1>3 DEF Stages
<1>5. RoundRangesOK' BY <1>1, <1>2, <1>3, <1>4 DEF RoundInd, RoundRangesOK, RoundTypeOK
<1>6. BatchShape'
  <2>1. \A i \in 1..Len(calls) : i < cursor => stage[i] = "settled" BY DEF RoundInd, BatchShape
  <2>2. \A i \in 1..Len(calls) : stage[i] # "idle" <=> i < cursor
    BY <1>1 DEF RoundInd, BatchShape
  <2>3. last # 0 /\ cursor <= last BY <1>1, <1>2
  <2> QED BY <1>1, <1>2, <1>3, <2>1, <2>2, <2>3 DEF BatchShape, ParallelSafe
<1>7. ResultsAreReal'
  <2>1. \A i \in 1..Len(calls) : i \in cursor..last => stage[i] = "idle"
    BY <1>1 DEF RoundInd, BatchShape
  <2> QED BY <1>1, <1>3, <2>1 DEF RoundInd, ResultsAreReal, Runs
<1>8. NothingYet' /\ EndsSettled' /\ ReportedSoFar' /\ LostToPicture'
  BY <1>1, <1>3 DEF RoundInd, NothingYet, EndsSettled, ReportedSoFar, LostToPicture, MayShow
<1> QED BY <1>5, <1>6, <1>7, <1>8 DEF RoundInd

(* A call of the batch goes to its next stage; what it returns concerns no *)
(* other call.                                                             *)
LEMMA ToolCallGoesOn ==
    ASSUME RoundInd, NEW i \in 1..Len(calls), i \in InBatch, stage[i] # "settled",
           NEW next \in Stages \ {"idle"}, stage' = [stage EXCEPT ![i] = next],
           UNCHANGED <<roundPhase, completions, calls, cursor, batchEnd, answers, effects, effectsLost>>,
           DOMAIN result' = DOMAIN result, performed' \subseteq performed \cup {i},
           performed \subseteq performed' \cup {i},
           \A j \in 1..Len(calls) \ {i} : result'[j] = result[j],
           i \in performed' <=> result'[i] = Ok,
           next \in {"hooks", "running"} => result'[i] = NoResult,
           next = "running" \/ result'[i].ok => Runs(i)
    PROVE  RoundInd'
<1>1. /\ Len(calls) \in Nat /\ cursor \in Nat /\ batchEnd \in Nat /\ batchEnd # 0
      /\ cursor <= i /\ i <= batchEnd
      /\ stage \in [1..Len(calls) -> Stages]
  BY LenProperties DEF RoundInd, RoundRangesOK, RoundTypeOK, InBatch
<1>2. roundPhase = "tools" /\ ~effectsLost
  BY DEF RoundInd, EndsSettled, LostToPicture, BatchSettled, InBatch
<1>3. RoundRangesOK' BY <1>1 DEF RoundInd, RoundRangesOK, RoundTypeOK
<1>4. BatchShape' BY <1>1 DEF RoundInd, BatchShape, ParallelSafe
<1>5. ResultsAreReal'
  <2>1. \A j \in 1..Len(calls) : j # i =>
            (j \in performed' <=> j \in performed) /\ result'[j] = result[j] /\ stage'[j] = stage[j]
    BY <1>1
  <2>2. stage'[i] = next BY <1>1
  <2> QED BY <2>1, <2>2 DEF RoundInd, ResultsAreReal, Runs
<1>6. {j \in performed' : j < cursor} = {j \in performed : j < cursor} BY <1>1
<1>7. ReportedSoFar' BY <1>6 DEF RoundInd, ReportedSoFar
<1>8. NothingYet' /\ EndsSettled' /\ LostToPicture'
  BY <1>2 DEF NothingYet, EndsSettled, LostToPicture
<1> QED BY <1>3, <1>4, <1>5, <1>7, <1>8 DEF RoundInd

(* So does each step of a call: refusal, start, answer, error and hooks.    *)
LEMMA CallSteps ==
    ASSUME RoundInd, NEW i \in 1..Len(calls),
           \/ RefuseCall(i)
           \/ RunTool(i)
           \/ \E r \in {Ok, Observed, Refused("failed")} : ToolReturns(i, r)
           \/ ToolThrows(i)
           \/ AfterHooks(i)
    PROVE  RoundInd'
<1> USE DEF RoundInd, RoundRangesOK, ResultsAreReal
<1>1. /\ DOMAIN result = 1..Len(calls) /\ performed \subseteq 1..Len(calls)
      /\ i \in performed <=> result[i] = Ok
      /\ stage[i] \in {"idle", "hooks", "running"} => result[i] = NoResult
      /\ stage[i] = "running" \/ result[i].ok => Runs(i)
  OBVIOUS
<1> HIDE DEF RoundInd, RoundRangesOK, ResultsAreReal
<1>2. \A why : Refused(why) # Ok /\ ~Refused(why).ok BY DEF Refused, Ok
<1>3. NoResult # Ok BY <1>2 DEF NoResult
<1>4. Ok.ok /\ Observed # Ok BY DEF Ok, Observed
<1>5. ASSUME NEW why, stage[i] \in {"hooks", "running"}, Settle(i, Refused(why)),
             UNCHANGED performed, i \in InBatch
      PROVE  RoundInd'
  <2>1. result'[i] = Refused(why) /\ i \notin performed BY <1>1, <1>3, <1>5 DEF Settle
  <2> QED BY <1>1, <1>2, <1>5, <2>1, ToolCallGoesOn DEF Settle, Stages
<1>6. CASE RefuseCall(i) BY <1>5, <1>6 DEF RefuseCall
<1>7. CASE RunTool(i) BY <1>1, <1>3, <1>7, ToolCallGoesOn DEF RunTool, Stages, NoResult, Refused
<1>8. ASSUME NEW r \in {Ok, Observed, Refused("failed")}, ToolReturns(i, r) PROVE RoundInd'
  <2>1. i \notin performed /\ Runs(i) BY <1>1, <1>3, <1>8 DEF ToolReturns
  <2>2. result'[i] = r BY <1>1, <1>8 DEF ToolReturns
  <2> QED BY <1>1, <1>8, <2>1, <2>2, ToolCallGoesOn DEF ToolReturns, Stages
<1>9. CASE ToolThrows(i) BY <1>5, <1>9 DEF ToolThrows
<1>10. CASE AfterHooks(i)
  <2>1. result'[i] = result[i] BY <1>1, <1>10 DEF AfterHooks, Settle
  <2> QED BY <1>1, <1>10, <2>1, ToolCallGoesOn DEF AfterHooks, Settle, Stages
<1> QED BY <1>6, <1>7, <1>8, <1>9, <1>10

(* The batch is collected behind what came before it.                      *)
LEMMA BatchIsCollected ==
    ASSUME RoundInd, CollectBatch
    PROVE  RoundInd'
<1> DEFINE before == 1..(cursor - 1)
           acted == {i \in performed : i < cursor}
           acting == {i \in InBatch : result[i] = Ok}
<1>1. /\ Len(calls) \in Nat /\ cursor \in Nat /\ batchEnd \in Nat /\ batchEnd # 0
      /\ 1 <= cursor /\ cursor <= batchEnd /\ batchEnd <= Len(calls)
      /\ InBatch = cursor..batchEnd
      /\ \A i \in cursor..batchEnd : stage[i] = "settled"
  <2>1. Len(calls) \in Nat BY LenProperties DEF RoundInd, RoundRangesOK
  <2>2. batchEnd # 0 /\ InBatch = cursor..batchEnd /\ \A i \in InBatch : stage[i] = "settled"
    BY DEF CollectBatch, BatchSettled, InBatch
  <2> QED BY <2>1, <2>2 DEF RoundInd, RoundRangesOK, RoundTypeOK, BatchShape
<1>2. /\ cursor' = batchEnd + 1 /\ batchEnd' = 0
      /\ roundPhase' = IF batchEnd = Len(calls) THEN "done" ELSE "tools"
      /\ UNCHANGED <<completions, calls, stage, result, performed, effectsLost>>
      /\ roundPhase = "tools" /\ ~effectsLost
  BY DEF RoundInd, LostToPicture, CollectBatch
<1>3. RoundRangesOK' BY <1>1, <1>2 DEF RoundInd, RoundRangesOK, RoundTypeOK
<1>4. BatchShape' BY <1>1, <1>2 DEF RoundInd, BatchShape
<1>5. ResultsAreReal' BY <1>2 DEF RoundInd, ResultsAreReal, Runs
<1>6. NothingYet' /\ EndsSettled' /\ LostToPicture'
  BY <1>1, <1>2 DEF NothingYet, EndsSettled, LostToPicture
<1>7. answers' \in InCallOrder(1..(cursor' - 1))
  <2>1. PICK answered \in InCallOrder(InBatch) : answers' = answers \o answered BY DEF CollectBatch
  <2>2. answers \in InCallOrder(before) BY DEF RoundInd, ReportedSoFar
  <2>3. IsFiniteSet(before) /\ IsFiniteSet(InBatch) BY <1>1, FS_Interval
  <2>4. before \cup InBatch = 1..(cursor' - 1) BY <1>1, <1>2
  <2>5. \A i \in before, j \in InBatch : i < j BY <1>1
  <2>6. before \subseteq Int /\ InBatch \subseteq Int BY <1>1
  <2> HIDE DEF before
  <2>7. answers \o answered \in InCallOrder(before \cup InBatch)
    BY <2>2, <2>3, <2>5, <2>6, ListingsJoin
  <2> QED BY <2>1, <2>4, <2>7
<1>8. effects' \in InCallOrder({i \in performed' : i < cursor'})
  <2>1. PICK done \in InCallOrder(acting) : effects' = effects \o done BY DEF CollectBatch
  <2>2. effects \in InCallOrder(acted) BY DEF RoundInd, ReportedSoFar
  <2>3. performed \subseteq 1..Len(calls) /\ \A i \in 1..Len(calls) : i \in performed <=> result[i] = Ok
    BY DEF RoundInd, RoundRangesOK, ResultsAreReal
  <2>4. acted \subseteq performed /\ acting \subseteq cursor..batchEnd
        /\ acted \subseteq 1..Len(calls) /\ acting \subseteq 1..Len(calls)
    <3>1. acted \subseteq performed /\ acting \subseteq cursor..batchEnd BY <1>1
    <3>2. cursor..batchEnd \subseteq 1..Len(calls) BY <1>1
    <3> QED BY <2>3, <3>1, <3>2
  <2>5. IsFiniteSet(acted) /\ IsFiniteSet(acting)
    <3>1. IsFiniteSet(1..Len(calls)) BY <1>1, FS_Interval
    <3> QED BY <2>4, <3>1, FS_Subset
  <2>6. acted \cup acting = {i \in performed' : i < cursor'}
    <3> SUFFICES ASSUME NEW i \in 1..Len(calls)
                 PROVE  i \in acted \/ i \in acting <=> i \in performed /\ i < batchEnd + 1
      BY <1>2, <2>3, <2>4
    <3> QED BY <1>1, <2>3
  <2>7. \A i \in acted, j \in acting : i < j
    <3> TAKE i \in acted, j \in acting
    <3>1. i < cursor /\ i \in 1..Len(calls) /\ j \in cursor..batchEnd BY <2>4
    <3> QED BY <1>1, <3>1
  <2>8. acted \subseteq Int /\ acting \subseteq Int BY <1>1, <2>4
  <2> HIDE DEF acted, acting
  <2>9. effects \o done \in InCallOrder(acted \cup acting)
    BY <2>2, <2>5, <2>7, <2>8, ListingsJoin
  <2> QED BY <2>1, <2>6, <2>9
<1>9. ReportedSoFar' BY <1>7, <1>8 DEF ReportedSoFar
<1> QED BY <1>3, <1>4, <1>5, <1>6, <1>9 DEF RoundInd

(* A picture that cannot be stored throws the settled round away.          *)
LEMMA PictureLosesRound ==
    ASSUME RoundInd, ImageNotStored
    PROVE  RoundInd'
<1>1. /\ UNCHANGED <<completions, calls, cursor, batchEnd, stage, result, performed, answers, effects>>
      /\ roundPhase' = "failed" /\ effectsLost' \in BOOLEAN /\ BatchSettled
      /\ \E i \in InBatch : MayShow(i) /\ result[i].ok
  BY DEF ImageNotStored, RoundThrows
<1>2. RoundRangesOK' BY <1>1 DEF RoundInd, RoundRangesOK, RoundTypeOK
<1>3. BatchShape' /\ ResultsAreReal' /\ ReportedSoFar'
  BY <1>1 DEF RoundInd, BatchShape, ResultsAreReal, ReportedSoFar, ParallelSafe, Runs
<1>4. NothingYet' /\ EndsSettled'
  BY <1>1 DEF NothingYet, EndsSettled, BatchSettled, InBatch
<1>5. InBatch \subseteq 1..Len(calls)
  BY LenProperties DEF RoundInd, RoundRangesOK, RoundTypeOK, InBatch
<1>6. LostToPicture' BY <1>1, <1>5 DEF LostToPicture, MayShow
<1> QED BY <1>2, <1>3, <1>4, <1>6 DEF RoundInd

(* A call under way is in the batch; if it is not parallel it is the       *)
(* batch.                                                                  *)
LEMMA ExclusiveIsAlone ==
    ASSUME RoundInd, NEW i \in 1..Len(stage), Started(i), ~ParallelSafe(i)
    PROVE  /\ i \in 1..Len(calls)
           /\ \A j \in 1..Len(stage) \ {i} : stage[j] = (IF j < i THEN "settled" ELSE "idle")
<1>1. /\ Len(calls) \in Nat /\ cursor \in Nat /\ batchEnd \in Nat
      /\ stage \in [1..Len(calls) -> Stages]
  BY LenProperties DEF RoundInd, RoundRangesOK, RoundTypeOK
<1>2. Len(stage) = Len(calls) BY <1>1
<1>3. cursor = i /\ batchEnd = i
  BY <1>1, <1>2 DEF RoundInd, BatchShape, Started
<1> QED BY <1>1, <1>2, <1>3 DEF RoundInd, BatchShape

(* Whatever calls a completion holds, exclusive calls and calls that act   *)
(* run alone and in their place, and the round reports each call once and  *)
(* in order.                                                               *)
THEOREM RoundIsSound == RoundSpec => []RoundInv
<1>1. RoundInit => RoundInd BY RoundStarts
<1>2. RoundInd /\ [RoundNext]_roundVars => RoundInd'
  <2> SUFFICES ASSUME RoundInd, [RoundNext]_roundVars PROVE RoundInd' OBVIOUS
  <2>1. CASE CompletionFails BY <2>1, FailedCompletionIsEmpty
  <2>2. CASE Escalate BY <2>2, EscalationStays
  <2>3. ASSUME NEW asked \in BoundedSeq(Offered, MaxCalls), Complete(asked) PROVE RoundInd'
    <3>1. asked \in Seq(ToolCall)
      <4>1. PICK k \in 0..MaxCalls : asked \in [1..k -> Offered] BY <2>3 DEF BoundedSeq, SeqOf
      <4>2. asked \in [1..k -> ToolCall] BY <4>1, CallBoundAssumption
      <4>3. k \in Nat BY CallBoundAssumption
      <4> QED BY <4>2, <4>3
    <3> QED BY <2>3, <3>1, CompletionGivesCalls
  <2>4. CASE TakeBatch BY <2>4, BatchIsTaken
  <2>5. ASSUME NEW i \in 1..Len(calls),
               \/ RefuseCall(i)
               \/ RunTool(i)
               \/ \E r \in {Ok, Observed, Refused("failed")} : ToolReturns(i, r)
               \/ ToolThrows(i)
               \/ AfterHooks(i)
        PROVE  RoundInd'
    BY <2>5, CallSteps
  <2>6. CASE CollectBatch BY <2>6, BatchIsCollected
  <2>7. CASE ImageNotStored BY <2>7, PictureLosesRound
  <2>8. CASE UNCHANGED roundVars
    <3> USE <2>8 DEF roundVars
    <3>1. RoundRangesOK' /\ NothingYet'
      BY DEF RoundInd, RoundRangesOK, RoundTypeOK, NothingYet
    <3>2. BatchShape' /\ ResultsAreReal' /\ ReportedSoFar'
      BY DEF RoundInd, BatchShape, ResultsAreReal, ReportedSoFar, ParallelSafe, Runs
    <3>3. EndsSettled' /\ LostToPicture'
      BY DEF RoundInd, EndsSettled, BatchSettled, InBatch, LostToPicture, MayShow
    <3> QED BY <3>1, <3>2, <3>3 DEF RoundInd
  <2> QED BY <2>1, <2>2, <2>3, <2>4, <2>5, <2>6, <2>7, <2>8 DEF RoundNext
<1>3. RoundInd => RoundInv
  <2> SUFFICES ASSUME RoundInd PROVE RoundInv OBVIOUS
  <2>1. RoundTypeOK BY DEF RoundInd, RoundRangesOK
  <2>2. ExclusiveCallsRunAlone BY ExclusiveIsAlone DEF ExclusiveCallsRunAlone
  <2>3. ActingCallsRunAlone
    <3> SUFFICES ASSUME NEW i \in 1..Len(stage), Started(i), Acts(Found(calls[i]))
                 PROVE  \A j \in 1..Len(stage) \ {i} : stage[j] = (IF j < i THEN "settled" ELSE "idle")
      BY DEF ActingCallsRunAlone
    <3>1. i \in 1..Len(calls)
      <4>1. stage \in [1..Len(calls) -> Stages] /\ Len(calls) \in Nat
        BY LenProperties DEF RoundInd, RoundRangesOK, RoundTypeOK
      <4> QED BY <4>1
    <3>2. calls[i] \in ToolCall BY <3>1, ElementOfSeq DEF RoundInd, RoundRangesOK
    <3>3. ~ParallelSafe(i) BY <3>2, ActingIsExclusive DEF ParallelSafe
    <3> QED BY <3>3, ExclusiveIsAlone
  <2>4. RoundReportsWhatItDid
    <3>1. completions <= 2 /\ performed \subseteq 1..Len(calls) /\ Len(calls) \in Nat
      BY LenProperties DEF RoundInd, RoundRangesOK
    <3>2. effectsLost => \E i \in 1..Len(calls) : MayShow(i) /\ result[i].ok
      BY DEF RoundInd, LostToPicture
    <3>3. ASSUME roundPhase = "done"
          PROVE  /\ answers \in InCallOrder(1..Len(calls)) /\ effects \in InCallOrder(performed)
                 /\ \A i \in 1..Len(calls) : result[i].ok => Runs(i)
      <4>1. cursor = Len(calls) + 1 BY <3>3 DEF RoundInd, EndsSettled
      <4>2. 1..(cursor - 1) = 1..Len(calls) /\ {i \in performed : i < cursor} = performed
        <5>1. \A i \in 1..Len(calls) : i < Len(calls) + 1 BY <3>1
        <5>2. {i \in performed : i < cursor} = performed BY <3>1, <4>1, <5>1
        <5> QED BY <3>1, <4>1, <5>2
      <4> QED BY <4>2 DEF RoundInd, ReportedSoFar, ResultsAreReal
    <3> QED BY <3>1, <3>2, <3>3 DEF RoundReportsWhatItDid
  <2> QED BY <2>1, <2>2, <2>3, <2>4 DEF RoundInv
<1> QED BY <1>1, <1>2, <1>3, PTL DEF RoundSpec
-----------------------------------------------------------------------------
(* Attention: the inductive invariant.                                     *)

Fields == {"disclosed", "handled", "high"}
SpokenIndexes == {i \in 1..Len(entries) : entries[i].role # "compaction"}
At(i, m, k) == entries[i].state[m][k]
Keeps(c, j) == entries[c].firstKept # 0 /\ j >= entries[c].firstKept

(* What a marker handles was disclosed before it.                          *)
MarkersAnswer ==
    \A j \in SpokenIndexes, m \in Boxes : At(j, m, "handled") # 0 =>
        \E i \in SpokenIndexes : i < j /\ At(i, m, "disclosed") >= At(j, m, "handled")

(* A disclosure a marker covers is before the marker: a later one is of a   *)
(* later row.                                                              *)
MarkersFollow ==
    \A i, j \in SpokenIndexes, m \in Boxes :
        At(i, m, "disclosed") # 0 /\ At(i, m, "disclosed") <= At(j, m, "handled") => i < j

(* A compaction makes nothing up.                                          *)
CompactionsRetell ==
    \A c \in CompactionIndexes, m \in Boxes, k \in Fields : At(c, m, k) # 0 =>
        \E i \in SpokenIndexes : i < c /\ At(i, m, k) = At(c, m, k)

(* A compaction that retells a disclosure has the markers that answered it, *)
(* or keeps them.                                                          *)
CompactionsCover ==
    \A c \in CompactionIndexes, j \in SpokenIndexes, m \in Boxes :
        /\ j < c /\ At(c, m, "disclosed") # 0
        /\ At(c, m, "disclosed") <= At(j, m, "handled")
        => At(c, m, "handled") >= At(j, m, "handled") \/ Keeps(c, j)

(* The first compaction retells or keeps every message.                    *)
FirstRetellsAll ==
    \A c \in CompactionIndexes : (\A d \in CompactionIndexes : c <= d) =>
        \A j \in SpokenIndexes, m \in Boxes, k \in Fields :
            j < c => At(c, m, k) >= At(j, m, k) \/ Keeps(c, j)

AttentionInd ==
    /\ AttentionTypeOK
    /\ MarkersAnswer /\ MarkersFollow /\ CompactionsRetell /\ CompactionsCover /\ FirstRetellsAll

(* Capturing: a field of a mailbox is the largest one captured.            *)
LEMMA CaptureIs ==
    ASSUME NEW S \in SUBSET [Boxes -> Cursors], NEW m \in Boxes, NEW k \in Fields
    PROVE  /\ Capture(S)[m][k] \in 0..LastRow
           /\ \A s \in S : s[m][k] <= Capture(S)[m][k]
           /\ Capture(S)[m][k] # 0 => \E s \in S : s[m][k] = Capture(S)[m][k]
<1> DEFINE X == {0} \cup {s[m][k] : s \in S}
<1>1. Capture(S)[m][k] = Max(X)
  <2>1. CASE k = "disclosed" BY <2>1 DEF Capture
  <2>2. CASE k = "handled" BY <2>2 DEF Capture
  <2>3. CASE k = "high" BY <2>3 DEF Capture
  <2> QED BY <2>1, <2>2, <2>3 DEF Fields
<1>2. X \subseteq 0..LastRow
  <2>1. \A s \in S : s[m][k] \in 0..LastRow BY DEF Cursors, Fields
  <2> QED BY <2>1, AttentionAssumption
<1>3. Max(X) \in X /\ \A y \in X : y <= Max(X)
  <2>1. X # {} OBVIOUS
  <2> HIDE DEF X
  <2> QED BY <1>2, <2>1, MaxIsGreatest, AttentionAssumption
<1> QED BY <1>1, <1>2, <1>3

(* What is captured is a state of every mailbox.                           *)
LEMMA CaptureType ==
    ASSUME NEW S \in SUBSET [Boxes -> Cursors]
    PROVE  Capture(S) \in [Boxes -> Cursors]
<1>1. ASSUME NEW m \in Boxes PROVE Capture(S)[m] \in Cursors
  <2>1. \A k \in Fields : Capture(S)[m][k] \in 0..LastRow BY CaptureIs
  <2>2. /\ Capture(S)[m] = [disclosed |-> Capture(S)[m].disclosed, handled |-> Capture(S)[m].handled,
                            high |-> Capture(S)[m].high]
    BY DEF Capture
  <2>3. /\ Capture(S)[m].disclosed \in 0..LastRow /\ Capture(S)[m].handled \in 0..LastRow
        /\ Capture(S)[m].high \in 0..LastRow
    BY <2>1 DEF Fields
  <2> QED BY <2>2, <2>3 DEF Cursors
<1>2. Capture(S) = [m \in Boxes |-> Capture(S)[m]] BY DEF Capture
<1> QED BY <1>1, <1>2

(* The same for the entries of an index set.                               *)
LEMMA CaptureOf ==
    ASSUME AttentionTypeOK, NEW I \in SUBSET (1..Len(entries)), NEW m \in Boxes, NEW k \in Fields,
           NEW state, state = Capture({entries[i].state : i \in I})
    PROVE  /\ state \in [Boxes -> Cursors] /\ state[m][k] \in 0..LastRow
           /\ \A i \in I : At(i, m, k) <= state[m][k]
           /\ state[m][k] \in {0} \cup {At(i, m, k) : i \in I}
<1> DEFINE S == {entries[i].state : i \in I}
<1>1. \A i \in I : entries[i] \in TranscriptEntry
  BY ElementOfSeq DEF AttentionTypeOK
<1>2. S \in SUBSET [Boxes -> Cursors] BY <1>1 DEF TranscriptEntry
<1>3. /\ state[m][k] \in 0..LastRow
      /\ \A s \in S : s[m][k] <= state[m][k]
      /\ state[m][k] # 0 => \E s \in S : s[m][k] = state[m][k]
  <2> HIDE DEF S
  <2>1. state = Capture(S) BY DEF S
  <2>2. Capture(S)[m][k] \in 0..LastRow /\ (\A s \in S : s[m][k] <= Capture(S)[m][k])
        /\ (Capture(S)[m][k] # 0 => \E s \in S : s[m][k] = Capture(S)[m][k])
    BY <1>2, CaptureIs, Zenon
  <2> QED BY <2>1, <2>2, Zenon
<1>4. state \in [Boxes -> Cursors] BY <1>2, CaptureType
<1> QED BY <1>3, <1>4 DEF At

(* The latest compaction, when there is one.                               *)
LEMMA LatestIs ==
    ASSUME AttentionTypeOK
    PROVE  /\ LatestCompaction \in 0..Len(entries) /\ Len(entries) \in Nat
           /\ LatestCompaction = 0 => CompactionIndexes = {}
           /\ LatestCompaction # 0 => LatestCompaction \in CompactionIndexes
           /\ \A c \in CompactionIndexes : c <= LatestCompaction
<1>1. Len(entries) \in Nat BY LenProperties DEF AttentionTypeOK
<1>2. PICK n \in Nat : n = Len(entries) BY <1>1
<1> DEFINE X == {0} \cup CompactionIndexes
<1>3. X \subseteq 0..n /\ X # {} BY <1>1, <1>2 DEF CompactionIndexes
<1>4. Max(X) \in X /\ \A y \in X : y <= Max(X)
  <2> HIDE DEF X
  <2> QED BY <1>2, <1>3, MaxIsGreatest
<1>5. LatestCompaction = Max(X) BY DEF LatestCompaction
<1>6. CompactionIndexes \subseteq 1..n BY <1>2 DEF CompactionIndexes
<1> HIDE DEF LatestCompaction
<1>7. PICK q : q = LatestCompaction OBVIOUS
<1>8. q \in {0} \cup CompactionIndexes /\ \A c \in CompactionIndexes : c <= q BY <1>4, <1>5, <1>7
<1>9. q = 0 => CompactionIndexes = {} BY <1>6, <1>8
<1>10. q \in 0..n BY <1>6, <1>8
<1> QED BY <1>1, <1>2, <1>7, <1>8, <1>9, <1>10

(* The active messages: those after the latest compaction, and those it    *)
(* keeps.                                                                  *)
LEMMA ActiveIs ==
    ASSUME AttentionTypeOK
    PROVE  /\ ActiveIndexes \subseteq SpokenIndexes /\ SpokenIndexes \subseteq 1..Len(entries)
           /\ LatestCompaction = 0 => ActiveIndexes = SpokenIndexes
           /\ \A j \in SpokenIndexes :
                 j \in ActiveIndexes <=> (j > LatestCompaction \/ Keeps(LatestCompaction, j))
           /\ \A i \in ActiveIndexes, j \in SpokenIndexes : i < j => j \in ActiveIndexes
<1>1. /\ LatestCompaction \in Nat /\ Len(entries) \in Nat
      /\ LatestCompaction # 0 => LatestCompaction \in 1..Len(entries)
  BY LatestIs
<1>2. ActiveIndexes = {i \in SpokenIndexes : i > LatestCompaction \/ Keeps(LatestCompaction, i)}
  BY DEF ActiveIndexes, SpokenIndexes, Keeps
<1>3. SpokenIndexes \subseteq 1..Len(entries) BY DEF SpokenIndexes
<1>4. LatestCompaction # 0 => entries[LatestCompaction].firstKept \in Nat
  <2>1. ASSUME LatestCompaction # 0 PROVE entries[LatestCompaction] \in TranscriptEntry
    BY <1>1, <2>1, ElementOfSeq DEF AttentionTypeOK
  <2> QED BY <2>1, AttentionAssumption DEF TranscriptEntry
<1> HIDE DEF LatestCompaction
<1>5. ActiveIndexes \subseteq SpokenIndexes BY <1>2
<1>6. ASSUME LatestCompaction = 0 PROVE ActiveIndexes = SpokenIndexes
  <2>1. \A j \in SpokenIndexes : j > LatestCompaction BY <1>1, <1>3, <1>6
  <2> QED BY <1>2, <2>1
<1>7. \A j \in SpokenIndexes :
        j \in ActiveIndexes <=> (j > LatestCompaction \/ Keeps(LatestCompaction, j))
  BY <1>2
<1>8. ASSUME NEW i \in ActiveIndexes, NEW j \in SpokenIndexes, i < j PROVE j \in ActiveIndexes
  <2>1. i \in Nat /\ j \in Nat BY <1>3, <1>5
  <2>2. i > LatestCompaction \/ Keeps(LatestCompaction, i) BY <1>5, <1>7
  <2>3. j > LatestCompaction \/ Keeps(LatestCompaction, j)
    <3>1. CASE LatestCompaction = 0 BY <1>3, <3>1
    <3>2. CASE LatestCompaction # 0
      <4>1. PICK f : f = entries[LatestCompaction].firstKept OBVIOUS
      <4> QED BY <1>1, <1>4, <1>8, <2>1, <2>2, <3>2, <4>1 DEF Keeps
    <3> QED BY <3>1, <3>2
  <2> QED BY <1>7, <2>3
<1> QED BY <1>3, <1>5, <1>6, <1>7, <1>8

(* An entry more leaves the others as they are.                            *)
LEMMA EntryAppended ==
    ASSUME AttentionTypeOK, NEW e \in TranscriptEntry, entries' = Append(entries, e),
           NEW n, n = Len(entries) + 1
    PROVE  /\ n \in Nat /\ n \notin SpokenIndexes /\ n \notin CompactionIndexes
           /\ entries' \in Seq(TranscriptEntry)
           /\ SpokenIndexes \subseteq 1..(n - 1) /\ CompactionIndexes \subseteq 1..(n - 1)
           /\ e.role # "compaction" =>
                 SpokenIndexes' = SpokenIndexes \cup {n} /\ CompactionIndexes' = CompactionIndexes
           /\ e.role = "compaction" =>
                 SpokenIndexes' = SpokenIndexes /\ CompactionIndexes' = CompactionIndexes \cup {n}
           /\ \A i \in 1..(n - 1) : entries'[i] = entries[i]
           /\ entries'[n] = e
           /\ \A i \in 1..(n - 1), m \in Boxes, k \in Fields : At(i, m, k)' = At(i, m, k)
           /\ \A m \in Boxes, k \in Fields : At(n, m, k)' = e.state[m][k]
           /\ \A c \in 1..(n - 1), j \in Nat : Keeps(c, j)' <=> Keeps(c, j)
           /\ \A j \in Nat : Keeps(n, j)' <=> (e.firstKept # 0 /\ j >= e.firstKept)
<1>1. /\ n \in Nat /\ Len(entries) \in Nat /\ Len(entries) = n - 1 /\ entries \in Seq(TranscriptEntry)
  BY LenProperties DEF AttentionTypeOK
<1>2. /\ entries' \in Seq(TranscriptEntry) /\ Len(entries') = n /\ entries'[n] = e
      /\ \A i \in 1..(n - 1) : entries'[i] = entries[i]
  BY <1>1, AppendProperties
<1>3. n \notin SpokenIndexes /\ n \notin CompactionIndexes
      /\ SpokenIndexes \subseteq 1..(n - 1) /\ CompactionIndexes \subseteq 1..(n - 1)
  BY <1>1 DEF SpokenIndexes, CompactionIndexes
<1>4. 1..n = 1..(n - 1) \cup {n} BY <1>1
<1>5. SpokenIndexes' = {i \in 1..n : entries'[i].role # "compaction"}
      /\ CompactionIndexes' = {i \in 1..n : entries'[i].role = "compaction"}
  BY <1>2 DEF SpokenIndexes, CompactionIndexes
<1>6. SpokenIndexes = {i \in 1..(n - 1) : entries[i].role # "compaction"}
      /\ CompactionIndexes = {i \in 1..(n - 1) : entries[i].role = "compaction"}
  BY <1>1 DEF SpokenIndexes, CompactionIndexes
<1>7. e.role # "compaction" =>
          SpokenIndexes' = SpokenIndexes \cup {n} /\ CompactionIndexes' = CompactionIndexes
  BY <1>2, <1>4, <1>5, <1>6
<1>8. e.role = "compaction" =>
          SpokenIndexes' = SpokenIndexes /\ CompactionIndexes' = CompactionIndexes \cup {n}
  BY <1>2, <1>4, <1>5, <1>6
<1> QED BY <1>1, <1>2, <1>3, <1>7, <1>8 DEF At, Keeps

(* Every entry's fields are row numbers.                                   *)
LEMMA RowsAreNumbers ==
    ASSUME AttentionTypeOK
    PROVE  \A i \in 1..Len(entries), m \in Boxes, k \in Fields : At(i, m, k) \in 0..LastRow
<1> SUFFICES ASSUME NEW i \in 1..Len(entries), NEW m \in Boxes, NEW k \in Fields
             PROVE  At(i, m, k) \in 0..LastRow
  OBVIOUS
<1>1. entries[i] \in TranscriptEntry BY ElementOfSeq DEF AttentionTypeOK
<1>2. entries[i].state[m] \in Cursors BY <1>1 DEF TranscriptEntry
<1> QED BY <1>2 DEF Cursors, Fields, At

(* A message that answers what was disclosed, or discloses a later row,    *)
(* keeps the invariant.                                                    *)
LEMMA SpokenStays ==
    ASSUME AttentionInd, AttentionTypeOK', NEW e \in TranscriptEntry, e.role # "compaction",
           entries' = Append(entries, e),
           \A m \in Boxes : e.state[m]["handled"] # 0 =>
               \E i \in SpokenIndexes : At(i, m, "disclosed") >= e.state[m]["handled"],
           \A m \in Boxes : e.state[m]["disclosed"] # 0 =>
               /\ e.state[m]["handled"] < e.state[m]["disclosed"]
               /\ \A j \in SpokenIndexes : At(j, m, "handled") < e.state[m]["disclosed"]
    PROVE  AttentionInd'
<1>1. PICK n : n = Len(entries) + 1 OBVIOUS
<1> DEFINE Old == 1..(n - 1)
<1>2. /\ n \in Nat /\ n \notin SpokenIndexes /\ n \notin CompactionIndexes
      /\ SpokenIndexes \subseteq Old /\ CompactionIndexes \subseteq Old
      /\ SpokenIndexes' = SpokenIndexes \cup {n} /\ CompactionIndexes' = CompactionIndexes
      /\ \A i \in Old, m \in Boxes, k \in Fields : At(i, m, k)' = At(i, m, k)
      /\ \A m \in Boxes, k \in Fields : At(n, m, k)' = e.state[m][k]
      /\ \A c \in Old, j \in Nat : Keeps(c, j)' <=> Keeps(c, j)
  BY <1>1, EntryAppended DEF AttentionInd
<1>3. /\ \A m \in Boxes, k \in Fields : e.state[m][k] \in 0..LastRow
      /\ \A i \in Old, m \in Boxes, k \in Fields : At(i, m, k) \in 0..LastRow
  <2>1. \A m \in Boxes : e.state[m] \in Cursors BY DEF TranscriptEntry
  <2>2. \A m \in Boxes, k \in Fields : e.state[m][k] \in 0..LastRow BY <2>1 DEF Cursors, Fields
  <2>3. Len(entries) = n - 1 BY <1>1, LenProperties DEF AttentionInd, AttentionTypeOK
  <2> QED BY <2>2, <2>3, RowsAreNumbers DEF AttentionInd
<1>4. "disclosed" \in Fields /\ "handled" \in Fields BY DEF Fields
<1>5. MarkersAnswer'
  <2> SUFFICES ASSUME NEW j \in SpokenIndexes', NEW m \in Boxes, At(j, m, "handled")' # 0
               PROVE  \E i \in SpokenIndexes' : i < j /\ At(i, m, "disclosed")' >= At(j, m, "handled")'
    BY DEF MarkersAnswer
  <2>1. PICK i \in SpokenIndexes : i < j /\ At(i, m, "disclosed") >= At(j, m, "handled")'
    <3>1. CASE j = n BY <1>2, <1>4, <3>1
    <3>2. CASE j # n BY <1>2, <1>4, <3>2 DEF AttentionInd, MarkersAnswer
    <3> QED BY <3>1, <3>2
  <2> QED BY <1>2, <1>4, <2>1
<1>6. MarkersFollow'
  <2> SUFFICES ASSUME NEW i \in SpokenIndexes', NEW j \in SpokenIndexes', NEW m \in Boxes,
                      At(i, m, "disclosed")' # 0, At(i, m, "disclosed")' <= At(j, m, "handled")'
               PROVE  i < j
    BY DEF MarkersFollow
  <2>1. CASE i = n /\ j = n BY <1>2, <1>3, <1>4, <2>1
  <2>2. CASE i = n /\ j # n BY <1>2, <1>3, <1>4, <2>2
  <2>3. CASE i # n /\ j = n BY <1>2, <2>3
  <2>4. CASE i # n /\ j # n BY <1>2, <1>4, <2>4 DEF AttentionInd, MarkersFollow
  <2> QED BY <2>1, <2>2, <2>3, <2>4
<1>7. CompactionsRetell'
  <2> SUFFICES ASSUME NEW c \in CompactionIndexes, NEW m \in Boxes, NEW k \in Fields, At(c, m, k)' # 0
               PROVE  \E i \in SpokenIndexes' : i < c /\ At(i, m, k)' = At(c, m, k)'
    BY <1>2 DEF CompactionsRetell
  <2>1. At(c, m, k)' = At(c, m, k) BY <1>2
  <2>2. PICK i \in SpokenIndexes : i < c /\ At(i, m, k) = At(c, m, k)
    BY <2>1 DEF AttentionInd, CompactionsRetell
  <2> QED BY <1>2, <2>1, <2>2
<1>8. CompactionsCover'
  <2> SUFFICES ASSUME NEW c \in CompactionIndexes, NEW j \in SpokenIndexes', NEW m \in Boxes,
                      j < c, At(c, m, "disclosed")' # 0,
                      At(c, m, "disclosed")' <= At(j, m, "handled")'
               PROVE  At(c, m, "handled")' >= At(j, m, "handled")' \/ Keeps(c, j)'
    BY <1>2 DEF CompactionsCover
  <2>0. c \in Old /\ j \in SpokenIndexes \cup {n} BY <1>2
  <2>1. j \in SpokenIndexes /\ j \in Nat
    <3>1. j # n BY <1>2, <2>0
    <3> QED BY <1>2, <2>0, <3>1
  <2>2. At(c, m, "handled") >= At(j, m, "handled") \/ Keeps(c, j)
    BY <1>2, <1>4, <2>1 DEF AttentionInd, CompactionsCover
  <2> QED BY <1>2, <1>4, <2>1, <2>2
<1>9. FirstRetellsAll'
  <2> SUFFICES ASSUME NEW c \in CompactionIndexes, \A d \in CompactionIndexes : c <= d,
                      NEW j \in SpokenIndexes', NEW m \in Boxes, NEW k \in Fields, j < c
               PROVE  At(c, m, k)' >= At(j, m, k)' \/ Keeps(c, j)'
    BY <1>2 DEF FirstRetellsAll
  <2>0. c \in Old /\ j \in SpokenIndexes \cup {n} BY <1>2
  <2>1. j \in SpokenIndexes /\ j \in Nat
    <3>1. j # n BY <1>2, <2>0
    <3> QED BY <1>2, <2>0, <3>1
  <2>2. At(c, m, k) >= At(j, m, k) \/ Keeps(c, j) BY <2>1 DEF AttentionInd, FirstRetellsAll
  <2> QED BY <1>2, <2>1, <2>2
<1> QED BY <1>5, <1>6, <1>7, <1>8, <1>9 DEF AttentionInd

(* A compaction that captures what it summarizes keeps the invariant.      *)
LEMMA CompactionStays ==
    ASSUME AttentionInd, AttentionTypeOK', NEW e \in TranscriptEntry, e.role = "compaction",
           NEW cut \in Nat, e.firstKept = cut,
           NEW I, I = Summarized(cut), NEW A, A = ActiveIndexes,
           \A m \in Boxes, k \in Fields :
               /\ \A i \in I : At(i, m, k) <= e.state[m][k]
               /\ e.state[m][k] # 0 => \E i \in I : At(i, m, k) = e.state[m][k],
           entries' = Append(entries, e)
    PROVE  AttentionInd'
<1>1. PICK n : n = Len(entries) + 1 OBVIOUS
<1> DEFINE Old == 1..(n - 1)
<1>2. /\ n \in Nat /\ n \notin SpokenIndexes /\ n \notin CompactionIndexes
      /\ SpokenIndexes \subseteq Old /\ CompactionIndexes \subseteq Old
      /\ SpokenIndexes' = SpokenIndexes /\ CompactionIndexes' = CompactionIndexes \cup {n}
      /\ \A i \in Old, m \in Boxes, k \in Fields : At(i, m, k)' = At(i, m, k)
      /\ \A m \in Boxes, k \in Fields : At(n, m, k)' = e.state[m][k]
      /\ \A c \in Old, j \in Nat : Keeps(c, j)' <=> Keeps(c, j)
      /\ \A j \in Nat : Keeps(n, j)' <=> (e.firstKept # 0 /\ j >= e.firstKept)
  BY <1>1, EntryAppended DEF AttentionInd
<1>3. /\ \A m \in Boxes, k \in Fields : e.state[m][k] \in 0..LastRow
      /\ \A i \in Old, m \in Boxes, k \in Fields : At(i, m, k) \in 0..LastRow
  <2>1. \A m \in Boxes : e.state[m] \in Cursors BY DEF TranscriptEntry
  <2>2. \A m \in Boxes, k \in Fields : e.state[m][k] \in 0..LastRow BY <2>1 DEF Cursors, Fields
  <2>3. Len(entries) = n - 1 BY <1>1, LenProperties DEF AttentionInd, AttentionTypeOK
  <2> QED BY <2>2, <2>3, RowsAreNumbers DEF AttentionInd
<1>4. "disclosed" \in Fields /\ "handled" \in Fields BY DEF Fields
<1>5. /\ A \subseteq SpokenIndexes /\ I = {i \in A : cut = 0 \/ i < cut}
      /\ CompactionIndexes = {} => A = SpokenIndexes
      /\ \A i \in A, j \in SpokenIndexes : i < j => j \in A
  <2>1. LatestCompaction # 0 => CompactionIndexes # {} BY LatestIs DEF AttentionInd
  <2> QED BY <2>1, ActiveIs DEF AttentionInd, Summarized
<1>6. \A j \in A : j \in I \/ Keeps(n, j)' BY <1>2, <1>5
<1>7. MarkersAnswer' /\ MarkersFollow'
  <2>1. ASSUME NEW i \in SpokenIndexes, NEW m \in Boxes
        PROVE  /\ At(i, m, "disclosed")' = At(i, m, "disclosed")
               /\ At(i, m, "handled")' = At(i, m, "handled")
    BY <1>2, <1>4
  <2>2. MarkersAnswer' BY <1>2, <2>1 DEF AttentionInd, MarkersAnswer
  <2>3. MarkersFollow' BY <1>2, <2>1 DEF AttentionInd, MarkersFollow
  <2> QED BY <2>2, <2>3
<1>8. CompactionsRetell'
  <2> SUFFICES ASSUME NEW c \in CompactionIndexes', NEW m \in Boxes, NEW k \in Fields, At(c, m, k)' # 0
               PROVE  \E i \in SpokenIndexes : i < c /\ At(i, m, k)' = At(c, m, k)'
    BY <1>2 DEF CompactionsRetell
  <2>1. CASE c = n BY <1>2, <1>5, <2>1
  <2>2. CASE c # n BY <1>2, <2>2 DEF AttentionInd, CompactionsRetell
  <2> QED BY <2>1, <2>2
<1>9. CompactionsCover'
  <2> SUFFICES ASSUME NEW c \in CompactionIndexes', NEW j \in SpokenIndexes, NEW m \in Boxes,
                      j < c, At(c, m, "disclosed")' # 0,
                      At(c, m, "disclosed")' <= At(j, m, "handled")'
               PROVE  At(c, m, "handled")' >= At(j, m, "handled")' \/ Keeps(c, j)'
    BY <1>2 DEF CompactionsCover
  <2>1. CASE c = n
    <3>1. PICK i \in I : At(i, m, "disclosed") = e.state[m]["disclosed"] BY <1>2, <1>4, <2>1
    <3>2. i \in SpokenIndexes /\ i \in A BY <1>5
    <3>3. At(i, m, "disclosed") # 0 /\ At(i, m, "disclosed") <= At(j, m, "handled")
      BY <1>2, <1>4, <2>1, <3>1, <3>2
    <3>4. i < j BY <3>2, <3>3 DEF AttentionInd, MarkersFollow
    <3>5. j \in A BY <1>5, <3>2, <3>4
    <3>6. CASE j \in I
      <4>1. At(j, m, "handled") <= e.state[m]["handled"] BY <1>4, <3>6
      <4> QED BY <1>2, <1>3, <1>4, <2>1, <4>1
    <3>7. CASE j \notin I BY <1>6, <2>1, <3>5, <3>7
    <3> QED BY <3>6, <3>7
  <2>2. CASE c # n
    <3>1. c \in CompactionIndexes /\ j \in Nat BY <1>2, <2>2
    <3>2. At(c, m, "handled") >= At(j, m, "handled") \/ Keeps(c, j)
      BY <1>2, <1>4, <3>1 DEF AttentionInd, CompactionsCover
    <3> QED BY <1>2, <1>4, <3>1, <3>2
  <2> QED BY <2>1, <2>2
<1>10. FirstRetellsAll'
  <2> SUFFICES ASSUME NEW c \in CompactionIndexes', \A d \in CompactionIndexes' : c <= d,
                      NEW j \in SpokenIndexes, NEW m \in Boxes, NEW k \in Fields, j < c
               PROVE  At(c, m, k)' >= At(j, m, k)' \/ Keeps(c, j)'
    BY <1>2 DEF FirstRetellsAll
  <2>1. CASE c = n
    <3>1. CompactionIndexes = {} BY <1>2, <2>1
    <3>2. j \in A BY <1>5, <3>1
    <3>3. CASE j \in I
      <4>1. At(j, m, k) <= e.state[m][k] BY <3>3
      <4> QED BY <1>2, <1>3, <2>1, <4>1
    <3>4. CASE j \notin I BY <1>6, <2>1, <3>2, <3>4
    <3> QED BY <3>3, <3>4
  <2>2. CASE c # n
    <3>1. c \in CompactionIndexes /\ j \in Nat /\ \A d \in CompactionIndexes : c <= d BY <1>2, <2>2
    <3>2. At(c, m, k) >= At(j, m, k) \/ Keeps(c, j) BY <3>1 DEF AttentionInd, FirstRetellsAll
    <3> QED BY <1>2, <3>1, <3>2
  <2> QED BY <2>1, <2>2
<1> QED BY <1>7, <1>8, <1>9, <1>10 DEF AttentionInd

(* What the transcript says, and what happened, of a mailbox.              *)
LEMMA TranscriptSays ==
    ASSUME AttentionInd, NEW m \in Boxes, NEW k \in Fields, NEW q, q = LatestCompaction
    PROVE  /\ Projected[m][k] \in 0..LastRow /\ Happened[m][k] \in 0..LastRow
           /\ \A i \in ActiveIndexes : At(i, m, k) <= Projected[m][k]
           /\ q # 0 => At(q, m, k) <= Projected[m][k]
           /\ Projected[m][k] # 0 => \/ \E i \in ActiveIndexes : At(i, m, k) = Projected[m][k]
                                     \/ q # 0 /\ At(q, m, k) = Projected[m][k]
           /\ \A i \in SpokenIndexes : At(i, m, k) <= Happened[m][k]
           /\ Happened[m][k] # 0 => \E i \in SpokenIndexes : At(i, m, k) = Happened[m][k]
<1>1. PICK I : I = ActiveIndexes \cup (IF LatestCompaction = 0 THEN {} ELSE {LatestCompaction})
  OBVIOUS
<1>4. Projected = Capture({entries[i].state : i \in I}) BY <1>1 DEF Projected
<1>5. Happened = Capture({entries[i].state : i \in SpokenIndexes}) BY DEF Happened, SpokenIndexes
<1>6. SpokenIndexes \in SUBSET (1..Len(entries)) BY DEF SpokenIndexes
<1>7. I \in SUBSET (1..Len(entries))
  <2>1. LatestCompaction # 0 => LatestCompaction \in 1..Len(entries)
    BY LatestIs DEF AttentionInd, CompactionIndexes
  <2>2. ActiveIndexes \subseteq 1..Len(entries) BY ActiveIs DEF AttentionInd
  <2> QED BY <1>1, <2>1, <2>2
<1>8. /\ Projected \in [Boxes -> Cursors] /\ Projected[m][k] \in 0..LastRow
      /\ \A i \in I : At(i, m, k) <= Projected[m][k]
      /\ Projected[m][k] # 0 => \E i \in I : At(i, m, k) = Projected[m][k]
  <2>1. AttentionTypeOK BY DEF AttentionInd
  <2>2. PICK s : s = Projected OBVIOUS
  <2>3. s = Capture({entries[i].state : i \in I}) BY <1>4, <2>2
  <2>4. s \in [Boxes -> Cursors] /\ s[m][k] \in 0..LastRow BY <1>7, <2>1, <2>3, CaptureOf
  <2>5. \A i \in I : At(i, m, k) <= s[m][k] BY <1>7, <2>1, <2>3, CaptureOf
  <2>6. s[m][k] \in {0} \cup {At(i, m, k) : i \in I} BY <1>7, <2>1, <2>3, CaptureOf
  <2> QED BY <2>2, <2>4, <2>5, <2>6
<1>9. /\ Happened \in [Boxes -> Cursors] /\ Happened[m][k] \in 0..LastRow
      /\ \A i \in SpokenIndexes : At(i, m, k) <= Happened[m][k]
      /\ Happened[m][k] # 0 => \E i \in SpokenIndexes : At(i, m, k) = Happened[m][k]
  <2>1. AttentionTypeOK BY DEF AttentionInd
  <2>2. PICK s : s = Happened OBVIOUS
  <2>3. s = Capture({entries[i].state : i \in SpokenIndexes}) BY <1>5, <2>2
  <2>4. s \in [Boxes -> Cursors] /\ s[m][k] \in 0..LastRow BY <1>6, <2>1, <2>3, CaptureOf
  <2>5. \A i \in SpokenIndexes : At(i, m, k) <= s[m][k] BY <1>6, <2>1, <2>3, CaptureOf
  <2>6. s[m][k] \in {0} \cup {At(i, m, k) : i \in SpokenIndexes} BY <1>6, <2>1, <2>3, CaptureOf
  <2> QED BY <2>2, <2>4, <2>5, <2>6
<1>10. I = ActiveIndexes \cup (IF q = 0 THEN {} ELSE {q}) BY <1>1
<1> QED BY <1>8, <1>9, <1>10

(* What the transcript says is what some message said.                     *)
LEMMA TranscriptIsTrue ==
    ASSUME AttentionInd, NEW m \in Boxes, NEW k \in Fields, Projected[m][k] # 0
    PROVE  \E i \in SpokenIndexes : At(i, m, k) = Projected[m][k]
<1>1. PICK q : q = LatestCompaction OBVIOUS
<1>2. CASE \E i \in ActiveIndexes : At(i, m, k) = Projected[m][k]
  BY <1>2, ActiveIs DEF AttentionInd
<1>3. CASE q # 0 /\ At(q, m, k) = Projected[m][k]
  <2>1. q \in CompactionIndexes BY <1>1, <1>3, LatestIs DEF AttentionInd
  <2> QED BY <1>3, <2>1 DEF AttentionInd, CompactionsRetell
<1> QED BY <1>1, <1>2, <1>3, TranscriptSays

(* The transcript's cursors do not exceed what happened.                   *)
LEMMA TranscriptIsBounded ==
    ASSUME AttentionInd, NEW m \in Boxes, NEW k \in Fields
    PROVE  Projected[m][k] <= Happened[m][k]
<1>1. PICK q : q = LatestCompaction OBVIOUS
<1>2. Projected[m][k] \in Nat /\ Happened[m][k] \in Nat
  BY <1>1, TranscriptSays, AttentionAssumption
<1>3. CASE Projected[m][k] = 0 BY <1>2, <1>3
<1>4. CASE Projected[m][k] # 0 BY <1>1, <1>4, TranscriptIsTrue, TranscriptSays
<1> QED BY <1>3, <1>4

(* The invariant implies what the run checks.                              *)
LEMMA IndImpliesAttention == AttentionInd => AttentionInv
<1> SUFFICES ASSUME AttentionInd PROVE AttentionInv OBVIOUS
<1> USE AttentionAssumption
<1>1. PICK q : q = LatestCompaction OBVIOUS
<1>2. "disclosed" \in Fields /\ "handled" \in Fields /\ "high" \in Fields BY DEF Fields
<1>3. AnsweredStaysAnswered
  <2> SUFFICES ASSUME NEW m \in Boxes, Projected[m]["disclosed"] > Projected[m]["handled"],
                      ~(Happened[m]["disclosed"] > Happened[m]["handled"])
               PROVE  FALSE
    BY DEF AnsweredStaysAnswered, Pending
  <2>1. PICK d : d = Projected[m]["disclosed"] OBVIOUS
  <2>2. PICK h : h = Happened[m]["handled"] OBVIOUS
  <2>3. /\ d \in Nat /\ h \in Nat /\ Projected[m]["handled"] \in Nat
        /\ Happened[m]["disclosed"] \in Nat
    BY <1>1, <1>2, <2>1, <2>2, TranscriptSays
  <2>4. d > 0 /\ d <= h BY <1>2, <2>1, <2>2, <2>3, TranscriptIsBounded
  <2>5. PICK j \in SpokenIndexes : At(j, m, "handled") = h
    BY <1>1, <1>2, <2>2, <2>3, <2>4, TranscriptSays
  <2>6. j \notin ActiveIndexes
    <3> SUFFICES ASSUME j \in ActiveIndexes PROVE FALSE OBVIOUS
    <3>1. h <= Projected[m]["handled"] BY <1>1, <1>2, <2>5, TranscriptSays
    <3> QED BY <2>1, <2>3, <2>4, <3>1
  <2>7. /\ \A i \in ActiveIndexes : i < j => j \in ActiveIndexes
        /\ j \in ActiveIndexes <=> (j > q \/ Keeps(q, j))
        /\ ActiveIndexes \subseteq SpokenIndexes /\ j \in Nat /\ q \in Nat
    <3>1. LatestCompaction \in Nat /\ SpokenIndexes \subseteq Nat
      BY LatestIs DEF AttentionInd, SpokenIndexes
    <3> QED BY <1>1, <3>1, ActiveIs DEF AttentionInd
  <2>8. CASE \E i \in ActiveIndexes : At(i, m, "disclosed") = d
    <3>1. PICK i \in ActiveIndexes : At(i, m, "disclosed") = d BY <2>8
    <3>2. i < j BY <2>3, <2>4, <2>5, <2>7, <3>1 DEF AttentionInd, MarkersFollow
    <3> QED BY <2>6, <2>7, <3>2
  <2>9. CASE q # 0 /\ At(q, m, "disclosed") = d
    <3>1. q \in CompactionIndexes BY <1>1, <2>9, LatestIs DEF AttentionInd
    <3>2. j < q /\ ~Keeps(q, j)
      <4>1. j # q BY <3>1 DEF CompactionIndexes, SpokenIndexes
      <4> QED BY <2>6, <2>7, <4>1
    <3>3. At(q, m, "handled") >= h
      BY <2>3, <2>4, <2>5, <2>9, <3>1, <3>2 DEF AttentionInd, CompactionsCover
    <3>4. At(q, m, "handled") <= Projected[m]["handled"] BY <1>1, <1>2, <2>9, TranscriptSays
    <3>5. At(q, m, "handled") \in Nat
      BY <1>2, <3>1, RowsAreNumbers DEF AttentionInd, CompactionIndexes
    <3> QED BY <2>1, <2>3, <2>4, <3>3, <3>4, <3>5
  <2> QED BY <1>1, <1>2, <2>1, <2>3, <2>4, <2>8, <2>9, TranscriptSays
<1>4. HandledWasDisclosed
  <2> SUFFICES ASSUME NEW m \in Boxes PROVE Happened[m]["handled"] <= Happened[m]["disclosed"]
    BY DEF HandledWasDisclosed
  <2>1. Happened[m]["handled"] \in Nat /\ Happened[m]["disclosed"] \in Nat
    BY <1>1, <1>2, TranscriptSays
  <2>2. CASE Happened[m]["handled"] = 0 BY <2>1, <2>2
  <2>3. CASE Happened[m]["handled"] # 0
    <3>1. PICK j \in SpokenIndexes : At(j, m, "handled") = Happened[m]["handled"]
      BY <1>1, <1>2, <2>3, TranscriptSays
    <3>2. PICK i \in SpokenIndexes : At(i, m, "disclosed") >= At(j, m, "handled")
      BY <2>3, <3>1 DEF AttentionInd, MarkersAnswer
    <3>3. At(i, m, "disclosed") <= Happened[m]["disclosed"] BY <1>1, <1>2, TranscriptSays
    <3>4. At(i, m, "disclosed") \in Nat
      BY <1>2, RowsAreNumbers DEF AttentionInd, SpokenIndexes
    <3> QED BY <2>1, <3>1, <3>2, <3>3, <3>4
  <2> QED BY <2>2, <2>3
<1>5. FirstCompactionKeepsAttention
  <2> SUFFICES ASSUME Cardinality(CompactionIndexes) <= 1
               PROVE  Pending(Projected) = Pending(Happened) /\ Demanding(Projected) = Demanding(Happened)
    BY DEF FirstCompactionKeepsAttention
  <2>1. \A c, d \in CompactionIndexes : c = d
    <3>1. IsFiniteSet(CompactionIndexes)
      <4>1. CompactionIndexes \subseteq 1..Len(entries) /\ Len(entries) \in Nat
        BY LatestIs DEF AttentionInd, CompactionIndexes
      <4>2. IsFiniteSet(1..Len(entries)) BY <4>1, FS_Interval
      <4> QED BY <4>1, <4>2, FS_Subset
    <3> SUFFICES ASSUME NEW c \in CompactionIndexes, NEW d \in CompactionIndexes, c # d PROVE FALSE
      OBVIOUS
    <3>2. {c, d} \subseteq CompactionIndexes OBVIOUS
    <3>3. Cardinality({c, d}) = 2
      <4>1. Cardinality({c}) = 1 /\ IsFiniteSet({c}) BY FS_Singleton
      <4>2. {c, d} = {c} \cup {d} OBVIOUS
      <4> QED BY <4>1, <4>2, FS_AddElement
    <3>4. Cardinality({c, d}) <= Cardinality(CompactionIndexes) BY <3>1, <3>2, FS_Subset
    <3>5. Cardinality(CompactionIndexes) \in Nat BY <3>1, FS_CardinalityType
    <3> QED BY <3>3, <3>4, <3>5
  <2>2. \A m \in Boxes, k \in Fields : Happened[m][k] <= Projected[m][k]
    <3> SUFFICES ASSUME NEW m \in Boxes, NEW k \in Fields PROVE Happened[m][k] <= Projected[m][k]
      OBVIOUS
    <3>1. Happened[m][k] \in Nat /\ Projected[m][k] \in Nat BY <1>1, TranscriptSays
    <3>2. CASE Happened[m][k] = 0 BY <3>1, <3>2
    <3>3. CASE Happened[m][k] # 0
      <4>1. PICK j \in SpokenIndexes : At(j, m, k) = Happened[m][k] BY <1>1, <3>3, TranscriptSays
      <4>2. CASE j \in ActiveIndexes BY <1>1, <4>1, <4>2, TranscriptSays
      <4>3. CASE j \notin ActiveIndexes
        <5>1. q \in Nat /\ j \in Nat /\ ~(j > q) /\ ~Keeps(q, j) /\ q # 0
          <6>1. LatestCompaction \in Nat /\ SpokenIndexes \subseteq Nat
            BY LatestIs DEF AttentionInd, SpokenIndexes
          <6> QED BY <1>1, <4>3, <6>1, ActiveIs DEF AttentionInd
        <5>2. q \in CompactionIndexes BY <1>1, <5>1, LatestIs DEF AttentionInd
        <5>3. j < q /\ ~Keeps(q, j)
          <6>1. j # q BY <5>2 DEF CompactionIndexes, SpokenIndexes
          <6> QED BY <4>3, <5>1, <6>1
        <5>4. \A d \in CompactionIndexes : q <= d BY <2>1, <5>1, <5>2
        <5>5. At(q, m, k) >= At(j, m, k) BY <5>2, <5>3, <5>4 DEF AttentionInd, FirstRetellsAll
        <5>6. At(q, m, k) <= Projected[m][k] BY <1>1, <5>1, TranscriptSays
        <5>7. At(q, m, k) \in Nat BY <5>2, RowsAreNumbers DEF AttentionInd, CompactionIndexes
        <5> QED BY <3>1, <4>1, <5>5, <5>6, <5>7
      <4> QED BY <4>2, <4>3
    <3> QED BY <3>2, <3>3
  <2>3. \A m \in Boxes, k \in Fields : Happened[m][k] = Projected[m][k]
    <3> SUFFICES ASSUME NEW m \in Boxes, NEW k \in Fields PROVE Happened[m][k] = Projected[m][k]
      OBVIOUS
    <3>1. Happened[m][k] \in Nat /\ Projected[m][k] \in Nat BY <1>1, TranscriptSays
    <3> QED BY <2>2, <3>1, TranscriptIsBounded
  <2>4. \A m \in Boxes : /\ Happened[m].disclosed = Projected[m].disclosed
                         /\ Happened[m].handled = Projected[m].handled
                         /\ Happened[m].high = Projected[m].high
    BY <1>2, <2>3
  <2> QED BY <2>4 DEF Pending, Demanding
<1> QED BY <1>3, <1>4, <1>5 DEF AttentionInv, AttentionInd

(* The type carries over to a ledger with an entry more.                   *)
LEMMA AppendKeepsType ==
    ASSUME AttentionTypeOK, NEW e \in TranscriptEntry, \A m \in Private : e.state[m].high = 0,
           entries' = Append(entries, e),
           inboxRead' \in [Boxes -> 0..LastRow], sent' \subseteq Boxes
    PROVE  AttentionTypeOK'
<1>1. PICK n : n = Len(entries) + 1 OBVIOUS
<1>2. /\ n \in Nat /\ entries' \in Seq(TranscriptEntry) /\ entries'[n] = e
      /\ \A i \in 1..(n - 1) : entries'[i] = entries[i]
  BY <1>1, EntryAppended
<1>3. Len(entries') = n /\ Len(entries) = n - 1
  BY <1>1, AppendProperties, LenProperties DEF AttentionTypeOK
<1>4. ASSUME NEW i \in 1..n, NEW m \in Private PROVE entries'[i].state[m].high = 0
  <2>1. CASE i = n BY <1>2, <2>1
  <2>2. CASE i # n
    <3>1. i \in 1..(n - 1) BY <1>2, <2>2
    <3> QED BY <1>2, <1>3, <3>1 DEF AttentionTypeOK
  <2> QED BY <2>1, <2>2
<1> QED BY <1>2, <1>3, <1>4 DEF AttentionTypeOK

(* Steps that leave the ledger as it is.                                   *)
LEMMA SameLedger ==
    ASSUME AttentionInd, UNCHANGED entries, inboxRead' \in [Boxes -> 0..LastRow], sent' \subseteq Boxes
    PROVE  AttentionInd'
<1>1. AttentionTypeOK' BY DEF AttentionInd, AttentionTypeOK
<1> QED BY <1>1 DEF AttentionInd, MarkersAnswer, MarkersFollow, CompactionsRetell, CompactionsCover,
                    FirstRetellsAll, SpokenIndexes, CompactionIndexes, At, Keeps

(* What is said about a message's own mailboxes.                           *)
LEMMA EntryIs ==
    ASSUME NEW role \in {"user", "round"}, NEW state \in [Boxes -> Cursors]
    PROVE  /\ MessageEntry(role, state) \in TranscriptEntry
           /\ MessageEntry(role, state).role # "compaction"
           /\ MessageEntry(role, state).state = state
BY AttentionAssumption DEF MessageEntry, TranscriptEntry

(* A disclosure is of a row past those disclosed, thus past those handled.  *)
LEMMA DiscloseStays ==
    ASSUME AttentionInd, NEW b \in Boxes, NEW row \in 1..LastRow, NEW high \in BOOLEAN,
           NEW direct \in BOOLEAN, Disclose(b, row, high, direct)
    PROVE  AttentionInd'
<1> USE AttentionAssumption
<1>0. PICK state : state = DisclosureState(b, row, high) OBVIOUS
<1>1. /\ state \in [Boxes -> Cursors]
      /\ \A m \in Boxes : state[m]["handled"] = 0
      /\ \A m \in Boxes : state[m]["disclosed"] # 0 => m = b /\ state[m]["disclosed"] = row
      /\ \A m \in Private : state[m].high = 0
  <2>1. Silent \in [Boxes -> Cursors] /\ \A m \in Boxes : Silent[m] = NoCursors
    BY DEF Silent, NoCursors, Cursors
  <2>2. PICK own : own = [disclosed |-> row, handled |-> 0,
                           high |-> IF high /\ b \in Group THEN row ELSE 0]
    OBVIOUS
  <2>3. own \in Cursors /\ own.handled = 0 /\ own.disclosed = row /\ (b \in Private => own.high = 0)
    BY <2>2, MailboxesAssumption DEF Cursors
  <2>4. state = [Silent EXCEPT ![b] = own] BY <1>0, <2>2 DEF DisclosureState
  <2>5. /\ state \in [Boxes -> Cursors]
        /\ \A m \in Boxes : state[m] = IF m = b THEN own ELSE NoCursors
    BY <2>1, <2>3, <2>4
  <2>6. Private \subseteq Boxes BY DEF Boxes
  <2> QED BY <2>3, <2>5, <2>6 DEF NoCursors
<1>2. PICK e : e = MessageEntry("user", state) OBVIOUS
<1>3. e \in TranscriptEntry /\ e.role # "compaction" /\ e.state = state BY <1>1, <1>2, EntryIs
<1>4. /\ entries' = Append(entries, e) /\ row > Happened[b].disclosed /\ UNCHANGED sent
      /\ inboxRead' \in [Boxes -> 0..LastRow]
  <2>1. Later(inboxRead[b], row) \in 0..LastRow BY DEF Later, AttentionInd, AttentionTypeOK
  <2>2. inboxRead' \in {inboxRead, [inboxRead EXCEPT ![b] = Later(inboxRead[b], row)]}
    BY DEF Disclose
  <2> QED BY <1>0, <1>2, <2>1, <2>2 DEF Disclose, AttentionInd, AttentionTypeOK
<1>5. AttentionTypeOK' BY <1>1, <1>3, <1>4, AppendKeepsType DEF AttentionInd, AttentionTypeOK
<1>6. \A j \in SpokenIndexes : At(j, b, "handled") < row
  <2> SUFFICES ASSUME NEW j \in SpokenIndexes PROVE At(j, b, "handled") < row OBVIOUS
  <2>0. PICK q : q = LatestCompaction OBVIOUS
  <2>1. "disclosed" \in Fields /\ "handled" \in Fields BY DEF Fields
  <2>2. At(j, b, "handled") \in Nat BY <2>1, RowsAreNumbers DEF AttentionInd, SpokenIndexes
  <2>3. CASE At(j, b, "handled") = 0 BY <2>3
  <2>4. CASE At(j, b, "handled") # 0
    <3>1. PICK i \in SpokenIndexes : At(i, b, "disclosed") >= At(j, b, "handled")
      BY <2>4 DEF AttentionInd, MarkersAnswer
    <3>2. At(i, b, "disclosed") <= Happened[b]["disclosed"] /\ Happened[b]["disclosed"] \in Nat
      BY <2>0, <2>1, TranscriptSays
    <3>3. At(i, b, "disclosed") \in Nat BY <2>1, RowsAreNumbers DEF AttentionInd, SpokenIndexes
    <3> QED BY <1>4, <2>2, <3>1, <3>2, <3>3
  <2> QED BY <2>3, <2>4
<1>7. \A m \in Boxes : e.state[m]["disclosed"] # 0 =>
          /\ e.state[m]["handled"] < e.state[m]["disclosed"]
          /\ \A j \in SpokenIndexes : At(j, m, "handled") < e.state[m]["disclosed"]
  BY <1>1, <1>3, <1>6
<1>8. \A m \in Boxes : e.state[m]["handled"] = 0 BY <1>1, <1>3
<1> QED BY <1>3, <1>4, <1>5, <1>7, <1>8, SpokenStays

(* A round says nothing of mailboxes.                                      *)
LEMMA RoundStays ==
    ASSUME AttentionInd, NEW targets \in SUBSET Boxes, NEW b \in Boxes, NEW row \in 0..LastRow,
           RunRound(targets, b, row)
    PROVE  AttentionInd'
<1> USE AttentionAssumption
<1>1. Silent \in [Boxes -> Cursors] /\ \A m \in Boxes : Silent[m] = NoCursors
  BY DEF Silent, NoCursors, Cursors
<1>2. PICK e : e = MessageEntry("round", Silent) OBVIOUS
<1>3. e \in TranscriptEntry /\ e.role # "compaction" /\ e.state = Silent BY <1>1, <1>2, EntryIs
<1>4. /\ entries' = Append(entries, e) /\ sent' = targets
      /\ inboxRead' = [inboxRead EXCEPT ![b] = Later(inboxRead[b], row)]
  BY <1>2 DEF RunRound
<1>5. Later(inboxRead[b], row) \in 0..LastRow BY DEF Later, AttentionInd, AttentionTypeOK
<1>6. inboxRead' \in [Boxes -> 0..LastRow] BY <1>4, <1>5 DEF AttentionInd, AttentionTypeOK
<1>7. \A m \in Boxes : e.state[m]["handled"] = 0 /\ e.state[m]["disclosed"] = 0
  BY <1>1, <1>3 DEF NoCursors
<1>8. \A m \in Private : e.state[m].high = 0 BY <1>1, <1>3 DEF NoCursors, Boxes
<1>9. AttentionTypeOK' BY <1>3, <1>4, <1>6, <1>8, AppendKeepsType DEF AttentionInd
<1> QED BY <1>3, <1>4, <1>7, <1>9, SpokenStays

(* A marker handles what the transcript discloses, which some message did.  *)
LEMMA MarkersStay ==
    ASSUME AttentionInd, CommitMarkers
    PROVE  AttentionInd'
<1> USE AttentionAssumption
<1>0. PICK q : q = LatestCompaction OBVIOUS
<1>1. PICK targets \in SUBSET Boxes :
          /\ entries' = IF targets = {} THEN entries
                        ELSE Append(entries, MessageEntry("user", MarkerState(targets)))
          /\ sent' = {} /\ UNCHANGED inboxRead
  <2>1. sent \cap Pending(Projected) \in SUBSET Boxes BY DEF AttentionInd, AttentionTypeOK
  <2> QED BY <2>1 DEF CommitMarkers
<1>2. inboxRead' \in [Boxes -> 0..LastRow] /\ sent' \subseteq Boxes
  BY <1>1 DEF AttentionInd, AttentionTypeOK
<1>3. CASE targets = {} BY <1>1, <1>2, <1>3, SameLedger
<1>4. CASE targets # {}
  <2>1. "disclosed" \in Fields /\ "handled" \in Fields BY DEF Fields
  <2>2. PICK state : state = MarkerState(targets) OBVIOUS
  <2>3. \A m \in Boxes : state[m] = IF m \in targets THEN [NoCursors EXCEPT !.handled = Projected[m].disclosed]
                                    ELSE NoCursors
    BY <2>2 DEF MarkerState, MarkerRow
  <2>4. ASSUME NEW m \in Boxes
        PROVE  /\ state[m] \in Cursors /\ state[m].disclosed = 0 /\ state[m].high = 0
               /\ state[m].handled # 0 => state[m].handled = Projected[m]["disclosed"]
    <3>1. PICK p : p = Projected[m]["disclosed"] OBVIOUS
    <3>2. p \in 0..LastRow BY <1>0, <2>1, <3>1, TranscriptSays
    <3>3. PICK r \in {0, p} : state[m] = [disclosed |-> 0, handled |-> r, high |-> 0]
      <4>1. CASE m \in targets
        <5>1. state[m] = [NoCursors EXCEPT !.handled = p] BY <2>3, <3>1, <4>1
        <5> QED BY <5>1 DEF NoCursors
      <4>2. CASE m \notin targets
        <5>1. state[m] = NoCursors BY <2>3, <4>2
        <5> QED BY <5>1 DEF NoCursors
      <4> QED BY <4>1, <4>2
    <3>4. state[m] \in Cursors /\ state[m].disclosed = 0 /\ state[m].high = 0 /\ state[m].handled = r
      BY <3>2, <3>3 DEF Cursors
    <3> QED BY <3>1, <3>3, <3>4
  <2>5. state \in [Boxes -> Cursors]
    <3>1. state = [m \in Boxes |-> state[m]] BY <2>2 DEF MarkerState
    <3> QED BY <2>4, <3>1
  <2>6. PICK e : e = MessageEntry("user", state) OBVIOUS
  <2>7. e \in TranscriptEntry /\ e.role # "compaction" /\ e.state = state BY <2>5, <2>6, EntryIs
  <2>8. entries' = Append(entries, e) BY <1>1, <1>4, <2>2, <2>6
  <2>9. \A m \in Private : e.state[m].high = 0 BY <2>4, <2>7 DEF Boxes
  <2>10. AttentionTypeOK' BY <1>2, <2>7, <2>8, <2>9, AppendKeepsType DEF AttentionInd
  <2>11. ASSUME NEW m \in Boxes, e.state[m]["handled"] # 0
         PROVE  \E i \in SpokenIndexes : At(i, m, "disclosed") >= e.state[m]["handled"]
    <3>1. PICK d : d = Projected[m]["disclosed"] OBVIOUS
    <3>2. d # 0 /\ e.state[m]["handled"] = d /\ d \in Nat
      BY <1>0, <2>1, <2>4, <2>7, <2>11, <3>1, TranscriptSays
    <3>3. PICK i \in SpokenIndexes : At(i, m, "disclosed") = d BY <2>1, <3>1, <3>2, TranscriptIsTrue
    <3> QED BY <3>2, <3>3
  <2>12. \A m \in Boxes : e.state[m]["disclosed"] = 0 BY <2>4, <2>7
  <2> QED BY <2>7, <2>8, <2>10, <2>11, <2>12, SpokenStays
<1> QED BY <1>3, <1>4

(* A compaction captures from the active messages it summarizes.           *)
LEMMA CompactStays ==
    ASSUME AttentionInd, NEW cut \in 0..MaxEntries, Compact(cut)
    PROVE  AttentionInd'
<1> USE AttentionAssumption
<1>1. PICK I : I = Summarized(cut) OBVIOUS
<1>2. PICK state : state = CompactionState(cut) OBVIOUS
<1>3. PICK A : A = ActiveIndexes OBVIOUS
<1>4. I \in SUBSET (1..Len(entries)) BY <1>1, ActiveIs DEF Summarized, AttentionInd
<1>5. state = Capture({entries[i].state : i \in I}) BY <1>1, <1>2 DEF CompactionState
<1>6. PICK e : e = [role |-> "compaction", state |-> state, firstKept |-> cut] OBVIOUS
<1>7. entries' = Append(entries, e) /\ UNCHANGED <<inboxRead, sent>> BY <1>2, <1>6 DEF Compact
<1>8. ASSUME NEW m \in Boxes, NEW k \in Fields
      PROVE  /\ state \in [Boxes -> Cursors]
             /\ \A i \in I : At(i, m, k) <= state[m][k]
             /\ state[m][k] \in {0} \cup {At(i, m, k) : i \in I}
  <2>1. AttentionTypeOK BY DEF AttentionInd
  <2>2. state \in [Boxes -> Cursors] BY <1>4, <1>5, <2>1, CaptureOf
  <2>3. \A i \in I : At(i, m, k) <= state[m][k] BY <1>4, <1>5, <2>1, CaptureOf
  <2>4. state[m][k] \in {0} \cup {At(i, m, k) : i \in I} BY <1>4, <1>5, <2>1, CaptureOf
  <2> QED BY <2>2, <2>3, <2>4
<1>9. state \in [Boxes -> Cursors]
  <2>1. \A i \in I : entries[i] \in TranscriptEntry
    BY <1>4, ElementOfSeq DEF AttentionInd, AttentionTypeOK
  <2>2. {entries[i].state : i \in I} \in SUBSET [Boxes -> Cursors] BY <2>1 DEF TranscriptEntry
  <2> QED BY <1>5, <2>2, CaptureType
<1>10. e \in TranscriptEntry /\ e.role = "compaction" /\ e.state = state /\ e.firstKept = cut
  BY <1>6, <1>9 DEF TranscriptEntry
<1>11. ASSUME NEW m \in Private PROVE e.state[m].high = 0
  <2>1. m \in Boxes /\ "high" \in Fields BY DEF Boxes, Fields
  <2>2. \A i \in I : At(i, m, "high") = 0 BY <1>4 DEF AttentionInd, AttentionTypeOK, At
  <2> QED BY <1>8, <1>10, <2>1, <2>2
<1>12. AttentionTypeOK'
  BY <1>7, <1>10, <1>11, AppendKeepsType DEF AttentionInd, AttentionTypeOK
<1>13. \A m \in Boxes, k \in Fields :
          /\ \A i \in I : At(i, m, k) <= e.state[m][k]
          /\ e.state[m][k] # 0 => \E i \in I : At(i, m, k) = e.state[m][k]
  BY <1>8, <1>10
<1>14. cut \in Nat OBVIOUS
<1> QED BY <1>1, <1>3, <1>7, <1>10, <1>12, <1>13, <1>14, CompactionStays

(* Attention survives compaction and crashes, for any mailboxes and any    *)
(* ledger: what was answered stays answered, a marker handles only what    *)
(* the ledger disclosed, and a first compaction changes nothing of what    *)
(* the Agent owes.                                                         *)
THEOREM AttentionIsKept == AttentionSpec => []AttentionInv
<1>1. AttentionInit => AttentionInd
  <2> SUFFICES ASSUME AttentionInit PROVE AttentionInd OBVIOUS
  <2>1. entries = <<>> /\ Len(entries) = 0 /\ entries \in Seq(TranscriptEntry)
    BY EmptySeq DEF AttentionInit
  <2>2. SpokenIndexes = {} /\ CompactionIndexes = {} BY <2>1 DEF SpokenIndexes, CompactionIndexes
  <2>3. AttentionTypeOK BY <2>1, AttentionAssumption DEF AttentionTypeOK, AttentionInit
  <2> QED BY <2>2, <2>3 DEF AttentionInd, MarkersAnswer, MarkersFollow, CompactionsRetell,
                            CompactionsCover, FirstRetellsAll
<1>2. ASSUME AttentionInd, [AttentionNext]_attentionVars PROVE AttentionInd'
  <2>1. inboxRead \in [Boxes -> 0..LastRow] /\ sent \subseteq Boxes
    BY <1>2 DEF AttentionInd, AttentionTypeOK
  <2>2. ASSUME NEW m \in Boxes, NEW row \in 1..LastRow, NEW high \in BOOLEAN,
               NEW direct \in BOOLEAN, Disclose(m, row, high, direct)
        PROVE  AttentionInd'
    BY <1>2, <2>2, DiscloseStays
  <2>3. ASSUME NEW targets \in SUBSET Boxes, NEW m \in Boxes, NEW row \in 0..LastRow,
               RunRound(targets, m, row)
        PROVE  AttentionInd'
    BY <1>2, <2>3, RoundStays
  <2>4. CASE CommitMarkers BY <1>2, <2>4, MarkersStay
  <2>5. CASE LoseMarkers BY <1>2, <2>1, <2>5, SameLedger DEF LoseMarkers
  <2>6. ASSUME NEW cut \in 0..MaxEntries, Compact(cut) PROVE AttentionInd'
    BY <1>2, <2>6, CompactStays
  <2>7. CASE UNCHANGED attentionVars BY <1>2, <2>1, <2>7, SameLedger DEF attentionVars
  <2> QED BY <1>2, <2>2, <2>3, <2>4, <2>5, <2>6, <2>7 DEF AttentionNext
<1> QED BY <1>1, <1>2, IndImpliesAttention, PTL DEF AttentionSpec
-----------------------------------------------------------------------------
(* A message among all that can fail.                                      *)

(* A step of a message's way is a step or a stutter of each of its parts.   *)
LEMMA WayStep ==
    ASSUME [MessageNext]_messageVars
    PROVE  /\ [Next]_vars /\ [AttentionNext]_attentionVars /\ [SendNext]_sendVars
           /\ [MediaNext]_mediaVars /\ [RoundNext]_roundVars /\ [BrowserNext]_browserVars
           /\ [FeishuNext]_feishuVars
  BY Zenon DEF MessageNext, In, messageVars

(* A behaviour of a message's way is one of each of its parts.              *)
LEMMA PartsOfTheWay ==
    MessageSpec => /\ Spec /\ AttentionSpec /\ SendSpec /\ MediaSpec
                   /\ RoundSpec /\ BrowserSpec /\ FeishuSpec
<1>1. MessageInit => /\ Init /\ AttentionInit /\ SendInit /\ MediaInit
                     /\ RoundInit /\ BrowserInit /\ FeishuInit
  BY DEF MessageInit
<1> QED BY <1>1, WayStep, PTL
        DEF MessageSpec, Spec, AttentionSpec, SendSpec, MediaSpec, RoundSpec, BrowserSpec,
            FeishuSpec

(* Whatever fails on a message's way, each part keeps its promise: it is    *)
(* delivered once, its mailbox's attention is kept, an answer is sent at    *)
(* most once per attempt, its picture's text stays, its tools run in their  *)
(* places, the browser's pages are known, and the Feishu gateway drops      *)
(* nothing it took over.                                                    *)
THEOREM MessagesStaySound ==
    MessageSpec => [](/\ DeliveryInv /\ AttentionInv /\ SendInv /\ MediaIsStable
                      /\ RoundInv /\ PagesAreTracked /\ FeishuInv)
  BY PartsOfTheWay, DeliveryOnce, AttentionIsKept, SendIsSound, MediaIsSound, RoundIsSound,
     BrowserIsSound, FeishuIsSound, PTL

(* DisclosedInOrder in the same behaviours.                                 *)
THEOREM MessagesStayInOrder == MessageSpec => DisclosedInOrder
  BY PartsOfTheWay, DeliveryInOrder, PTL
=============================================================================
