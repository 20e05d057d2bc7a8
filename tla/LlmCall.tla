------------------------------- MODULE LlmCall -------------------------------
(***************************************************************************)
(* The model calls of one round (agent/claude-code/llm-client.ts and       *)
(* agent/llm-client.ts inside the loops of react-kernel.ts and of          *)
(* bot-loop-agent.ts): HTTP requests with bounded retries, the fallback    *)
(* model, the record of each call, and what the round does with an answer  *)
(* that was cut off or did not fit.                                        *)
(*                                                                         *)
(* An answer is reduced to whether it has text, how its tool call's input  *)
(* reached the parser and its stop reason; a failure to its kind.          *)
(***************************************************************************)
EXTENDS Integers, FiniteSets

CONSTANTS
    MaxRetries,        \* retries of a failed request
    MaxContinuations,  \* continuations of an output cut off
    HasFallback        \* a fallback model is configured

ASSUME RetryAssumption == MaxRetries \in Nat /\ MaxContinuations \in Nat /\ HasFallback \in BOOLEAN

VARIABLES
    chatPhase,     \* "idle", "request", "backoff", "returned", "thrown"; "accepted", "given_up"
    aModel,        \* the model asked
    attempt,       \* callWithRetry's counter
    reply,         \* what chat returned
    failure,       \* kind of the last failed request
    cancelled,     \* the caller's signal has aborted
    sent,          \* [model -> requests of this chat]
    chats,         \* chats begun in this round
    records,       \* observations written, by status
    escalated,     \* didEscalateOutputBudget
    continued,     \* outputContinuations
    recovered,     \* recoveredContextOverflow
    stagedReplies  \* the partial answers in stagedMessages

llmVars == <<chatPhase, aModel, attempt, reply, failure, cancelled, sent, chats, records,
             escalated, continued, recovered, stagedReplies>>

Models == {"primary", "fallback"}
StopReasons == {"tool_use", "max_tokens", "model_context_window_exceeded", "unknown"}

(* What the provider sent of a tool call: nothing, its whole input and the *)
(* end of its block, an end after input that is no JSON, or no end.        *)
SentCalls == {"none", "whole", "unparsable", "unended"}
Answers == [text : BOOLEAN, call : SentCalls, stop : StopReasons]

(* The parser ends a call on content_block_stop; without one, or without   *)
(* JSON, the call is kept with an empty input.                             *)
Parsed(a) ==
    [text |-> a.text, stop |-> a.stop,
     calls |-> CASE a.call = "none" -> "none" [] a.call = "whole" -> "whole" [] OTHER -> "emptied"]
NoReply == [text |-> FALSE, stop |-> "none", calls |-> "none"]

(* An HTTP status, the kind the provider names in a stream that began with *)
(* 200, or no response at all.  Overflow is recognized from the body.      *)
KindOfStatus(status, overflow) ==
    CASE overflow -> "context_overflow"
      [] ~overflow /\ status = 429 -> "rate_limit"
      [] ~overflow /\ status = 529 -> "overloaded"
      [] ~overflow /\ status \in 500..599 \ {529} -> "server"
      [] ~overflow /\ status = 401 -> "auth"
      [] ~overflow /\ status = 403 -> "permission"
      [] ~overflow /\ status \in {400, 413} -> "invalid_request"
      [] OTHER -> "http"
KindsInStream == {"context_overflow", "rate_limit", "overloaded", "server", "auth", "permission",
                  "invalid_request", "provider_error"}
Failures ==
    {KindOfStatus(status, overflow) :
        status \in {400, 401, 403, 404, 413, 429, 500, 529}, overflow \in BOOLEAN}
    \cup KindsInStream \cup {"transport", "invalid_response"}

Retryable(kind) == kind \in {"transport", "rate_limit", "overloaded", "server"}
FallbackEligible(kind) == kind \in {"overloaded", "server"}

LlmInit ==
    /\ chatPhase = "idle" /\ aModel = "primary" /\ attempt = 0
    /\ reply = NoReply /\ failure = "none" /\ cancelled = FALSE
    /\ sent = [m \in Models |-> 0]
    /\ chats = 0 /\ records = [s \in {"succeeded", "failed", "aborted"} |-> 0]
    /\ escalated = FALSE /\ continued = 0 /\ recovered = FALSE /\ stagedReplies = {}

-----------------------------------------------------------------------------
(* One chat.                                                               *)

roundVars == <<chats, escalated, continued, recovered, stagedReplies>>

(* observeLlmCall: one record, when the chat returns or throws.            *)
Recorded(status) == records' = [records EXCEPT ![status] = @ + 1]

AnswerArrives(a) ==
    /\ chatPhase = "request"
    /\ chatPhase' = "returned"
    /\ reply' = Parsed(a)
    /\ Recorded("succeeded")
    /\ UNCHANGED <<aModel, attempt, failure, cancelled, sent, roundVars>>

(* chat throws out of the primary: the fallback is asked, once, with a     *)
(* retry counter of its own.  A request is only sent while the signal is   *)
(* not aborted; fetch rejects at once otherwise.                           *)
FallsBack(kind) == HasFallback /\ aModel = "primary" /\ FallbackEligible(kind)
ChatThrows(kind) ==
    /\ failure' = kind
    /\ IF FallsBack(kind) /\ ~cancelled
       THEN /\ chatPhase' = "request"
            /\ aModel' = "fallback" /\ attempt' = 0
            /\ sent' = [sent EXCEPT !["fallback"] = @ + 1]
            /\ UNCHANGED records
       ELSE /\ chatPhase' = "thrown"
            /\ Recorded(IF cancelled THEN "aborted" ELSE "failed")
            /\ UNCHANGED <<aModel, attempt, sent>>
    /\ UNCHANGED <<reply, cancelled, roundVars>>

Retries(kind) == Retryable(kind) /\ attempt < MaxRetries

RequestFails(kind) ==
    /\ chatPhase = "request"
    /\ IF Retries(kind) /\ ~cancelled
       THEN /\ chatPhase' = "backoff" /\ failure' = kind
            /\ UNCHANGED <<aModel, attempt, reply, cancelled, sent, records, roundVars>>
       ELSE ChatThrows(kind)

BackoffEnds ==
    /\ chatPhase = "backoff" /\ ~cancelled
    /\ chatPhase' = "request"
    /\ attempt' = attempt + 1
    /\ sent' = [sent EXCEPT ![aModel] = @ + 1]
    /\ UNCHANGED <<aModel, reply, failure, cancelled, records, roundVars>>

(* The caller's signal aborts: a running request is rejected, a backoff    *)
(* ends with the signal's reason.  The Agent's own rounds pass no signal,  *)
(* so only a single call, here the first chat, is ever cancelled.          *)
Cancel ==
    /\ chatPhase \in {"request", "backoff"} /\ chats = 1 /\ ~escalated /\ ~cancelled
    /\ cancelled' = TRUE
    /\ UNCHANGED <<chatPhase, aModel, attempt, reply, failure, sent, records, roundVars>>

BackoffAborted ==
    /\ chatPhase = "backoff" /\ cancelled
    /\ ChatThrows("aborted")

-----------------------------------------------------------------------------
(* The round around it.                                                    *)

NextChat ==
    /\ chatPhase' = "request"
    /\ aModel' = "primary" /\ attempt' = 0
    /\ reply' = NoReply
    /\ sent' = [m \in Models |-> IF m = "primary" THEN 1 ELSE 0]
    /\ chats' = chats + 1
    /\ UNCHANGED <<failure, cancelled, records>>

(* The round begins with its first model call.                             *)
BeginRound ==
    /\ chatPhase = "idle"
    /\ NextChat
    /\ UNCHANGED <<escalated, continued, recovered, stagedReplies>>

GivesUp ==
    /\ chatPhase' = "given_up"
    /\ UNCHANGED <<aModel, attempt, reply, failure, cancelled, sent, records, roundVars>>

(* runReactRound: anything but a cut-off answer is gone on with.           *)
Accept ==
    /\ chatPhase = "returned"
    /\ reply.stop \notin {"max_tokens", "model_context_window_exceeded"}
    /\ chatPhase' = "accepted"
    /\ UNCHANGED <<aModel, attempt, reply, failure, cancelled, sent, records, roundVars>>

EscalateBudget ==
    /\ chatPhase = "returned" /\ ~cancelled
    /\ reply.stop = "max_tokens" /\ ~escalated
    /\ escalated' = TRUE
    /\ NextChat
    /\ UNCHANGED <<continued, recovered, stagedReplies>>

(* Seeded fault: a cut-off answer with a tool call is continued as well.   *)
ContinuesAnything == continued < MaxContinuations
CanContinue == continued < MaxContinuations /\ reply.calls = "none" /\ reply.text

(* LlmOutputTruncatedError: plain text is staged and continued in a new    *)
(* runReactRound, anything else ends the round.                            *)
ContinueOutput ==
    /\ chatPhase = "returned" /\ reply.stop = "max_tokens" /\ escalated
    /\ IF CanContinue
       THEN /\ continued' = continued + 1
            /\ stagedReplies' = stagedReplies \cup {reply}
            /\ escalated' = FALSE
            /\ NextChat
            /\ UNCHANGED recovered
       ELSE GivesUp

Overflowed ==
    \/ chatPhase = "returned" /\ reply.stop = "model_context_window_exceeded"
    \/ chatPhase = "thrown" /\ failure = "context_overflow"

(* A forced compaction, then the round's model call again; a compaction    *)
(* that finds nothing to cut ends the round.                               *)
RecoverOverflow ==
    /\ Overflowed /\ ~cancelled /\ ~recovered
    /\ recovered' = TRUE
    /\ escalated' = FALSE
    /\ NextChat
    /\ UNCHANGED <<continued, stagedReplies>>

(* Seeded fault: an overflow is expected to have been recovered from.      *)
OtherErrors == chatPhase = "thrown" /\ failure # "context_overflow"
Unrecovered == Overflowed \/ chatPhase = "thrown"

GiveUp ==
    /\ Unrecovered \/ (chatPhase = "returned" /\ cancelled)
    /\ GivesUp

LlmNext ==
    \/ BeginRound
    \/ \E a \in Answers : AnswerArrives(a)
    \/ \E kind \in Failures : RequestFails(kind)
    \/ BackoffEnds \/ Cancel \/ BackoffAborted
    \/ Accept \/ EscalateBudget \/ ContinueOutput \/ RecoverOverflow \/ GiveUp

LlmSpec == LlmInit /\ [][LlmNext]_llmVars

RequestEnds ==
    \/ \E a \in Answers : AnswerArrives(a)
    \/ \E kind \in Failures : RequestFails(kind)
RoundGoesOn == Accept \/ EscalateBudget \/ ContinueOutput \/ RecoverOverflow \/ GiveUp

-----------------------------------------------------------------------------
(* Properties.                                                             *)

Ended == chatPhase \in {"accepted", "given_up"}

(* Recovery never runs away and never repeats what cannot be repeated: the *)
(* requests of a chat and the chats of a round are bounded, the fallback   *)
(* is asked only after an overload or a server error, every chat leaves    *)
(* one record, and what is staged to be continued holds no tool call.      *)
RecoveryIsBounded ==
    /\ \A m \in Models : sent[m] <= 1 + MaxRetries
    /\ chats <= 2 * (1 + continued + (IF recovered THEN 1 ELSE 0))
    /\ continued <= MaxContinuations
    /\ sent["fallback"] > 0 => HasFallback
    /\ records["succeeded"] + records["failed"] + records["aborted"]
          = IF chatPhase \in {"request", "backoff"} THEN chats - 1 ELSE chats
    /\ \A r \in stagedReplies : r.calls = "none"

(* Whatever the provider answers, the model calls of a round come to an    *)
(* end: the round has an answer to go on with, or is given up.             *)
EveryRoundIsAnswered == chatPhase = "request" ~> Ended
=============================================================================
