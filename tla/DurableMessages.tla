---------------------------- MODULE DurableMessages ----------------------------
(***************************************************************************)
(* The messages the Agent keeps, and when a sequence of them is a transcript *)
(* a provider can be given (agent-context.types.ts, the message parser of    *)
(* agent-ledger-projection.ts, agent/snapshot-integrity.ts).                *)
(***************************************************************************)
EXTENDS Integers, Sequences, SequencesExt, FiniteSets

(* A tool call is its id, BlankId an empty one; native: the reply came with  *)
(* thinking blocks of the provider.  A result says     *)
(* something as text, as blocks with an image, or, "cut", as text that        *)
(* starts like JSON and is not.                                             *)
BlankId == 0
Message(role, says) == [role |-> role, says |-> says, calls |-> <<>>, answers |-> BlankId, native |-> FALSE]
User(says) == Message("user", says)
Assistant(ids, says, native) ==
    [role |-> "assistant", says |-> says, calls |-> ids, answers |-> BlankId, native |-> native]
Result(id, says) == [Message("tool", says) EXCEPT !.answers = id]
Round(ids) == <<Assistant(ids, "", FALSE)>> \o [k \in DOMAIN ids |-> Result(ids[k], "text")]

ReadableContent(m) == m.says # "cut"

(* parseDurableAgentMessage: one message, looked at by itself.              *)
MessageParses(m) ==
    CASE m.role = "user" -> TRUE
      [] m.role = "assistant" -> \A k \in DOMAIN m.calls : m.calls[k] # BlankId
      [] m.role = "tool" -> m.answers # BlankId /\ ReadableContent(m)
      [] OTHER -> FALSE

(* The k-th call of message i has its result k messages further.            *)
AnsweredAt(ms, i, k) ==
    /\ i + k <= Len(ms) /\ ms[i + k].role = "tool"
    /\ ms[i + k].answers = ms[i].calls[k] /\ ReadableContent(ms[i + k])

(* Seeded fault: an id may be used again.                                  *)
CallAnswered(ms, i, k, known) == ms[i].calls[k] # BlankId /\ AnsweredAt(ms, i, k)

CallSound(ms, i, k, known) ==
    LET id == ms[i].calls[k] IN
    /\ id # BlankId
    /\ id \notin known /\ \A l \in 1..(k - 1) : ms[i].calls[l] # id
    /\ AnsweredAt(ms, i, k)

(* validateMessages: one pass, in which an assistant message takes the      *)
(* results of its calls with it.  Which results it has consumed decides only *)
(* how an error is worded.                                                  *)
Visit(ms, pass, i) ==
    LET m == ms[i] IN
    IF i < pass.next THEN pass
    ELSE IF m.role = "user" THEN [pass EXCEPT !.next = i + 1]
    ELSE IF m.role = "assistant"
    THEN [next |-> i + Len(m.calls) + 1,
          expected |-> pass.expected \cup Range(m.calls),
          ok |-> pass.ok /\ \A k \in DOMAIN m.calls : CallSound(ms, i, k, pass.expected)]
    ELSE [pass EXCEPT !.next = i + 1, !.ok = FALSE]

ValidateMessages(ms) ==
    LET pass[i \in 0..Len(ms)] ==
            IF i = 0 THEN [next |-> 1, expected |-> {}, ok |-> TRUE] ELSE Visit(ms, pass[i - 1], i)
    IN  pass[Len(ms)].ok

-----------------------------------------------------------------------------
(* What a transcript has to be, without an order of visiting it.            *)
WellFormed(ms) ==
    LET Calls == {c \in (DOMAIN ms) \X (1..Len(ms)) : /\ ms[c[1]].role = "assistant"
                                                     /\ c[2] \in DOMAIN ms[c[1]].calls}
        Answer(c) == c[1] + c[2]
    IN  /\ \A i \in DOMAIN ms :
              /\ ms[i].role \in {"user", "assistant", "tool"}
              /\ ms[i].role = "tool" => ReadableContent(ms[i]) /\ \E c \in Calls : Answer(c) = i
        /\ \A c \in Calls :
              /\ ms[c[1]].calls[c[2]] # BlankId
              /\ Answer(c) \in DOMAIN ms /\ ms[Answer(c)].role = "tool"
              /\ ms[Answer(c)].answers = ms[c[1]].calls[c[2]]
        /\ \A c, d \in Calls : ms[c[1]].calls[c[2]] = ms[d[1]].calls[d[2]] => c = d
=============================================================================
