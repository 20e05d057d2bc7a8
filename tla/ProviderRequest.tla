---------------------------- MODULE ProviderRequest ----------------------------
(***************************************************************************)
(* What the provider is shown of the transcript: the working projection that *)
(* resolves pictures (agent/working-context.ts), the requests built for      *)
(* Claude (agent/claude-code/request.ts) and OpenAI (openai-agent/           *)
(* llm-client.ts), and the compaction request that reuses the main request's *)
(* prefix (agent/compaction.ts, compaction-coordinator.ts).                  *)
(*                                                                         *)
(* A wire message is its role and its blocks; a block is [kind, id, says].  *)
(***************************************************************************)
EXTENDS DurableMessages

CONSTANTS
    MaxHistory, \* bound: messages of a request
    MaxCalls    \* bound: tool call ids

ASSUME RequestBounds == MaxHistory \in Nat /\ MaxCalls \in Nat

VARIABLES
    route,      \* the configured provider, image mode and thinking
    history,    \* AgentContext's messages
    staged,     \* stagedMessages of the running round
    phase,      \* "idle", "asked" or "summarizing"
    asked,      \* the last main request: its source and the pictures lost then
    cut,        \* messages the running cached compaction request takes over, or 0
    lost,       \* results whose picture can no longer be read
    usedIds     \* tool call ids used

requestVars == <<route, history, staged, phase, asked, cut, lost, usedIds>>

Routes ==
    [provider : {"claude"}, images : {"native", "description"},
     thinking : {"disabled", "active-tool-cycle", "always"}]
    \cup [provider : {"openai"}, images : {"native", "description"}, thinking : {"disabled"}]

-----------------------------------------------------------------------------
(* buildWorkingContextProjection, with the pictures gone unreadable.        *)
ShownPicture(id, gone) ==
    IF route.images = "description" THEN "omitted" ELSE IF id \in gone THEN "unavailable" ELSE "picture"

Working(ms, gone) ==
    [i \in DOMAIN ms |->
        IF ms[i].says = "image" THEN [ms[i] EXCEPT !.says = ShownPicture(ms[i].answers, gone)] ELSE ms[i]]

(* Seeded fault: the request may end only with one result.                  *)
ReplaysBeforeOne(ms, i) ==
    /\ ms[i].native
    /\ \/ route.thinking = "always"
       \/ ms[i].calls # <<>> /\ i + 1 = Len(ms) /\ ms[i + 1].role = "tool"

(* shouldReplayClaudeNativeBlocks: always, or while the request ends with    *)
(* exactly the results of this message's calls.                             *)
Replays(ms, i) ==
    /\ ms[i].native
    /\ \/ route.thinking = "always"
       \/ /\ route.thinking = "active-tool-cycle" /\ ms[i].calls # <<>>
          /\ LET rest == SubSeq(ms, i + 1, Len(ms))
             IN  /\ Len(rest) = Len(ms[i].calls)
                 /\ \A k \in DOMAIN rest : rest[k].role = "tool"
                 /\ {rest[k].answers : k \in DOMAIN rest} = Range(ms[i].calls)

Block(kind, id, says) == [kind |-> kind, id |-> id, says |-> says]
Wire(role, blocks) == [role |-> role, blocks |-> blocks]
SaidBlock(m) == IF m.says = "" THEN <<>> ELSE <<Block("text", BlankId, m.says)>>
CallBlocks(m) == [k \in DOMAIN m.calls |-> Block("tool_use", m.calls[k], "")]

(* toClaudeMessage: an assistant message without any block is left out.     *)
ClaudeEmits(ms, i) ==
    LET m == ms[i]
        thinking == IF Replays(ms, i) THEN <<Block("thinking", BlankId, "")>> ELSE <<>>
        blocks == thinking \o SaidBlock(m) \o CallBlocks(m)
    IN  CASE m.role = "user" -> <<Wire("user", <<Block("text", BlankId, m.says)>>)>>
          [] m.role = "assistant" -> IF blocks = <<>> THEN <<>> ELSE <<Wire("assistant", blocks)>>
          [] m.role = "tool" -> <<Wire("user", <<Block("tool_result", m.answers, m.says)>>)>>

(* toOpenAIMessage: a tool message holds no picture; it follows as a user's. *)
OpenAIEmits(m) ==
    CASE m.role = "user" -> <<Wire("user", <<Block("text", BlankId, m.says)>>)>>
      [] m.role = "assistant" -> <<Wire("assistant", SaidBlock(m) \o CallBlocks(m))>>
      [] m.role = "tool" ->
            IF m.says = "picture"
            THEN <<Wire("tool", <<Block("tool_result", m.answers, "see next")>>),
                   Wire("user", <<Block("image_url", m.answers, m.says)>>)>>
            ELSE <<Wire("tool", <<Block("tool_result", m.answers, m.says)>>)>>

Emits(ms, i) == IF route.provider = "claude" THEN ClaudeEmits(ms, i) ELSE OpenAIEmits(ms[i])
EmittedBy(ms, n) == FlattenSeq([i \in 1..n |-> Emits(ms, i)])

(* The messages of the request body; a Claude system prompt is not one.     *)
Body(ms) ==
    (IF route.provider = "openai" THEN <<Wire("developer", <<>>)>> ELSE <<>>) \o EmittedBy(ms, Len(ms))

(* Seeded fault: the messages a compaction put first are not counted.       *)
LedgerMessagesOnly(ms, n) ==
    SubSeq(ms, 1, n - Cardinality({i \in 1..n : ms[i].says = "summary"}))

(* The main request's messages up to the ones the compaction keeps:         *)
(* prefixMessageCount counts the synthetic ones, too.                       *)
CachedPrefix(ms, n) == SubSeq(ms, 1, n)

SummarySource(gone) == Append(CachedPrefix(Working(history, gone), cut), User("control"))

-----------------------------------------------------------------------------
NoRequest == [source |-> <<>>, gone |-> {}]

RequestInit ==
    /\ route \in Routes
    /\ history = <<User("text")>> /\ staged = <<>>
    /\ phase = "idle" /\ asked = NoRequest
    /\ cut = 0 /\ lost = {} /\ usedIds = 0

Source == history \o staged
Room(n) == Len(Source) + n <= MaxHistory

(* An event is disclosed before a round.                                   *)
UserSays ==
    /\ phase = "idle" /\ Room(1)
    /\ history' = Append(history, User("text"))
    /\ UNCHANGED <<route, staged, phase, asked, cut, lost, usedIds>>

Ask ==
    /\ phase = "idle"
    /\ phase' = "asked"
    /\ asked' = [source |-> Source, gone |-> lost]
    /\ UNCHANGED <<route, history, staged, cut, lost, usedIds>>

CommitStaged(ms) ==
    /\ history' = history \o staged \o ms /\ staged' = <<>>
    /\ phase' = "idle"

(* A reply with tool calls: its text is dropped, each result follows.       *)
ReplyCalls(n, pictures, native) ==
    LET ids == [k \in 1..n |-> usedIds + k]
        Shows(k) == Result(ids[k], IF k \in pictures THEN "image" ELSE "text")
    IN  /\ phase = "asked"
        /\ usedIds + n <= MaxCalls /\ usedIds' = usedIds + n
        /\ native => route.thinking # "disabled"
        /\ Room(n + 1)
        /\ CommitStaged(<<Assistant(ids, "", native)>> \o [k \in 1..n |-> Shows(k)])
        /\ UNCHANGED <<route, asked, cut, lost>>

(* A reply without a tool call leaves at most a correction.                 *)
ReplyText ==
    /\ phase = "asked"
    /\ \/ CommitStaged(<<>>)
       \/ Room(1) /\ CommitStaged(<<User("text")>>)
    /\ UNCHANGED <<route, asked, cut, lost, usedIds>>

(* A reply cut off at its token limit is continued within the round.        *)
ReplyTruncated(native) ==
    /\ phase = "asked" /\ Room(2)
    /\ native => route.thinking # "disabled"
    /\ staged' = staged \o <<Assistant(<<>>, "text", native), User("text")>>
    /\ asked' = [source |-> history \o staged', gone |-> lost]
    /\ UNCHANGED <<route, history, phase, cut, lost, usedIds>>

(* The round ends with an error; what it staged is gone.                   *)
RoundFails ==
    /\ phase = "asked"
    /\ staged' = <<>> /\ phase' = "idle"
    /\ UNCHANGED <<route, history, asked, cut, lost, usedIds>>

(* Where a compaction may keep from: a message of the ledger after the first *)
(* that is no result.                                                      *)
ActiveIndices == {i \in DOMAIN history : history[i].says \notin {"summary", "attention"}}
KeptFrom == {i \in ActiveIndices : history[i].role # "tool" /\ \E j \in ActiveIndices : j < i}

(* After a round, or because the request did not fit.  Claude is asked with  *)
(* its own prefix unless the cut is within a turn; the others, and a         *)
(* behavioral reset, with a prompt of their own (cut = 0).                  *)
StartSummary(first) ==
    /\ first \in KeptFrom /\ cut = 0
    /\ route.provider = "claude" /\ history[first].role = "user"
    /\ phase' = IF phase = "idle" THEN "summarizing" ELSE "recovering"
    /\ phase \in {"idle", "asked"}
    /\ cut' = first - 1
    /\ UNCHANGED <<route, history, staged, asked, lost, usedIds>>

Compacted(first, attention) ==
    <<User("summary")>> \o (IF attention THEN <<User("attention")>> ELSE <<>>)
    \o SubSeq(history, first, Len(history))

(* The compaction is committed: after a round, or the request is repeated.  *)
InstallSummary(first, attention) ==
    /\ history' = Compacted(first, attention)
    /\ Len(history') + Len(staged) <= MaxHistory
    /\ cut' = 0
    /\ IF phase \in {"idle", "summarizing"} THEN phase' = "idle" /\ UNCHANGED asked
       ELSE phase' = "asked" /\ asked' = [source |-> history' \o staged, gone |-> lost]
    /\ UNCHANGED <<route, staged, lost, usedIds>>

CachedSummary(attention) ==
    /\ phase \in {"summarizing", "recovering"}
    /\ InstallSummary(cut + 1, attention)

OwnSummary(first, attention) ==
    /\ phase \in {"idle", "asked"}
    /\ \/ first \in KeptFrom /\ (route.provider = "claude" => history[first].role # "user")
       \/ ActiveIndices # {} /\ first = Len(history) + 1 /\ phase = "idle"
    /\ InstallSummary(first, attention)

(* The answer is no summary, or cannot be written.                         *)
SummaryFails ==
    /\ phase \in {"summarizing", "recovering"}
    /\ phase' = "idle" /\ staged' = <<>> /\ cut' = 0
    /\ UNCHANGED <<route, history, asked, lost, usedIds>>

LosePicture(id) ==
    /\ id \in 1..usedIds \ lost
    /\ \E i \in DOMAIN history : history[i].answers = id /\ history[i].says = "image"
    /\ lost' = lost \cup {id}
    /\ UNCHANGED <<route, history, staged, phase, asked, cut, usedIds>>

(* The Core is restarted with another configuration.                        *)
Reconfigure(r) ==
    /\ phase = "idle" /\ r # route
    /\ route' = r /\ asked' = NoRequest
    /\ UNCHANGED <<history, staged, phase, cut, lost, usedIds>>

RequestNext ==
    \/ UserSays \/ Ask
    \/ \E n \in 1..2, native \in BOOLEAN : \E pictures \in SUBSET (1..n) : ReplyCalls(n, pictures, native)
    \/ ReplyText \/ RoundFails \/ SummaryFails
    \/ \E native \in BOOLEAN : ReplyTruncated(native)
    \/ \E first \in 1..MaxHistory : StartSummary(first)
    \/ \E first \in 1..(MaxHistory + 1), attention \in BOOLEAN : OwnSummary(first, attention)
    \/ \E attention \in BOOLEAN : CachedSummary(attention)
    \/ \E id \in 1..MaxCalls : LosePicture(id)
    \/ \E r \in Routes : Reconfigure(r)

RequestSpec == RequestInit /\ [][RequestNext]_requestVars

-----------------------------------------------------------------------------
(* Properties.                                                             *)

AskedBody == Body(Working(asked.source, asked.gone))
SummaryBody == Body(SummarySource(lost))

UsesOf(w) == {w.blocks[k].id : k \in {l \in DOMAIN w.blocks : w.blocks[l].kind = "tool_use"}}
ResultsOf(w) == {w.blocks[k].id : k \in {l \in DOMAIN w.blocks : w.blocks[l].kind = "tool_result"}}

(* Each call is answered before the assistant speaks again, and by nothing  *)
(* but a call just before is a result ever shown.  For Claude nothing else  *)
(* comes between a call and its results.                                    *)
CallsMeetResults(body) ==
    /\ \A i \in DOMAIN body : \A id \in UsesOf(body[i]) :
          \E j \in (i + 1)..Len(body) :
             /\ id \in ResultsOf(body[j])
             /\ \A l \in (i + 1)..(j - 1) :
                   /\ body[l].role # "assistant"
                   /\ route.provider = "claude" => ResultsOf(body[l]) # {}
    /\ \A j \in DOMAIN body : \A id \in ResultsOf(body[j]) :
          \E i \in 1..(j - 1) :
             id \in UsesOf(body[i]) /\ \A l \in (i + 1)..(j - 1) : body[l].role # "assistant"

(* Whatever was compacted, continued, lost or reconfigured, no request shows *)
(* the provider a call without its result or a result without its call.     *)
RequestsAreSound ==
    /\ CallsMeetResults(AskedBody)
    /\ cut # 0 => CallsMeetResults(SummaryBody)

(* How many leading messages two requests have in common, and none of these  *)
(* has a picture that was lost in between.                                  *)
Common(new) == Len(LongestCommonPrefix({Working(asked.source, asked.gone), new}))

(* What the next request repeats of the last one it repeats byte for byte,   *)
(* so the provider finds it in its cache; only where thinking is kept for    *)
(* the running tool cycle does the end of the last request change.          *)
KeepsPrefix(new) ==
    LET old == Working(asked.source, asked.gone)
        Steady(i) == route.thinking # "active-tool-cycle" \/ ~old[i].native
        n == CHOOSE m \in 0..Common(new) :
                /\ \A i \in 1..m : Steady(i)
                /\ m = Common(new) \/ ~Steady(m + 1)
        shown == Len(EmittedBy(old, n))
    IN  SubSeq(EmittedBy(new, Len(new)), 1, shown) = SubSeq(EmittedBy(old, Len(old)), 1, shown)

CacheIsReused ==
    /\ KeepsPrefix(Working(Source, lost))
    /\ cut # 0 => KeepsPrefix(SummarySource(lost))

(* A request that asks Claude to go on after results shows the thinking that *)
(* led to the calls, unless thinking is off.                                *)
ThinkingStaysWithItsCalls ==
    \A i \in DOMAIN asked.source :
        /\ route.thinking # "disabled" /\ asked.source[i].native /\ asked.source[i].calls # <<>>
        /\ i + Len(asked.source[i].calls) = Len(asked.source)
        => \E w \in Range(AskedBody) :
              w.blocks[1].kind = "thinking" /\ Range(asked.source[i].calls) \subseteq UsesOf(w)

RequestInv == RequestsAreSound /\ CacheIsReused /\ ThinkingStaysWithItsCalls
=============================================================================
