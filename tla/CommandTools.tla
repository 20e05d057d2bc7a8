----------------------------- MODULE CommandTools -----------------------------
(***************************************************************************)
(* The tools that run a program: workspace_bash, openbb_cli and            *)
(* moomoo_skill.  A command is checked against what the tool allows, its   *)
(* program is spawned with pipes, its output is cut to a limit while it    *)
(* comes, and a timer ends it by SIGTERM and a second later by SIGKILL.    *)
(* The call is answered when the program's pipes are closed.               *)
(*                                                                         *)
(* Output is counted in characters of `Width` bytes; programs are taken to *)
(* leave no child behind that keeps their pipes.                           *)
(***************************************************************************)
EXTENDS Integers, Sequences, FiniteSets

CONSTANTS
    Width,         \* bytes of a character of the output
    AnswerCap,     \* characters of an answer
    CaptureCap,    \* bytes openbb_cli and moomoo_skill take in at most
    MaxOutput,     \* bound: characters a program writes
    MaxTableRows,  \* bound: rows of a table openbb_cli exports
    MaxCommandCalls \* bound

ASSUME CommandAssumption ==
    /\ {Width, AnswerCap, CaptureCap} \subseteq Nat \ {0}
    /\ {MaxOutput, MaxTableRows, MaxCommandCalls} \subseteq Nat

(* What matters of a command: its tool; whether it holds control syntax or *)
(* cannot be split into tokens; the class of its program or script, of its *)
(* options, and its path as segments.  `trade` are the tokens that follow  *)
(* a script of moomoo_skill.                                               *)
Verbs == {"read", "quote", "order", "other"}
EnvTokens == {"--trd-env", "SIMULATE", "--trd-env=SIMULATE", "--trd-env=REAL", "--confirmed"}
SeqsUpTo(S, n) == UNION {[1..k -> S] : k \in 0..n}
AskedPaths == SeqsUpTo({"dir", ".."}, 3) \cup {<<".env">>, <<"data">>, <<"dir", "data">>}

Bash(view, segments) == [tool |-> "bash", view |-> view, verb |-> "read", path |-> segments, trade |-> <<>>]
Openbb == [tool |-> "openbb", view |-> "none", verb |-> "quote", path |-> <<>>, trade |-> <<>>]
Moomoo(verb, tokens) == [tool |-> "moomoo", view |-> "none", verb |-> verb, path |-> <<>>, trade |-> tokens]

(* Commands as the model writes them; control syntax, unknown programs and *)
(* bad options are the verb "other".                                       *)
WellFormed == {Bash(v, p) : v \in {"workspace", "repo"}, p \in AskedPaths}
              \cup {Openbb, Moomoo("quote", <<>>)} \cup {Moomoo("order", t) : t \in SeqsUpTo(EnvTokens, 3)}
Malformed == {[c EXCEPT !.verb = "other"] : c \in {Openbb, Bash("repo", <<>>), Moomoo("quote", <<>>)}}

VARIABLES
    commandCall,   \* "idle", "open" or "answered"
    command,
    child,         \* "none", "running", "told", "killed" or "gone"
    exit,          \* its exit code, "signal" or "error"
    pipesOpen, timedOut, killTimer, \* of the runner
    produced,      \* characters the program has written
    taken,         \* what the runner keeps of them, see NothingTaken
    answer,        \* the result of the last call
    commandCalls

childVars == <<child, exit, pipesOpen>>
runnerVars == <<timedOut, killTimer, taken>>
commandVars == <<commandCall, command, childVars, runnerVars, produced, answer, commandCalls>>

NothingTaken == [chars |-> 0, marked |-> FALSE]
NoAnswer == [ok |-> FALSE, code |-> "none", shown |-> 0, truncated |-> FALSE]

CommandInit ==
    /\ commandCall = "idle" /\ command = Openbb /\ child = "none" /\ exit = "none" /\ pipesOpen = FALSE
    /\ timedOut = FALSE /\ killTimer = FALSE /\ produced = 0 /\ taken = NothingTaken
    /\ answer = NoAnswer /\ commandCalls = 0

-----------------------------------------------------------------------------
(* What a tool lets through.                                               *)

(* The path's segments after normalize: a ".." takes back a segment, or    *)
(* stays at the front.                                                     *)
Joined(before, segment) ==
    IF segment # ".." \/ before = <<>> \/ before[Len(before)] = ".."
    THEN Append(before, segment) ELSE SubSeq(before, 1, Len(before) - 1)
Normalized(path) ==
    LET norm[k \in 0..Len(path)] == IF k = 0 THEN <<>> ELSE Joined(norm[k - 1], path[k])
    IN  norm[Len(path)]

SafePath(view, path) ==
    LET normal == Normalized(path) IN
    /\ normal # <<>> => normal[1] # ".."
    /\ ".env" \notin {normal[k] : k \in 1..Len(normal)}
    /\ view = "repo" /\ normal # <<>> => normal[1] # "data"

(* The environments a trade names: the word behind every --trd-env, and    *)
(* what follows the equals sign.                                           *)
NamedEnvs(tokens) ==
    {<<k, IF k = Len(tokens) THEN "none" ELSE tokens[k + 1]>> : k \in {j \in 1..Len(tokens) : tokens[j] = "--trd-env"}}
    \cup {<<k, IF tokens[k] = "--trd-env=REAL" THEN "REAL" ELSE "SIMULATE">> :
             k \in {j \in 1..Len(tokens) : tokens[j] \in {"--trd-env=SIMULATE", "--trd-env=REAL"}}}

(* Seeded fault: one of the environments has to be the simulated one.      *)
NamesSimulated(tokens) == \E e \in NamedEnvs(tokens) : e[2] = "SIMULATE"
(* Exactly one, and it is the simulated one.                               *)
OnlySimulated(tokens) ==
    LET named == {e \in NamedEnvs(tokens) : e[2] # "none"}
    IN  Cardinality(named) = 1 /\ \A e \in named : e[2] = "SIMULATE"

Allowed(c) ==
    /\ c.verb # "other"
    /\ c.tool = "bash" => SafePath(c.view, c.path)
    /\ c.tool = "moomoo" => \A k \in 1..Len(c.trade) : c.trade[k] # "--confirmed"
    /\ c.tool = "moomoo" /\ c.verb = "order" => OnlySimulated(c.trade)

-----------------------------------------------------------------------------
(* A call.                                                                 *)

AskCommand(c) ==
    /\ commandCall # "open" /\ commandCalls < MaxCommandCalls
    /\ commandCalls' = commandCalls + 1 /\ command' = c
    /\ produced' = 0 /\ taken' = NothingTaken /\ timedOut' = FALSE /\ killTimer' = FALSE /\ exit' = "none"
    /\ IF Allowed(c)
       THEN /\ commandCall' = "open" /\ child' = "running" /\ pipesOpen' = TRUE /\ UNCHANGED answer
       ELSE /\ commandCall' = "answered" /\ answer' = [NoAnswer EXCEPT !.code = "not_allowed"]
            /\ UNCHANGED <<child, pipesOpen>>

(* The output of a program is cut while it comes: workspace_bash keeps the *)
(* first characters and appends a mark, the others stop to take bytes in.  *)
Kept(n) ==
    IF command.tool = "bash"
    THEN IF taken.marked \/ taken.chars + n > AnswerCap
         THEN [chars |-> AnswerCap, marked |-> TRUE] ELSE [taken EXCEPT !.chars = @ + n]
    ELSE [taken EXCEPT !.chars = IF (@ + n) * Width <= CaptureCap THEN @ + n ELSE (CaptureCap + Width - 1) \div Width]

Writes(n) ==
    /\ child \in {"running", "told"} /\ produced + n <= MaxOutput
    /\ produced' = produced + n /\ taken' = Kept(n)
    /\ UNCHANGED <<commandCall, command, childVars, timedOut, killTimer, answer, commandCalls>>

(* Seeded fault: the answer tells what the runner cut, not what it cut itself. *)
AnswerAsTaken(code, ok) ==
    [ok |-> ok, code |-> code, shown |-> IF taken.chars < AnswerCap THEN taken.chars ELSE AnswerCap,
     truncated |-> taken.marked]
AnswerOf(code, ok) ==
    [ok |-> ok, code |-> code, shown |-> IF taken.chars < AnswerCap THEN taken.chars ELSE AnswerCap,
     truncated |-> taken.marked \/ taken.chars > AnswerCap]

(* The envelope: a timeout, an exit code other than 0, or success.         *)
CommandEnds ==
    /\ commandCall' = "answered"
    /\ answer' = IF timedOut THEN AnswerOf("timeout", FALSE)
                 ELSE IF exit = "0" THEN AnswerOf("completed", TRUE)
                 ELSE AnswerOf(exit, FALSE)

(* spawn fails: the error event settles the call, later events change      *)
(* nothing.                                                                *)
SpawnFails ==
    /\ commandCall = "open" /\ child = "running" /\ produced = 0
    /\ child' = "gone" /\ pipesOpen' = FALSE /\ exit' = "error"
    /\ commandCall' = "answered"
    /\ answer' = [NoAnswer EXCEPT !.code = IF timedOut THEN "timeout" ELSE "error"]
    /\ UNCHANGED <<command, runnerVars, produced, commandCalls>>

ChildEnds(code) ==
    /\ child \in {"running", "told", "killed"} /\ child' = "gone"
    /\ exit' = IF child = "killed" THEN "signal" ELSE code
    /\ code = "signal" => child # "running"
    /\ UNCHANGED <<commandCall, command, pipesOpen, runnerVars, produced, answer, commandCalls>>

(* The close event.                                                        *)
ChildCloses ==
    /\ commandCall = "open" /\ child = "gone" /\ pipesOpen' = FALSE
    /\ CommandEnds
    /\ UNCHANGED <<command, child, exit, runnerVars, produced, commandCalls>>

(* The timer may fire when the program is gone and its pipes are not yet   *)
(* closed; the signal then meets nobody.                                   *)
CommandTimeout ==
    /\ commandCall = "open" /\ ~timedOut
    /\ timedOut' = TRUE /\ killTimer' = TRUE
    /\ child' = IF child = "running" THEN "told" ELSE child
    /\ UNCHANGED <<commandCall, command, exit, pipesOpen, taken, produced, answer, commandCalls>>

(* Seeded fault: a program that ignores SIGTERM is left alone.             *)
Spares == child' = child
Kills == child' = IF commandCall = "open" /\ child \in {"running", "told"} THEN "killed" ELSE child

KillTimer ==
    /\ killTimer /\ killTimer' = FALSE /\ Kills
    /\ UNCHANGED <<commandCall, command, exit, pipesOpen, timedOut, taken, produced, answer, commandCalls>>

-----------------------------------------------------------------------------
(* The window of a table that openbb_cli exported: rows offset + 1 up to   *)
(* offset + limit of the total.                                            *)
TableWindow(total, offset, limit) ==
    {r \in 1..total : offset < r /\ r <= offset + limit}

(* A reader that adds what was returned to its offset.                     *)
ReadAll(total, limit) ==
    LET from[n \in 0..total] ==
            IF n >= total THEN <<>>
            ELSE LET got == TableWindow(total, n, limit)
                 IN  <<got>> \o (IF got = {} THEN <<>> ELSE from[n + Cardinality(got)])
    IN  from[0]

-----------------------------------------------------------------------------
CommandNext ==
    \/ \E c \in WellFormed \cup Malformed : AskCommand(c)
    \/ \E n \in 1..MaxOutput : Writes(n)
    \/ \E code \in {"0", "1", "signal"} : ChildEnds(code)
    \/ SpawnFails \/ ChildCloses \/ CommandTimeout \/ KillTimer

CommandSpec == CommandInit /\ [][CommandNext]_commandVars

(* A killed program ends; a running one need not.                          *)
KilledChildEnds == child = "killed" /\ ChildEnds("signal")

-----------------------------------------------------------------------------
(* The environment a script takes is the one it is told last.              *)
EnvUsed(tokens) ==
    LET at == {k \in 1..Len(tokens) : tokens[k] \in {"--trd-env=SIMULATE", "--trd-env=REAL"}
                                      \/ (tokens[k] = "--trd-env" /\ k < Len(tokens))}
        last == CHOOSE k \in at : \A j \in at : j <= k
    IN  IF at = {} THEN "none"
        ELSE IF tokens[last] = "--trd-env" THEN tokens[last + 1]
        ELSE IF tokens[last] = "--trd-env=REAL" THEN "REAL" ELSE "SIMULATE"

(* docs/TOOLS.md:83: an order that runs is one of the simulated account.   *)
OrdersAreSimulated ==
    commandCall = "open" /\ command.verb = "order" => EnvUsed(command.trade) = "SIMULATE"

(* A path that is read lies in its view: no prefix of it leaves the view.  *)
Depth(path, k) ==
    Cardinality({j \in 1..k : path[j] # ".."}) - Cardinality({j \in 1..k : path[j] = ".."})
PathsStayInside ==
    commandCall = "open" /\ command.tool = "bash" =>
        \A k \in 0..Len(command.path) : Depth(command.path, k) >= 0

(* docs/TOOLS.md:44: an answer shows the first part of the output and says *)
(* so when there was more, unless the capture limit cut it before.         *)
CutsAreTold ==
    commandCall = "answered" /\ answer.code \notin {"not_allowed", "error"} =>
        /\ answer.shown <= AnswerCap /\ answer.shown <= produced
        /\ ~answer.truncated => answer.shown = produced \/ taken.chars * Width >= CaptureCap

(* Success is a program that ended by itself, in time, with exit code 0.   *)
SuccessIsReal == answer.ok /\ commandCall = "answered" => exit = "0" /\ ~timedOut /\ child = "gone"

(* Reading a table window by window shows every row once.                  *)
WindowsCoverTable ==
    \A total \in 0..MaxTableRows, limit \in 1..MaxTableRows :
        LET all == ReadAll(total, limit)
        IN  /\ UNION {all[k] : k \in 1..Len(all)} = 1..total
            /\ \A j, k \in 1..Len(all) : j < k => all[j] \cap all[k] = {}

(* The command tools (workspace-bash.ts, openbb-cli.ts, moomoo-skill.ts).  *)
CommandInv ==
    /\ OrdersAreSimulated /\ PathsStayInside /\ CutsAreTold /\ SuccessIsReal
    /\ commandCall = "idle" => WindowsCoverTable

(* A call is answered although its program neither ends nor heeds SIGTERM. *)
EveryCommandIsAnswered == (commandCall = "open") ~> (commandCall = "answered")
=============================================================================
