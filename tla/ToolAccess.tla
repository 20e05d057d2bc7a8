------------------------------ MODULE ToolAccess ------------------------------
(***************************************************************************)
(* How a tool call finds its tool (agent/tool.ts, agent/tool-schema.ts,      *)
(* agent/tools/index.ts and agent/tools/policies.ts).  A few tools are       *)
(* offered to the model; all others are reached through invoke, which names  *)
(* a tool of some capability and encloses its arguments.  A call is         *)
(* classified, parallel or exclusive, before anything is parsed; what runs   *)
(* later is found from the same call with nulls stripped and schemas applied.*)
(*                                                                         *)
(* Constant definitions.  The tools are one or two of each kind of policy;   *)
(* arguments are reduced to the action, the background flag, and whether the *)
(* other fields a schema requires are there.                                *)
(***************************************************************************)
EXTENDS Integers, Sequences, SequencesExt, FiniteSets

Args(action, background, complete) ==
    [action |-> action, background |-> background, complete |-> complete]
NoArgs == Args("none", "absent", FALSE)

(* A call, with the arguments given; through invoke, with the tool it names  *)
(* and the form it gives the arguments: an object, an object as JSON text,   *)
(* other text, null, or not at all.  Input that is no JSON, as when a        *)
(* stream ends within it, is taken for an empty object.                     *)
Direct(name, args) == [name |-> name, tool |-> "none", form |-> "object", args |-> args]
Invoke(tool, form, args) == [name |-> "invoke", tool |-> tool, form |-> form, args |-> args]
CutOff(name) == [name |-> name, tool |-> "none", form |-> "cut", args |-> NoArgs]

(* Any other action is "other"; "none" is the action of arguments without. *)
GivenActions == {"none", "other", "list", "get", "describe", "read", "write", "replace",
                 "url", "reddit_list", "image_url", "qq_avatar"}
Arguments == [action : GivenActions, background : {"absent", "null", "true", "false"}, complete : BOOLEAN]
ToolCall ==
    [name : STRING, tool : STRING, form : {"object", "json", "text", "null", "absent", "cut"}, args : Arguments]

(* What is offered to the model, and the capabilities' tools in their order. *)
AlwaysOn == {"inbox", "background_task", "help"}
Entries == <<[capability |-> "chat", tool |-> "send_message"],
             [capability |-> "external_research", tool |-> "fetch_content"],
             [capability |-> "workspace_management", tool |-> "workspace_file"],
             [capability |-> "media_inspection", tool |-> "inspect_media"],
             [capability |-> "media_fetch", tool |-> "fetch_content"]>>

-----------------------------------------------------------------------------
(* Policies.                                                               *)

(* Seeded fault: an action nobody declared may run beside others.          *)
OpenByAction(action, parallel, sideEffect) ==
    IF action \in sideEffect THEN "exclusive" ELSE "parallel"
(* byAction: an action that is not declared is exclusive.                   *)
ByAction(action, parallel, sideEffect) == IF action \in parallel THEN "parallel" ELSE "exclusive"

(* BOT_TOOL_POLICIES, and the conservative policy of an unknown tool.       *)
Policy(tool, args) ==
    CASE tool \in {"inbox", "help"} -> "parallel"
      [] tool = "background_task" -> ByAction(args.action, {"list", "get"}, {})
      [] tool = "workspace_file" -> ByAction(args.action, {"list", "read"}, {"write", "replace"})
      [] tool = "fetch_content" ->
            IF args.action \in {"url", "reddit_list"} /\ args.background # "true"
            THEN "parallel" ELSE "exclusive"
      [] OTHER -> "exclusive"

(* acceptsToolCall: two capabilities share fetch_content by its actions.    *)
FetchActions(capability) ==
    IF capability = "external_research" THEN {"url", "reddit_list"} ELSE {"image_url", "qq_avatar"}
AcceptsCall(entry, args) == entry.tool = "fetch_content" => args.action \in FetchActions(entry.capability)

(* The entry whose boundary takes the arguments, or the first of the tool.   *)
EntryFor(tool, args) ==
    LET named == SelectSeq(Entries, LAMBDA e : e.tool = tool)
        taking == SelectSeq(named, LAMBDA e : AcceptsCall(e, args))
    IN  IF taking # <<>> THEN taking[1] ELSE named[1]

Deferred(tool) == \E i \in DOMAIN Entries : Entries[i].tool = tool

(* normalizeInvokeToolArgs, and the arguments an invoke encloses.           *)
Normalized(call) == IF call.form = "json" THEN [call EXCEPT !.form = "object"] ELSE call
ShellParses(call) == call.form \in {"object", "absent"}
Enclosed(call) == IF call.form = "object" THEN call.args ELSE NoArgs

(* classify: of the tool named by a well-formed invoke, or of invoke itself. *)
Classify(call) ==
    IF call.name # "invoke" THEN Policy(IF call.name \in AlwaysOn THEN call.name ELSE "unknown", call.args)
    ELSE LET c == Normalized(call)
         IN  IF ShellParses(c) /\ Deferred(c.tool)
             THEN Policy(EntryFor(c.tool, Enclosed(c)).tool, Enclosed(c))
             ELSE "exclusive"

-----------------------------------------------------------------------------
(* Execution.                                                              *)

(* stripNullsFromOptionalFields: a null counts as not given where the schema *)
(* has the field as an optional one.                                       *)
HasBackground(args) == args.action = "url"
StrippedArgs(args) ==
    IF HasBackground(args) /\ args.background = "null" THEN [args EXCEPT !.background = "absent"] ELSE args
StrippedShell(call) == IF call.form = "null" THEN [call EXCEPT !.form = "absent"] ELSE call

SchemaActions(capability, tool) ==
    CASE tool = "background_task" -> {"list", "get"}
      [] tool = "workspace_file" -> {"list", "read", "write", "replace"}
      [] tool = "fetch_content" -> FetchActions(capability)
      [] tool = "help" -> {"list", "describe"}
      [] tool = "inbox" -> {"list", "read"}
      [] OTHER -> {"none"}

Fits(capability, tool, args) ==
    /\ args.complete /\ args.action \in SchemaActions(capability, tool)
    /\ args.background \in (IF HasBackground(args) THEN {"absent", "true", "false"} ELSE {"absent"})

(* What an executor finds of a call: why it is refused, or what it runs.     *)
Refusal(why) == [refused |-> why, tool |-> "none", args |-> NoArgs]
Parsed(capability, tool, args) ==
    LET given == StrippedArgs(args) IN
    IF Fits(capability, tool, given)
    THEN [refused |-> "none", tool |-> tool, args |-> given]
    ELSE Refusal("invalid_arguments")

Found(call) ==
    IF call.name # "invoke"
    THEN IF call.name \in AlwaysOn THEN Parsed("none", call.name, call.args) ELSE Refusal("unknown_tool")
    ELSE LET c == StrippedShell(Normalized(call))
             entry == EntryFor(c.tool, Enclosed(c))
         IN  IF ~ShellParses(c) THEN Refusal("invalid_arguments")
             ELSE IF ~Deferred(c.tool) THEN Refusal("unknown_tool")
             ELSE Parsed(entry.capability, entry.tool, Enclosed(c))

(* What the tools themselves do: which ones change something others see, and *)
(* whose results may carry a picture.                                      *)
Acts(found) ==
    \/ found.tool \in {"send_message", "inspect_media"}
    \/ found.tool = "workspace_file" /\ found.args.action \in {"write", "replace"}
    \/ found.tool = "fetch_content" /\
          (found.args.action \in {"image_url", "qq_avatar"} \/ found.args.background = "true")
ShowsPicture(found) ==
    \/ found.tool = "inspect_media"
    \/ found.tool = "background_task" /\ found.args.action = "get"
    \/ found.tool = "fetch_content" /\ found.args.action \in {"image_url", "qq_avatar"}
=============================================================================
