---------------------------- MODULE MCMessageFaults ----------------------------
(* A message through everything that can fail on its way: its delivery to   *)
(* the Agent Core with crashes, failed commits and late rows, the attention *)
(* its mailbox is owed, the picture it carries, the round of tools that     *)
(* follows, the answer sent back, the browser a tool drives, and the       *)
(* gateway of Feishu.  Safety only.  The parts share no state, so a behaviour exercises one of them,   *)
(* chosen at its start.                                                     *)
EXTENDS MailboxDelivery, MailboxAttention, SendMessage, MediaStore, ToolRound, BrowserPages, FeishuGateway, TLC

VARIABLE part \* what this behaviour exercises

messageVars == <<vars, attentionVars, sendVars, mediaVars, roundVars, browserVars, feishuVars, part>>

(* Mailboxes are interchangeable, as all of them start alike.              *)
MailboxSymmetry == Permutations(Mailboxes)

QQPrivate == [platform |-> "qq", kind |-> "private"]
QQGroup == [platform |-> "qq", kind |-> "group"]
FeishuGroup == [platform |-> "feishu", kind |-> "group"]
MCTargets == {QQPrivate, QQGroup, FeishuGroup}
MCMonitored == {QQGroup}

Url(background) == Args("url", background, TRUE)
MCOffered ==
    {Direct("inbox", Args("read", "absent", TRUE)), Direct("help", Args("describe", "absent", FALSE)),
     Direct("send_image", NoArgs), CutOff("inbox"), CutOff("invoke")}
    \cup {Direct("background_task", Args(a, "absent", TRUE)) : a \in {"get", "other"}}
    \cup {Invoke("fetch_content", "object", Url(b)) : b \in {"true", "null", "absent"}}
    \cup {Invoke("fetch_content", "json", Args(a, "absent", TRUE)) : a \in {"image_url", "other"}}
    \cup {Invoke("workspace_file", f, Args("read", "absent", TRUE)) : f \in {"object", "json", "null", "text"}}
    \cup {Invoke("workspace_file", "json", Args("write", "absent", TRUE)),
          Invoke("send_message", "object", Args("none", "absent", TRUE)),
          Invoke("inspect_media", "object", Args("none", "absent", TRUE)),
          Invoke("workspace_command", "object", NoArgs)}

MessageInit ==
    /\ part \in {"delivery", "attention", "send", "media", "round", "browser", "feishu"}
    /\ Init /\ AttentionInit /\ SendInit /\ MediaInit /\ RoundInit /\ BrowserInit /\ FeishuInit
    /\ part # "delivery" => lastWake = 0

In(p, rest) == part = p /\ UNCHANGED <<part, rest>>

MessageNext ==
    \/ In("delivery", <<attentionVars, sendVars, mediaVars, roundVars, browserVars, feishuVars>>) /\ Next
    \/ In("attention", <<vars, sendVars, mediaVars, roundVars, browserVars, feishuVars>>) /\ AttentionNext
    \/ In("send", <<vars, attentionVars, mediaVars, roundVars, browserVars, feishuVars>>) /\ SendNext
    \/ In("media", <<vars, attentionVars, sendVars, roundVars, browserVars, feishuVars>>) /\ MediaNext
    \/ In("round", <<vars, attentionVars, sendVars, mediaVars, browserVars, feishuVars>>) /\ RoundNext
    \/ In("browser", <<vars, attentionVars, sendVars, mediaVars, roundVars, feishuVars>>) /\ BrowserNext
    \/ In("feishu", <<vars, attentionVars, sendVars, mediaVars, roundVars, browserVars>>) /\ FeishuNext

MessageSpec == MessageInit /\ [][MessageNext]_messageVars
=============================================================================
