---------------------------- MODULE MCConversation ----------------------------
(* The conversation on its way to the model when nothing but the gateways'  *)
(* connections fails: ingress, delivery, the paging of the inbox tool, the   *)
(* model calls of the round that follows, and the programs its tools run.   *)
(* A behaviour exercises one of them, chosen at its start, and each states  *)
(* its own fairness.                                                        *)
EXTENDS MailboxDelivery, Ingress, InboxPaging, LlmCall, CommandTools

VARIABLE part \* what this behaviour exercises

conversationVars == <<vars, ingressVars, pagingVars, llmVars, commandVars, part>>

ConversationInit ==
    /\ part \in {"ingress", "delivery", "paging", "llm", "command"}
    /\ Init /\ IngressInit /\ PagingInit /\ LlmInit /\ CommandInit

InIngress(A) == part = "ingress" /\ A /\ UNCHANGED <<vars, pagingVars, llmVars, commandVars, part>>
InDelivery(A) == part = "delivery" /\ A /\ UNCHANGED <<ingressVars, pagingVars, llmVars, commandVars, part>>
InPaging(A) == part = "paging" /\ A /\ UNCHANGED <<vars, ingressVars, llmVars, commandVars, part>>
InRound(A) == part = "llm" /\ A /\ UNCHANGED <<vars, ingressVars, pagingVars, commandVars, part>>
InCommand(A) == part = "command" /\ A /\ UNCHANGED <<vars, ingressVars, pagingVars, llmVars, part>>

ConversationNext ==
    InIngress(IngressNext) \/ InDelivery(Next) \/ InPaging(PagingNext)
    \/ InRound(LlmNext) \/ InCommand(CommandNext)

ConversationSpec ==
    /\ ConversationInit /\ [][ConversationNext]_conversationVars
    /\ \A s \in Scopes : WF_conversationVars(InIngress(ChainWorks(s)))
    /\ \A g \in Groups : WF_conversationVars(InIngress(FillWorks(g)))
    /\ WF_conversationVars(InIngress(Connect))
    /\ WF_conversationVars(InDelivery(Publish)) /\ WF_conversationVars(InDelivery(Startup))
    /\ WF_conversationVars(InDelivery(Watcher)) /\ WF_conversationVars(InDelivery(Drain))
    /\ WF_conversationVars(InDelivery(CommitDisclosure))
    /\ WF_conversationVars(InRound(RequestEnds))
    /\ WF_conversationVars(InRound(BackoffEnds \/ BackoffAborted))
    /\ WF_conversationVars(InRound(RoundGoesOn))
    /\ WF_conversationVars(InCommand(CommandTimeout)) /\ WF_conversationVars(InCommand(KillTimer))
    /\ WF_conversationVars(InCommand(ChildCloses))
    /\ WF_conversationVars(InCommand(KilledChildEnds))

(* Whatever answers late or never: a round of model calls ends, and a       *)
(* command is answered.                                                     *)
EveryCallIsAnswered == EveryRoundIsAnswered /\ EveryCommandIsAnswered
=============================================================================
