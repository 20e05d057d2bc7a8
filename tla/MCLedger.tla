------------------------------- MODULE MCLedger -------------------------------
(* The canonical ledger and what is read out of it: two Cores that overlap,  *)
(* the transcript its rows are and its checkpoint, the requests made of a     *)
(* transcript, and how long a mailbox is remembered.  A behaviour exercises  *)
(* one of them, chosen at its start.                                        *)
EXTENDS MCAgentLedger, Transcript, ProviderRequest, MailboxContinuity

VARIABLE part \* what this behaviour exercises

ledgerVars == <<vars, transcriptVars, requestVars, continuityVars, part>>

LedgerInit ==
    /\ part \in {"cores", "transcript", "requests", "continuity"}
    /\ Init /\ TranscriptInit /\ RequestInit /\ ContinuityInit
    /\ part # "transcript" => rows = <<>>
    /\ part # "requests" => route.provider = "openai" /\ route.images = "native"

InCores(A) == part = "cores" /\ A /\ UNCHANGED <<transcriptVars, requestVars, continuityVars, part>>
InTranscript(A) == part = "transcript" /\ A /\ UNCHANGED <<vars, requestVars, continuityVars, part>>
InRequests(A) == part = "requests" /\ A /\ UNCHANGED <<vars, transcriptVars, continuityVars, part>>
InContinuity(A) == part = "continuity" /\ A /\ UNCHANGED <<vars, transcriptVars, requestVars, part>>

LedgerNext ==
    \/ InCores(Next)
    \/ InTranscript(TranscriptNext)
    \/ InRequests(RequestNext)
    \/ InContinuity(ContinuityNext)

LedgerSpec == LedgerInit /\ [][LedgerNext]_ledgerVars

(* What is read of the history is what was written, whole and in groups, and *)
(* a mailbox that was forgotten is told of in full.                         *)
HistoryInv == TranscriptInv /\ ContinuityInv

=============================================================================
