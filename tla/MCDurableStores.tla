---------------------------- MODULE MCDurableStores ----------------------------
(* What is kept on disk, one store at a time: the ledger of a single Agent  *)
(* Core, the memory, workspace and paper-trading stores, and the website's  *)
(* repository.  The stores share nothing, so a behaviour exercises one of   *)
(* them, chosen at its start, while the others stay as they are.            *)
EXTENDS MCAgentLedger, MemoryStore, WorkspaceFiles, CryptoPaper, WebsitePublish

VARIABLE store \* the store this behaviour exercises

storeVars == <<vars, memoryVars, workspaceVars, paperVars, siteVars, store>>

MCTreeOf == [f \in SiteFiles \cup OtherFiles |-> "src"]

StoresInit ==
    /\ store \in {"ledger", "memory", "workspace", "paper", "website"}
    /\ Init /\ MemoryInit /\ WorkspaceInit /\ PaperInit /\ SiteInit
    /\ store # "workspace" => notes = {}
    /\ \A f \in SiteAll : working[f] = NoVersion

StoresNext ==
    /\ UNCHANGED store
    /\ \/ store = "ledger" /\ Next /\ UNCHANGED <<memoryVars, workspaceVars, paperVars, siteVars>>
       \/ store = "memory" /\ MemoryNext /\ UNCHANGED <<vars, workspaceVars, paperVars, siteVars>>
       \/ store = "workspace" /\ WorkspaceNext /\ UNCHANGED <<vars, memoryVars, paperVars, siteVars>>
       \/ store = "paper" /\ PaperNext /\ UNCHANGED <<vars, memoryVars, workspaceVars, siteVars>>
       \/ store = "website" /\ SiteNext /\ UNCHANGED <<vars, memoryVars, workspaceVars, paperVars>>

(* The memory's fairness: maintenance and the Agent take their turns.      *)
InMemory(A) == store = "memory" /\ A /\ UNCHANGED <<vars, workspaceVars, paperVars, siteVars, store>>

StoresSpec ==
    /\ StoresInit /\ [][StoresNext]_storeVars
    /\ WF_storeVars(InMemory(ReviewWorks))
    /\ WF_storeVars(InMemory(AgentWrites))
    /\ SF_storeVars(InMemory(ReviewLocks))

-----------------------------------------------------------------------------
(* The Agent's own files, workspace and site, hold what was written: the   *)
(* bodies of notes and files (agent-notebook.ts, workspace-checkpoints.ts), *)
(* and the site's index and tree (website.ts).                             *)
FilesAreKept == WorkspaceKept /\ SiteIsKept
=============================================================================
