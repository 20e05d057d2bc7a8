--------------------------- MODULE WebsitePublish ---------------------------
(***************************************************************************)
(* The website tool (agent/tools/website.ts): files of a Git working tree  *)
(* edited under a revision, and publishing them: status, check, status     *)
(* again, add, inspection of the index, commit and push, each a command of *)
(* its own that may fail.  The owner of the repository edits the same tree *)
(* at any time and stages files while nothing is being published.          *)
(*                                                                         *)
(* A file is its name and its version; NoVersion is a file that is not     *)
(* there.  A pathspec of git add is the tree a changed file lies in.       *)
(***************************************************************************)
EXTENDS Integers, FiniteSets

CONSTANTS
    SiteFiles,     \* files the tool may edit
    OtherFiles,    \* the rest of the repository
    Trees,         \* pathspecs the tool stages with
    TreeOf,        \* [SiteFiles \cup OtherFiles -> Trees or another directory]
    Versions, NoVersion,
    MaxOwnerEdits  \* bound: what the owner does

ASSUME SiteAssumption ==
    /\ SiteFiles \cap OtherFiles = {}
    /\ \A f \in SiteFiles : TreeOf[f] \in Trees
    /\ NoVersion \notin Versions

SiteAll == SiteFiles \cup OtherFiles

VARIABLES
    working, staged, head, remote, \* [file -> version] in tree, index, HEAD and origin
    seenVersion,   \* the revision the Agent last read or wrote of a file
    publishing,    \* "no", "checking", "checked", "adding", "added", "inspected", "committed"
    specs,         \* pathspecs of this publish
    toolCommits,   \* files the tool's commits changed
    overwritten,   \* an edit of the tool replaced a version the Agent had not seen
    ownerEdits

siteVars == <<working, staged, head, remote, seenVersion, publishing, specs, toolCommits,
              overwritten, ownerEdits>>
gitVars == <<working, staged, head, remote>>

SiteInit ==
    /\ working \in [SiteAll -> {NoVersion} \cup Versions] /\ \A f \in OtherFiles : working[f] = NoVersion
    /\ staged = working /\ head = working /\ remote = working
    /\ seenVersion = [f \in SiteFiles |-> NoVersion]
    /\ publishing = "no" /\ specs = {} /\ toolCommits = {}
    /\ overwritten = FALSE /\ ownerEdits = 0

(* git status: files that differ between HEAD, the index and the tree.     *)
Changed == {f \in SiteAll : working[f] # staged[f] \/ staged[f] # head[f]}

-----------------------------------------------------------------------------
(* Editing.  The tool is exclusive: no edit runs beside a publish.         *)

ReadSite(f) ==
    /\ publishing = "no" /\ working[f] # NoVersion
    /\ seenVersion' = [seenVersion EXCEPT ![f] = working[f]]
    /\ UNCHANGED <<gitVars, publishing, specs, toolCommits, overwritten, ownerEdits>>

(* An existing file takes its current revision, a new one takes none.      *)
CurrentRevision(f) == seenVersion[f] = working[f]

Overwrites(f) == overwritten' = (overwritten \/ (working[f] # NoVersion /\ seenVersion[f] # working[f]))

WriteSite(f, v) ==
    /\ publishing = "no"
    /\ working[f] = NoVersion \/ CurrentRevision(f)
    /\ working' = [working EXCEPT ![f] = v]
    /\ seenVersion' = [seenVersion EXCEPT ![f] = v]
    /\ Overwrites(f)
    /\ UNCHANGED <<staged, head, remote, publishing, specs, toolCommits, ownerEdits>>

DeleteSite(f) ==
    /\ publishing = "no" /\ working[f] # NoVersion /\ CurrentRevision(f)
    /\ working' = [working EXCEPT ![f] = NoVersion]
    /\ seenVersion' = [seenVersion EXCEPT ![f] = NoVersion]
    /\ Overwrites(f)
    /\ UNCHANGED <<staged, head, remote, publishing, specs, toolCommits, ownerEdits>>

MoveSite(f, g) ==
    /\ publishing = "no" /\ working[f] # NoVersion /\ CurrentRevision(f)
    /\ working[g] = NoVersion
    /\ working' = [working EXCEPT ![f] = NoVersion, ![g] = working[f]]
    /\ seenVersion' = [seenVersion EXCEPT ![f] = NoVersion, ![g] = working[f]]
    /\ Overwrites(f)
    /\ UNCHANGED <<staged, head, remote, publishing, specs, toolCommits, ownerEdits>>

OwnerEdits(f, v) ==
    /\ ownerEdits < MaxOwnerEdits /\ ownerEdits' = ownerEdits + 1
    /\ working' = [working EXCEPT ![f] = v]
    /\ UNCHANGED <<staged, head, remote, seenVersion, publishing, specs, toolCommits, overwritten>>

OwnerStages(f) ==
    /\ ownerEdits < MaxOwnerEdits /\ ownerEdits' = ownerEdits + 1
    /\ publishing = "no"
    /\ staged' = [staged EXCEPT ![f] = working[f]]
    /\ UNCHANGED <<working, head, remote, seenVersion, publishing, specs, toolCommits, overwritten>>

-----------------------------------------------------------------------------
(* Publishing.                                                             *)

PublishUnchanged == UNCHANGED <<seenVersion, toolCommits, overwritten, ownerEdits>>
PublishGoesTo(p) == publishing' = p /\ UNCHANGED <<gitVars, specs>> /\ PublishUnchanged

(* Wrong branch, nothing changed, or a change outside the site: refused.   *)
BeginPublish ==
    /\ publishing = "no"
    /\ Changed # {} /\ Changed \subseteq SiteFiles
    /\ PublishGoesTo("checking")

CheckPasses == publishing = "checking" /\ PublishGoesTo("checked")

(* The second status decides what is staged.                               *)
ChooseSpecs ==
    /\ publishing = "checked"
    /\ Changed \subseteq SiteFiles /\ Changed # {}
    /\ specs' = {TreeOf[f] : f \in Changed}
    /\ publishing' = "adding"
    /\ UNCHANGED gitVars /\ PublishUnchanged

(* git add -A of a pathspec takes every file of that tree.                 *)
AddSpecs ==
    /\ publishing = "adding"
    /\ staged' = [f \in SiteAll |-> IF TreeOf[f] \in specs THEN working[f] ELSE staged[f]]
    /\ publishing' = "added"
    /\ UNCHANGED <<working, head, remote, specs>> /\ PublishUnchanged

StagedFiles == {f \in SiteAll : staged[f] # head[f]}

(* Seeded fault: what the status had shown is not looked at again.         *)
TrustsStatus == TRUE
IndexIsSafe == StagedFiles \subseteq SiteFiles

InspectIndex ==
    /\ publishing = "added" /\ IndexIsSafe
    /\ PublishGoesTo("inspected")

(* An unsafe index is reset, for the pathspecs just added.                 *)
ResetIndex ==
    /\ publishing = "added" /\ ~IndexIsSafe
    /\ staged' = [f \in SiteAll |-> IF TreeOf[f] \in specs THEN head[f] ELSE staged[f]]
    /\ publishing' = "no" /\ specs' = {}
    /\ UNCHANGED <<working, head, remote>> /\ PublishUnchanged

CommitSite ==
    /\ publishing = "inspected" /\ StagedFiles # {}
    /\ head' = staged
    /\ toolCommits' = toolCommits \cup StagedFiles
    /\ publishing' = "committed"
    /\ UNCHANGED <<working, staged, remote, seenVersion, specs, overwritten, ownerEdits>>

Push ==
    /\ publishing = "committed"
    /\ remote' = head
    /\ publishing' = "no" /\ specs' = {}
    /\ UNCHANGED <<working, staged, head>> /\ PublishUnchanged

(* Any command fails, is killed at its timeout, or the status was unsafe:  *)
(* publish returns and leaves tree, index and HEAD as they are.            *)
PublishFails ==
    /\ publishing # "no"
    /\ publishing' = "no" /\ specs' = {}
    /\ UNCHANGED gitVars /\ PublishUnchanged

SiteNext ==
    \/ \E f \in SiteFiles :
          \/ ReadSite(f)
          \/ \E v \in Versions : WriteSite(f, v)
          \/ DeleteSite(f)
          \/ \E g \in SiteFiles \ {f} : MoveSite(f, g)
    \/ \E f \in SiteAll :
          \/ \E v \in Versions : OwnerEdits(f, v)
          \/ OwnerStages(f)
    \/ BeginPublish \/ CheckPasses \/ ChooseSpecs \/ AddSpecs
    \/ InspectIndex \/ ResetIndex \/ CommitSite \/ Push \/ PublishFails

SiteSpec == SiteInit /\ [][SiteNext]_siteVars

-----------------------------------------------------------------------------
(* What the tool commits and pushes are files of the site, although tree   *)
(* and index are shared with an owner who may change them between any two  *)
(* of its commands; what is pushed is committed; and no edit of the tool   *)
(* replaces a version of a file that the Agent has not seen.               *)
SiteIsKept ==
    /\ toolCommits \subseteq SiteFiles
    /\ \A f \in OtherFiles : remote[f] = NoVersion
    /\ ~overwritten
=============================================================================
