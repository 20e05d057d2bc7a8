----------------------------- MODULE BrowserPages -----------------------------
(***************************************************************************)
(* The pages of the browser sidecar (browser/controller.ts).  The tool     *)
(* sends one action at a time, but its HTTP client gives up after a        *)
(* timeout while the action goes on, so actions overlap.  Between any two  *)
(* awaits of an action a page may close by itself and the browser may die. *)
(*                                                                         *)
(* Pages are numbered in the order the controller registers them, which is *)
(* the order of its map.  The profile directory admits one browser: a      *)
(* launch beside a living one fails.                                       *)
(***************************************************************************)
EXTENDS Integers, FiniteSets, FiniteSetsExt

CONSTANTS
    ActionSlots,       \* actions in flight at a time
    MaxBrowserPages, MaxLaunches  \* bounds: pages and browsers ever opened

ASSUME BrowserAssumption == MaxBrowserPages \in Nat /\ MaxLaunches \in Nat

VARIABLES
    context,       \* the browser the controller holds, 0 for none
    browser,       \* the browser that lives, 0 for none
    launched,      \* number of browsers launched so far
    openPages,     \* pages open in it
    lastPage,      \* number of pages registered so far
    listed,        \* keys of the controller's map
    activePage,    \* activePageId, 0 for null
    unclosed,      \* history: pages that stayed open although closed
    step,          \* [ActionSlots -> "idle", "launching", "creating", "acting"]
    kind,          \* [ActionSlots -> "open", "use", "close"]
    wanted,        \* [ActionSlots -> page asked for, 0 for none, -1 for a new one]
    target         \* [ActionSlots -> page of the record, or browser it creates one in]

browserVars == <<context, browser, launched, openPages, lastPage, listed, activePage,
                 unclosed, step, kind, wanted, target>>

Pages == 1..MaxBrowserPages

BrowserInit ==
    /\ context = 0 /\ browser = 0 /\ launched = 0
    /\ openPages = {} /\ lastPage = 0 /\ listed = {} /\ activePage = 0 /\ unclosed = {}
    /\ step = [a \in ActionSlots |-> "idle"] /\ kind = [a \in ActionSlots |-> "use"]
    /\ wanted = [a \in ActionSlots |-> 0] /\ target = [a \in ActionSlots |-> 0]

(* The first key of the map that is left.                                  *)
FirstOf(pages) == IF pages = {} THEN 0 ELSE Min(pages)
NextActive(gone) == IF activePage \in gone THEN FirstOf(listed \ gone) ELSE activePage

Goes(a, s, p) ==
    /\ step' = [step EXCEPT ![a] = s]
    /\ target' = [target EXCEPT ![a] = p]

(* With a browser at hand: a page of its own, the page asked for, or the   *)
(* active one; an id that is not listed fails the action.                  *)
Picks(a, k, w, pages, active, held) ==
    LET found == IF w > 0 THEN w ELSE active
    IN  IF w = -1 \/ found = 0 \/ (k = "open" /\ pages = {}) THEN Goes(a, "creating", held)
        ELSE IF found \in pages THEN Goes(a, "acting", found)
        ELSE Goes(a, "idle", 0)

BeginAction(a, k, w) ==
    /\ step[a] = "idle"
    /\ w = -1 => k = "open"
    /\ kind' = [kind EXCEPT ![a] = k]
    /\ wanted' = [wanted EXCEPT ![a] = w]
    /\ IF context = 0 THEN Goes(a, "launching", 0) ELSE Picks(a, k, w, listed, activePage, context)
    /\ UNCHANGED <<context, browser, launched, openPages, lastPage, listed, activePage, unclosed>>

(* createPageRecord of a page just opened.                                 *)
Registers ==
    /\ lastPage < MaxBrowserPages
    /\ lastPage' = lastPage + 1
    /\ openPages' = openPages \cup {lastPage + 1}
    /\ listed' = listed \cup {lastPage + 1}
    /\ activePage' = IF activePage = 0 THEN lastPage + 1 ELSE activePage

(* ensureContext: a persistent context starts with one page.               *)
LaunchReturns(a) ==
    /\ step[a] = "launching" /\ browser = 0 /\ launched < MaxLaunches
    /\ launched' = launched + 1
    /\ browser' = launched + 1 /\ context' = launched + 1
    /\ Registers
    /\ Picks(a, kind[a], wanted[a], listed', activePage', context')
    /\ UNCHANGED <<kind, wanted, unclosed>>

LaunchFails(a) ==
    /\ step[a] = "launching"
    /\ Goes(a, "idle", 0)
    /\ UNCHANGED <<kind, wanted, context, browser, launched, openPages, lastPage, listed, activePage, unclosed>>

PageCreated(a) ==
    /\ step[a] = "creating" /\ target[a] = browser /\ browser # 0
    /\ Registers
    /\ Goes(a, "acting", lastPage + 1)
    /\ UNCHANGED <<kind, wanted, context, browser, launched, unclosed>>

PageNotCreated(a) ==
    /\ step[a] = "creating"
    /\ Goes(a, "idle", 0)
    /\ UNCHANGED <<kind, wanted, context, browser, launched, openPages, lastPage, listed, activePage, unclosed>>

Unlists(gone) == listed' = listed \ gone /\ activePage' = NextActive(gone)

(* A page closes: its handler forgets it.                                  *)
Forgets(gone) == openPages' = openPages \ gone /\ Unlists(gone)

(* Playwright finishes what the action did with its page: open makes it    *)
(* the active one, close closes it.                                        *)
ActionSucceeds(a) ==
    /\ step[a] = "acting" /\ target[a] \in openPages
    /\ CASE kind[a] = "open" -> activePage' = target[a] /\ UNCHANGED <<openPages, listed>>
         [] kind[a] = "close" -> Forgets({target[a]})
         [] OTHER -> UNCHANGED <<openPages, listed, activePage>>
    /\ Goes(a, "idle", 0)
    /\ UNCHANGED <<kind, wanted, context, browser, launched, lastPage, unclosed>>

(* Seeded fault: a navigation that failed leaves its page active, too.     *)
ActivatedAnyway(a) == IF kind[a] = "open" THEN target[a] ELSE activePage
ActiveAfterFailure(a) == activePage

(* It timed out, or the page or the browser is gone.                       *)
ActionFails(a) ==
    /\ step[a] = "acting" /\ kind[a] # "close"
    /\ activePage' = ActiveAfterFailure(a)
    /\ Goes(a, "idle", 0)
    /\ UNCHANGED <<kind, wanted, context, browser, launched, openPages, lastPage, listed, unclosed>>

(* An error of close is swallowed, and its page is forgotten, open or not. *)
CloseFails(a) ==
    /\ step[a] = "acting" /\ kind[a] = "close"
    /\ Unlists({target[a]})
    /\ unclosed' = unclosed \cup ({target[a]} \cap openPages)
    /\ Goes(a, "idle", 0)
    /\ UNCHANGED <<kind, wanted, context, browser, launched, openPages, lastPage>>

PageCloses(p) ==
    /\ p \in openPages
    /\ Forgets({p})
    /\ UNCHANGED <<context, browser, launched, lastPage, step, kind, wanted, target, unclosed>>

(* The context's close handler.                                            *)
BrowserDies ==
    /\ browser # 0
    /\ browser' = 0 /\ context' = 0
    /\ Forgets(openPages)
    /\ UNCHANGED <<launched, lastPage, step, kind, wanted, target, unclosed>>

(* switch_page of a listed page.                                           *)
SwitchPage(p) ==
    /\ context # 0 /\ p \in listed
    /\ activePage' = p
    /\ UNCHANGED <<context, browser, launched, openPages, lastPage, listed, step, kind, wanted, target, unclosed>>

BrowserNext ==
    \/ \E a \in ActionSlots :
          \/ \E k \in {"open", "use", "close"}, w \in {-1, 0} \cup Pages : BeginAction(a, k, w)
          \/ LaunchReturns(a) \/ LaunchFails(a)
          \/ PageCreated(a) \/ PageNotCreated(a)
          \/ ActionSucceeds(a) \/ ActionFails(a) \/ CloseFails(a)
    \/ \E p \in Pages : PageCloses(p) \/ SwitchPage(p)
    \/ BrowserDies

BrowserSpec == BrowserInit /\ [][BrowserNext]_browserVars

-----------------------------------------------------------------------------
(* However actions overlap with one another, with pages that close and     *)
(* with a browser that dies, the controller knows the browser that lives:  *)
(* what it lists is open there and what is open is listed, but for pages   *)
(* that could not be closed; the active page is open, and there is one as  *)
(* long as any page is listed.                                             *)
PagesAreTracked ==
    /\ context \in {0, browser}
    /\ listed \subseteq openPages /\ openPages \subseteq listed \cup unclosed
    /\ activePage \in openPages \cup {0}
    /\ listed # {} => activePage # 0
=============================================================================
