--------------------------- MODULE LedgerHistory ---------------------------
(***************************************************************************)
(* What the canonical ledger promises, without tables, heads in memory,    *)
(* projections, compaction or failures: one linear history of entries and  *)
(* the mailbox cursor committed with it.  The history is extended at its   *)
(* end only, by whole batches, and only by an actor that has seen all of   *)
(* it; the cursor moves with the entries that disclose the rows it passes. *)
(***************************************************************************)
EXTENDS Integers

CONSTANT Actors

VARIABLES
    history,   \* the committed entries, ordered by id
    tip,       \* id of the last entry, 0 while there is none
    disclosed, \* the mailbox cursor
    seen       \* how far each actor has read the history

hvars == <<history, tip, disclosed, seen>>

Init ==
    /\ history = {} /\ tip = 0 /\ disclosed = 0
    /\ seen = [a \in Actors |-> 0]

(* A batch brings every tool result together with the call it answers.     *)
WholeBatch(new) ==
    \A t \in new : t.role = "tool" => \E a \in new : a.id = t.call

(* The actor may or may not learn that its own extension succeeded.        *)
Extend(a) ==
    /\ seen[a] = tip
    /\ history \subseteq history'
    /\ tip' > tip
    /\ \E e \in history' \ history : e.id = tip'
    /\ \A e \in history' \ history : tip < e.id /\ e.id <= tip'
    /\ WholeBatch(history' \ history)
    /\ disclosed' \in {disclosed, disclosed + 1}
    /\ \E n \in 0..tip' : seen' = [seen EXCEPT ![a] = n]

(* Reading all of the history: a start, a reload, a compaction's own read. *)
Observe(a) ==
    /\ seen' = [seen EXCEPT ![a] = tip]
    /\ UNCHANGED <<history, tip, disclosed>>

(* A crash or an abandoned compaction forgets what was read.               *)
Forget(a) ==
    /\ \E n \in 0..seen[a] : seen' = [seen EXCEPT ![a] = n]
    /\ UNCHANGED <<history, tip, disclosed>>

Next == \E a \in Actors : Extend(a) \/ Observe(a) \/ Forget(a)

Spec == Init /\ [][Next]_hvars
=============================================================================
