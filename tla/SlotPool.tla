------------------------------ MODULE SlotPool ------------------------------
(***************************************************************************)
(* What the small-object path promises its callers, without pages, lists,  *)
(* threads or locks: a pool of slots, each of which is available, held by  *)
(* the application, or on its way back.  Slots enter the pool when a page  *)
(* is carved and never leave it.                                           *)
(***************************************************************************)
CONSTANT Slots

VARIABLES
    available,   \* slots malloc may hand out
    live,        \* slots the application holds
    pending      \* slots the application freed, not yet reusable

vars == <<available, live, pending>>

Known == available \cup live \cup pending

Init ==
    /\ available = {}
    /\ live = {}
    /\ pending = {}

(* A fresh page contributes slots nobody has seen before. *)
Carve ==
    /\ available \subseteq available'
    /\ available' \subseteq Slots
    /\ (available' \ available) \cap Known = {}
    /\ UNCHANGED <<live, pending>>

Malloc(s) ==
    /\ s \in available
    /\ available' = available \ {s}
    /\ live' = live \cup {s}
    /\ UNCHANGED pending

Free(s) ==
    /\ s \in live
    /\ live' = live \ {s}
    /\ pending' = pending \cup {s}
    /\ UNCHANGED available

Reclaim(s) ==
    /\ s \in pending
    /\ pending' = pending \ {s}
    /\ available' = available \cup {s}
    /\ UNCHANGED live

Next ==
    \/ Carve
    \/ \E s \in Slots : Malloc(s) \/ Free(s) \/ Reclaim(s)

Spec == Init /\ [][Next]_vars
=============================================================================
