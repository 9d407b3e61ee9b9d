------------------------------ MODULE SlotPool ------------------------------
(***************************************************************************)
(* What the container pool promises to the host: at most Limit requests    *)
(* hold a slot, each request holds one at most once, and once the pool is  *)
(* closed no request gets one any more.                                    *)
(***************************************************************************)
EXTENDS Naturals, FiniteSets

CONSTANTS Requests, Limit

VARIABLES held, used, closed

slots == <<held, used, closed>>

Init == held = {} /\ used = {} /\ closed = FALSE

\* A freed slot may go to the next request in the same step.
Exchange(out, in) ==
    /\ out \subseteq held
    /\ in \cap used = {}
    /\ closed => in = {}
    /\ held' = (held \ out) \cup in
    /\ used' = used \cup in
    /\ Cardinality(held') <= Limit
    /\ UNCHANGED closed

Close == closed' = TRUE /\ UNCHANGED <<held, used>>

Next == Close \/ \E out, in \in SUBSET Requests : Exchange(out, in)

Spec == Init /\ [][Next]_slots
=============================================================================
