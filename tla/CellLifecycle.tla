---------------------------- MODULE CellLifecycle ----------------------------
(***************************************************************************)
(* What a sweep promises for each planned cell, whatever its workers,      *)
(* callers and faults do: the cell waits, is taken once, and gets one      *)
(* result, which is final; a cell that its checkpoint has completed goes   *)
(* from waiting to skipped.                                                *)
(***************************************************************************)
CONSTANTS Cells, Results

VARIABLE stage

Stages == {"queued", "held", "skipped"} \cup Results

Init == stage = [c \in Cells |-> "queued"]

Move(c, from, to) == stage[c] = from /\ stage' = [stage EXCEPT ![c] = to]

Take(c) == Move(c, "queued", "held")
Skip(c) == Move(c, "queued", "skipped")
Finish(c) == \E r \in Results : Move(c, "held", r)

Next == \E c \in Cells : Take(c) \/ Skip(c) \/ Finish(c)

Spec == Init /\ [][Next]_stage
=============================================================================
