------------------------------- MODULE NoValue -------------------------------
(* The value of what is absent: undefined, null, an empty slot.                *)
CONSTANT None
=============================================================================
