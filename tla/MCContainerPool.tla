--------------------------- MODULE MCContainerPool ---------------------------
(* Instances of ContainerPool for TLC. *)
EXTENDS ContainerPool, TLC

MCSymmetry == Permutations(Requests)
=============================================================================
