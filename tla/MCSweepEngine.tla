---------------------------- MODULE MCSweepEngine ----------------------------
(* Instances of SweepEngine for TLC. *)
EXTENDS SweepEngine, TLC

CONSTANTS w1, w2, m1, m2, v1

\* Three cells: two of the model limited to one at a time, one of another,
\* all of one provider.
MCModelOf == [c \in 1..NumCells |-> IF c = 2 /\ NumCells = 3 THEN m2 ELSE m1]
MCProviderOf == [c \in 1..NumCells |-> v1]
MCModelLimit == [m \in {MCModelOf[c] : c \in 1..NumCells} |->
                    IF m = m1 THEN 1 ELSE 2]
MCSymmetry == Permutations(Workers)
=============================================================================
