---------------------------- MODULE MCProviderRequest ----------------------------
(* Instances of ProviderRequest for TLC. *)
EXTENDS ProviderRequest

CONSTANTS small, large, tiny

\* One request that fits, one larger than the bucket, one that needs nothing.
MCEst == [c \in Callers |-> IF c = small THEN 3 ELSE IF c = large THEN 12 ELSE 0]
=============================================================================
