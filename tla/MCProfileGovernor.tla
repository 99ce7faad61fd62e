------------------------- MODULE MCProfileGovernor -------------------------
(* ProfileGovernor for TLC: interchangeable identifiers.                   *)
EXTENDS ProfileGovernor, TLC

Symmetry == Permutations(Lease) \cup Permutations(Fence) \cup Permutations(Caller)
=============================================================================
