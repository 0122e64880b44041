--------------------------- MODULE MCSamplingParams ---------------------------
(* Three requests of two turns each. *)
EXTENDS SamplingParams, TLC

CONSTANTS r1, r2, r3

MCRequests == {r1, r2, r3}

Symmetry == Permutations(MCRequests)

=============================================================================
