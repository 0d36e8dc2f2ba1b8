------------------------------ MODULE MCQueue ------------------------------
(* Queue on offsets up to a bound, and three values with the zero value. *)
EXTENDS Queue, TLC

CONSTANTS v1, v2

MCVal == {ZeroVal, v1, v2}
Symmetry == Permutations({v1, v2})
=============================================================================
