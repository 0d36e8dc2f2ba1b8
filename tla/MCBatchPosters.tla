--------------------------- MODULE MCBatchPosters ---------------------------
(* BatchPosters on two or three posters and small balances of either sign. *)
EXTENDS BatchPosters, TLC

CONSTANTS a1, a2

MCAddr == {ZeroAddr, a1, a2}
MCBalances == {-1, 0, 1, 2}
MCWideBalances == {0, MaxI256}
Symmetry == Permutations({a1, a2})
=============================================================================
