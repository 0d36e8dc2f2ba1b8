------------------------- MODULE MCAddressSetUpgrade -------------------------
(* AddressSetUpgrade on four addresses, the zero address among them. *)
EXTENDS AddressSetUpgrade, TLC

CONSTANTS a1, a2, a3

MCAddr == {ZeroAddr, a1, a2, a3}
Symmetry == Permutations({a1, a2, a3})
=============================================================================
