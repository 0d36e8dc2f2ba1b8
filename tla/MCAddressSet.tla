---------------------------- MODULE MCAddressSet ----------------------------
(* AddressSet on four addresses, the zero address among them. *)
EXTENDS AddressSet

CONSTANTS a1, a2, a3

MCAddr == {ZeroAddr, a1, a2, a3}
=============================================================================
