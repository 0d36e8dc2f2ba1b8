----------------------------- MODULE MemberSet -----------------------------
(***************************************************************************)
(* What crates/arb-arbos/src/address_set.rs promises its callers: a set of *)
(* addresses under a journal whose reads see the writes before them.       *)
(* AddressSet is shown to implement it for transactions of one call.       *)
(***************************************************************************)
EXTENDS TxJournal

CONSTANT Addr

Init == JournalInit({})

Add(a) == Call(jrn \cup {a})

Remove(a) == Call(jrn \ {a})

Clear == Call({})

Next ==
  \/ \E a \in Addr : Add(a) \/ Remove(a)
  \/ Clear
  \/ Commit
  \/ Revert

Spec == Init /\ [][Next]_txVars
=============================================================================
