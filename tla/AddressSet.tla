----------------------------- MODULE AddressSet -----------------------------
(***************************************************************************)
(* An AddressSet (AddressSetStorage) in the transactions of an ArbOS of    *)
(* version 11 or later; AddressSetUpgrade adds the older versions and the  *)
(* repair of their damage.                                                 *)
(***************************************************************************)
EXTENDS AddressSetStorage, TxJournal, FiniteSets

CONSTANT Versions   \* the ArbOS versions that remove() is called with

ASSUME VersionsAssumption == Versions \subseteq Nat

-----------------------------------------------------------------------------
(* The actions: one call of a handler in the transaction under way. *)

AddCall(a) ==
  /\ db.size < Cap
  /\ Call(Add(db, jrn, a))

RemoveCall(a, version) ==
  /\ ~RemovePanics(db, a)
  /\ Call(Remove(db, jrn, a, version))

ClearCall == Call(Clear(db, jrn))

Init == JournalInit(Empty)

Next ==
  \/ \E a \in Addr : AddCall(a)
  \/ \E a \in Addr, version \in Versions : RemoveCall(a, version)
  \/ ClearCall
  \/ Commit
  \/ Revert

Spec == Init /\ [][Next]_txVars

-----------------------------------------------------------------------------
(* Properties. *)

\* The variables have their types: the storage layout of address_set.rs and
\* the calls of one transaction.
TypeOK ==
  /\ db \in Storage
  /\ jrn \in Storage
  /\ calls \in 0..MaxCalls

\* After every committed transaction the list and the mapping of an AddressSet
\* are inverses of each other: what Remove and Clear rely on when they find an
\* address in the list by its mapping and the mapping by the list.
Consistent == ConsistentStorage(db)

\* size() is the number of addresses that is_member() accepts, in every
\* committed state ("Returns the number of members", AddressSet::size).
SizeCountsMembers == db.size = Cardinality(Members(db))

-----------------------------------------------------------------------------
(* What an AddressSet promises: a journaled set. *)

Promise == INSTANCE MemberSet
             WITH db <- Members(db), jrn <- Members(jrn)

\* The storage-backed set implements the plain one: add, remove and clear do
\* to is_member() what they do to a set, whatever was done before.
ImplementsMemberSet == Promise!Spec
=============================================================================
