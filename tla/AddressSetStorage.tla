-------------------------- MODULE AddressSetStorage --------------------------
(***************************************************************************)
(* The storage and the handlers of crates/arb-arbos/src/address_set.rs,    *)
(* the set of addresses behind the chain owners and the batch posters.     *)
(* Slot 0 of the backing storage is the size, slots 1..size list the       *)
(* members, and a sub-storage maps each member to its slot in the list.    *)
(*                                                                         *)
(* A handler is an operator of r, the storage that its reads see, and w,   *)
(* the storage that its writes change (see TxJournal).                     *)
(***************************************************************************)
EXTENDS Naturals

CONSTANTS
  Addr,       \* addresses
  ZeroAddr,   \* the zero address, which is also what an empty slot reads as
  Cap         \* bound on the length of the list; u64 in the code

ASSUME AddrAssumption == ZeroAddr \in Addr
ASSUME CapAssumption == Cap \in Nat \ {0}

Slots == 1..Cap

\* The storage of one AddressSet.
Storage == [size: 0..Cap, slot: [Slots -> Addr], at: [Addr -> 0..Cap]]

\* AddressSet::initialize on fresh storage.
Empty ==
  [size |-> 0, slot |-> [i \in Slots |-> ZeroAddr], at |-> [a \in Addr |-> 0]]

-----------------------------------------------------------------------------
(* The reads. *)

IsMember(s, a) == s.at[a] # 0

Members(s) == {a \in Addr : IsMember(s, a)}

-----------------------------------------------------------------------------
(* The writes. *)

\* The mapping entry is written, the list is not: a bug to catch.
AddNoList(r, w, a) ==
  IF IsMember(r, a) THEN w
  ELSE [w EXCEPT !.at[a] = r.size + 1, !.size = r.size + 1]

Add(r, w, a) ==
  IF IsMember(r, a) THEN w
  ELSE [w EXCEPT !.at[a] = r.size + 1,
                 !.slot[r.size + 1] = a,
                 !.size = r.size + 1]

\* size.decrement of an empty list panics.
RemovePanics(r, a) == IsMember(r, a) /\ r.size = 0

\* The element moved into the hole keeps its old mapping: a bug to catch.
RemoveNoRemap(r, w, a, version) ==
  IF ~IsMember(r, a) THEN w
  ELSE [size |-> r.size - 1,
        slot |-> [w.slot EXCEPT ![r.at[a]] = r.slot[r.size],
                                ![r.size] = ZeroAddr],
        at |-> [w.at EXCEPT ![a] = 0]]

\* The last element of the list moves into its own place: a bug to catch.
RemoveMovesLast(r, w, a, version) ==
  LET hole == r.at[a]
      last == r.slot[r.size]
  IN IF ~IsMember(r, a) THEN w
     ELSE [size |-> r.size - 1,
           slot |-> [w.slot EXCEPT ![hole] = last, ![r.size] = ZeroAddr],
           at |-> IF version >= 11
                  THEN [w.at EXCEPT ![a] = 0, ![last] = hole]
                  ELSE [w.at EXCEPT ![a] = 0]]

\* The last element of the list moves into the hole that the removed one
\* leaves.  Its mapping follows from version 11 on.
Remove(r, w, a, version) ==
  LET hole == r.at[a]
      last == r.slot[r.size]
      moves == hole < r.size
  IN IF ~IsMember(r, a) THEN w
     ELSE [size |-> r.size - 1,
           slot |-> IF moves
                    THEN [w.slot EXCEPT ![hole] = last, ![r.size] = ZeroAddr]
                    ELSE [w.slot EXCEPT ![r.size] = ZeroAddr],
           at |-> IF moves /\ version >= 11
                  THEN [w.at EXCEPT ![a] = 0, ![last] = hole]
                  ELSE [w.at EXCEPT ![a] = 0]]

\* clear(): walks the list as read, clearing each slot and the mapping of what
\* the slot holds.
Clear(r, w) ==
  LET listed == {r.slot[i] : i \in 1..r.size}
  IN IF r.size = 0 THEN w
     ELSE [size |-> 0,
           slot |-> [i \in Slots |-> IF i <= r.size THEN ZeroAddr ELSE w.slot[i]],
           at |-> [a \in Addr |-> IF a \in listed THEN 0 ELSE w.at[a]]]

-----------------------------------------------------------------------------
(* When the storage of a set is in order. *)

\* Slot i of the list is mapped back to i, for all of the list.
ListIsMapped(s) == \A i \in 1..s.size : s.at[s.slot[i]] = i

\* A mapping entry points into the list, at the address it is the entry of.
MappedIsListed(s) ==
  \A a \in Members(s) : s.at[a] <= s.size /\ s.slot[s.at[a]] = a

\* Slots beyond the size are empty, so that a new member finds a free one.
RestIsEmpty(s) == \A i \in Slots : i > s.size => s.slot[i] = ZeroAddr

ConsistentStorage(s) == ListIsMapped(s) /\ MappedIsListed(s) /\ RestIsEmpty(s)
=============================================================================
