-------------------------- MODULE AddressSetUpgrade --------------------------
(***************************************************************************)
(* The life of an AddressSet across ArbOS 11.  Before it, remove() leaves  *)
(* the mapping of the moved element behind (address_set.rs, the test of    *)
(* arbos_version in remove); the upgrade empties the list with             *)
(* clear_list(), keeping the mapping, and rectify_mapping() is then meant  *)
(* to list the members one by one.                                         *)
(***************************************************************************)
EXTENDS AddressSet

VARIABLE version    \* the ArbOS version, 10 or 11

vars == <<db, jrn, calls, version>>

\* The upgrade forgets to empty the list: a bug to catch.
KeepList(r, w) == w

\* The size goes, the list stays: a bug to catch.
ClearSize(r, w) == [w EXCEPT !.size = 0]

\* clear_list(): the list goes, the mapping stays.
ClearList(r, w) ==
  IF r.size = 0 THEN w
  ELSE [w EXCEPT !.size = 0,
                 !.slot = [i \in Slots |-> IF i <= r.size THEN ZeroAddr ELSE @[i]]]

\* rectify_mapping() panics for an address that is no member or that the list
\* has where the mapping says.
RectifyPanics(r, a) ==
  \/ ~IsMember(r, a)
  \/ r.slot[r.at[a]] = a /\ r.at[a] <= r.size

\* rectify_mapping(): clears the mapping entry, then adds the address again.
\* The add reads the entry as it was committed.
Rectify(r, w, a) == Add(r, [w EXCEPT !.at[a] = 0], a)

AddStep(a) == AddCall(a) /\ UNCHANGED version

RemoveStep(a) == RemoveCall(a, version) /\ UNCHANGED version

ClearStep == ClearCall /\ UNCHANGED version

RectifyStep(a) ==
  /\ ~RectifyPanics(db, a)
  /\ db.size < Cap
  /\ Call(Rectify(db, jrn, a))
  /\ UNCHANGED version

\* The upgrade to ArbOS 11 empties the list, in a transaction of its own.
Upgrade ==
  /\ Idle
  /\ version = 10
  /\ version' = 11
  /\ db' = ClearList(db, db)
  /\ jrn' = db'
  /\ UNCHANGED calls

UpgradeInit == Init /\ version = 10

UpgradeNext ==
  \/ \E a \in Addr : AddStep(a) \/ RemoveStep(a) \/ RectifyStep(a)
  \/ ClearStep
  \/ Upgrade
  \/ Commit /\ UNCHANGED version
  \/ Revert /\ UNCHANGED version

UpgradeSpec == UpgradeInit /\ [][UpgradeNext]_vars

-----------------------------------------------------------------------------

\* The list never has an element beyond the size, at any version: add()
\* overwrites nothing, whatever the mapping has become.
ListEndsAtSize == RestIsEmpty(db)

\* Nobody becomes a member but by a call of add(), across the upgrade too: no
\* removed owner comes back when a later remove() moves its list entry.
OnlyAddAdds ==
  [][\A a \in Members(jrn') \ Members(db) :
       IsMember(jrn, a) \/ AddStep(a)]_vars

\* remove() ends the membership of its address at any version ("Removes addr
\* from the set", AddressSet::remove).
RemoveRemoves == [][\A a \in Addr : RemoveStep(a) => ~IsMember(jrn', a)]_vars
=============================================================================
