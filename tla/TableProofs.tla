---------------------------- MODULE TableProofs -----------------------------
(***************************************************************************)
(* Theorems about AddressSet and, in the last section, about BatchPosters, *)
(* the table that is built on it, for every set of addresses, every        *)
(* capacity and every width of the balances, in transactions of one call.  *)
(*                                                                         *)
(* The invariant is ConsistentStorage of both views of the storage, with   *)
(* the fact that the views agree whenever a call is made: a handler reads  *)
(* the committed view and writes the journaled one, so that its own        *)
(* correctness (TableLemmas) only carries over to a state where both are   *)
(* the same.                                                               *)
(*                                                                         *)
(* The theorems about AddressSet are about ArbOS 11 and later; those about *)
(* AddressSetUpgrade say what holds of a set whose mappings were damaged   *)
(* before.                                                                 *)
(***************************************************************************)
EXTENDS AddressSetUpgrade, BatchPosters, TableLemmas

-----------------------------------------------------------------------------
(* The invariant. *)

\* The environment of the theorems: ArbOS is at version 11 or later and a
\* transaction makes one call that changes the set.
OneCallOfNewVersion == MaxCalls = 1 /\ \A v \in Versions : v >= 11

\* Both views are well-formed, and the same when a transaction starts.
IInv ==
  /\ TypeOK
  /\ ConsistentStorage(db)
  /\ ConsistentStorage(jrn)
  /\ calls = 0 => jrn = db

\* A call that runs in a state of the invariant runs on one storage, which is
\* both what it reads and what it writes.
LEMMA OneStorage ==
  ASSUME OneCallOfNewVersion, IInv, calls < MaxCalls
  PROVE  jrn = db /\ db \in Storage /\ ConsistentStorage(db)
BY DEF OneCallOfNewVersion, IInv, TypeOK

\* A call that leaves a well-formed storage keeps the invariant.
LEMMA CallKeeps ==
  ASSUME OneCallOfNewVersion, IInv, NEW s \in Storage, ConsistentStorage(s),
         Call(s)
  PROVE  IInv'
BY DEF OneCallOfNewVersion, IInv, TypeOK, Call

\* The initial states have the invariant.
LEMMA InitInvariant == Init => IInv
BY EmptyIsConsistent, MaxCallsAssumption DEF Init, JournalInit, IInv, TypeOK

\* Every step keeps the invariant.
LEMMA StepInvariant ==
  ASSUME OneCallOfNewVersion, IInv, [Next]_txVars
  PROVE  IInv'
<1>1. ASSUME NEW a \in Addr, AddCall(a) PROVE IInv'
  <2>1. db.size < Cap /\ Call(Add(db, jrn, a)) /\ calls < MaxCalls
    BY <1>1 DEF AddCall, Call
  <2>2. jrn = db /\ db \in Storage /\ ConsistentStorage(db)
    BY <2>1, OneStorage
  <2>3. Add(db, db, a) \in Storage /\ ConsistentStorage(Add(db, db, a))
    BY <2>1, <2>2, AddKeeps
  <2> QED BY <2>1, <2>2, <2>3, CallKeeps
<1>2. ASSUME NEW a \in Addr, NEW v \in Versions, RemoveCall(a, v)
      PROVE  IInv'
  <2>1. Call(Remove(db, jrn, a, v)) /\ calls < MaxCalls
    BY <1>2 DEF RemoveCall, Call
  <2>2. jrn = db /\ db \in Storage /\ ConsistentStorage(db)
    BY <2>1, OneStorage
  <2>3. v \in Nat /\ v >= 11
    BY VersionsAssumption DEF OneCallOfNewVersion
  <2>4. /\ Remove(db, db, a, v) \in Storage
        /\ ConsistentStorage(Remove(db, db, a, v))
    BY <2>2, <2>3, RemoveKeeps
  <2> QED BY <2>1, <2>2, <2>4, CallKeeps
<1>3. ASSUME ClearCall PROVE IInv'
  <2>1. Call(Clear(db, jrn)) /\ calls < MaxCalls
    BY <1>3 DEF ClearCall, Call
  <2>2. jrn = db /\ db \in Storage /\ ConsistentStorage(db)
    BY <2>1, OneStorage
  <2>3. Clear(db, db) \in Storage /\ ConsistentStorage(Clear(db, db))
    BY <2>2, ClearEmpties, EmptyIsConsistent
  <2> QED BY <2>1, <2>2, <2>3, CallKeeps
<1>4. ASSUME Commit PROVE IInv'
  BY <1>4, MaxCallsAssumption DEF Commit, IInv, TypeOK
<1>5. ASSUME Revert PROVE IInv'
  BY <1>5, MaxCallsAssumption DEF Revert, IInv, TypeOK
<1>6. ASSUME UNCHANGED txVars PROVE IInv'
  BY <1>6 DEF txVars, IInv, TypeOK
<1> QED BY <1>1, <1>2, <1>3, <1>4, <1>5, <1>6 DEF Next

\* The invariant holds in every reachable state.
THEOREM Invariance == ASSUME OneCallOfNewVersion PROVE Spec => []IInv
<1>1. Init => IInv
  BY InitInvariant
<1>2. IInv /\ [Next]_txVars => IInv'
  BY StepInvariant
<1> QED BY <1>1, <1>2, PTL DEF Spec

\* Both views of the storage of an AddressSet stay in its layout: no call
\* writes a slot beyond the list or an index outside of it.
THEOREM TypeCorrect == ASSUME OneCallOfNewVersion PROVE Spec => []TypeOK
<1>1. IInv => TypeOK
  BY DEF IInv
<1> QED BY <1>1, Invariance, PTL

\* List and mapping of an AddressSet are inverse in every committed state.
THEOREM ConsistencyHolds == ASSUME OneCallOfNewVersion PROVE Spec => []Consistent
<1>1. IInv => Consistent
  BY DEF IInv, Consistent
<1> QED BY <1>1, Invariance, PTL

\* size() is the number of members in every committed state.
THEOREM SizeIsRight ==
  ASSUME OneCallOfNewVersion PROVE Spec => []SizeCountsMembers
<1>1. IInv => SizeCountsMembers
  BY SizeIsCardinality DEF IInv, TypeOK, SizeCountsMembers
<1> QED BY <1>1, Invariance, PTL

-----------------------------------------------------------------------------
(* The refinement. *)

\* Every step of the storage-backed set is a step of the plain one, or none.
LEMMA StepRefines ==
  ASSUME OneCallOfNewVersion, IInv, [Next]_txVars
  PROVE  [Promise!Next]_(Promise!txVars)
<1>1. ASSUME NEW a \in Addr, AddCall(a) PROVE Promise!Next
  <2>1. db.size < Cap /\ Call(Add(db, jrn, a))
    BY <1>1 DEF AddCall
  <2>2. jrn = db /\ db \in Storage /\ ConsistentStorage(db)
    BY <2>1, OneStorage DEF Call
  <2>3. Members(jrn') = Members(jrn) \cup {a}
    BY <2>1, <2>2, AddKeeps DEF Call
  <2>4. Promise!Add(a)
    BY <2>1, <2>3 DEF Promise!Add, Promise!Call, Call
  <2> QED BY <2>4 DEF Promise!Next
<1>2. ASSUME NEW a \in Addr, NEW v \in Versions, RemoveCall(a, v)
      PROVE  Promise!Next
  <2>1. Call(Remove(db, jrn, a, v))
    BY <1>2 DEF RemoveCall
  <2>2. jrn = db /\ db \in Storage /\ ConsistentStorage(db)
    BY <2>1, OneStorage DEF Call
  <2>3. v \in Nat /\ v >= 11
    BY VersionsAssumption DEF OneCallOfNewVersion
  <2>4. Members(jrn') = Members(jrn) \ {a}
    BY <2>1, <2>2, <2>3, RemoveKeeps DEF Call
  <2>5. Promise!Remove(a)
    BY <2>1, <2>4 DEF Promise!Remove, Promise!Call, Call
  <2> QED BY <2>5 DEF Promise!Next
<1>3. ASSUME ClearCall PROVE Promise!Next
  <2>1. Call(Clear(db, jrn))
    BY <1>3 DEF ClearCall
  <2>2. jrn = db /\ db \in Storage /\ ConsistentStorage(db)
    BY <2>1, OneStorage DEF Call
  <2>3. Members(jrn') = {}
    BY <2>1, <2>2, ClearEmpties, EmptyIsConsistent DEF Call
  <2>4. Promise!Clear
    BY <2>1, <2>3 DEF Promise!Clear, Promise!Call, Call
  <2> QED BY <2>4 DEF Promise!Next
<1>4. ASSUME Commit PROVE Promise!Next
  BY <1>4 DEF Commit, Promise!Commit, Promise!Next
<1>5. ASSUME Revert PROVE Promise!Next
  BY <1>5 DEF Revert, Promise!Revert, Promise!Next
<1>6. ASSUME UNCHANGED txVars PROVE UNCHANGED Promise!txVars
  BY <1>6 DEF txVars, Promise!txVars
<1> QED BY <1>1, <1>2, <1>3, <1>4, <1>5, <1>6 DEF Next

\* The storage-backed set implements the plain set of addresses.
THEOREM Refinement == ASSUME OneCallOfNewVersion PROVE Spec => ImplementsMemberSet
<1>1. Init => Promise!Init
  BY EmptyIsConsistent DEF Init, JournalInit, Promise!Init, Promise!JournalInit
<1>2. IInv /\ [Next]_txVars => [Promise!Next]_(Promise!txVars)
  BY StepRefines
<1> QED BY <1>1, <1>2, Invariance, PTL
        DEF Spec, ImplementsMemberSet, Promise!Spec

-----------------------------------------------------------------------------
(* Across ArbOS 11 (AddressSetUpgrade), where mappings were damaged and     *)
(* ConsistentStorage does not hold.                                         *)

\* The environment of these theorems.
OneCall == MaxCalls = 1

\* What the damage leaves of ConsistentStorage: the rest is empty, and what was
\* listed from ArbOS 11 on is mapped to where it is.
UsableStorage(s, v) ==
  /\ s \in Storage
  /\ RestIsEmpty(s)
  /\ v = 11 => ListIsMapped(s)

\* Both views are usable, and the same when a transaction starts.
UpgradeInv ==
  /\ version \in {10, 11}
  /\ calls \in 0..MaxCalls
  /\ UsableStorage(db, version)
  /\ UsableStorage(jrn, version)
  /\ calls = 0 => jrn = db

\* add() of an address that is no member: its slot is free whatever the mapping
\* has become, and nobody else becomes a member.
LEMMA AddIsUsable ==
  ASSUME NEW s, NEW v \in {10, 11}, UsableStorage(s, v), NEW a \in Addr, s.size < Cap
  PROVE  /\ UsableStorage(Add(s, s, a), v)
         /\ Members(Add(s, s, a)) \subseteq Members(s) \cup {a}
<1> DEFINE t == Add(s, s, a)
           n == s.size + 1
<1>1. CASE IsMember(s, a)
  BY <1>1 DEF Add
<1>2. CASE ~IsMember(s, a)
  <2>1. n \in Slots /\ n \in 0..Cap /\ s \in Storage /\ s.at[a] = 0
    BY <1>2, CapAssumption DEF UsableStorage, Storage, Slots, IsMember
  <2>2. t = [size |-> n, slot |-> [s.slot EXCEPT ![n] = a],
             at |-> [s.at EXCEPT ![a] = n]]
    BY <1>2, <2>1 DEF Add, Storage
  <2>3. /\ [s.slot EXCEPT ![n] = a] \in [Slots -> Addr]
        /\ [s.at EXCEPT ![a] = n] \in [Addr -> 0..Cap]
    BY <2>1 DEF Storage
  <2>4. /\ t.size = n
        /\ \A i \in Slots : t.slot[i] = IF i = n THEN a ELSE s.slot[i]
        /\ \A b \in Addr : t.at[b] = IF b = a THEN n ELSE s.at[b]
    BY <2>1, <2>2 DEF Storage
  <2>5. t \in Storage
    <3> HIDE DEF t, n
    <3> QED BY <2>1, <2>2, <2>3 DEF Storage
  <2> HIDE DEF t
  <2>6. RestIsEmpty(t)
    BY <2>1, <2>4 DEF RestIsEmpty, UsableStorage, Storage, Slots
  <2>7. ASSUME ListIsMapped(s), NEW i \in 1..n PROVE t.at[t.slot[i]] = i
    <3>1. CASE i = n
      BY <3>1, <2>1, <2>4
    <3>2. CASE i # n
      <4>1. i \in 1..s.size /\ i \in Slots
        BY <3>2, <2>1, CapAssumption DEF Slots, Storage
      <4>2. t.slot[i] = s.slot[i] /\ s.at[s.slot[i]] = i /\ s.slot[i] \in Addr
        BY <4>1, <3>2, <2>1, <2>4, <2>7 DEF ListIsMapped, Storage
      <4>3. s.slot[i] # a
        BY <4>1, <4>2, <2>1
      <4> QED BY <4>2, <4>3, <2>4
    <3> QED BY <3>1, <3>2
  <2>8. v = 11 => ListIsMapped(t)
    BY <2>4, <2>7 DEF ListIsMapped, UsableStorage
  <2>9. Members(t) \subseteq Members(s) \cup {a}
    BY <2>4 DEF Members, IsMember
  <2> QED BY <2>5, <2>6, <2>8, <2>9 DEF UsableStorage, t
<1> QED BY <1>1, <1>2

\* remove(), at either version, where the mapping of the address may lead
\* anywhere: the address is no member any more and nobody becomes one.
LEMMA RemoveIsUsable ==
  ASSUME NEW s, NEW v \in {10, 11}, UsableStorage(s, v), NEW a \in Addr,
         ~RemovePanics(s, a)
  PROVE  /\ UsableStorage(Remove(s, s, a, v), v)
         /\ Members(Remove(s, s, a, v)) \subseteq Members(s) \ {a}
<1> DEFINE t == Remove(s, s, a, v)
           n == s.size
           hole == s.at[a]
           last == s.slot[n]
<1>1. CASE ~IsMember(s, a)
  BY <1>1 DEF Remove, Members
<1>2. CASE IsMember(s, a)
  <2>1. s \in Storage /\ n \in Slots /\ n \in 1..Cap /\ hole \in Slots /\ last \in Addr
    BY <1>2, CapAssumption DEF UsableStorage, RemovePanics, IsMember, Storage, Slots
  <2>2. n - 1 \in 0..Cap /\ (v >= 11 <=> v = 11)
    BY <2>1, CapAssumption
  <2>3. \A i \in Slots : i > n => s.slot[i] = ZeroAddr
    BY DEF UsableStorage, RestIsEmpty
  <2>4. \A i \in 1..n : i \in Slots /\ s.slot[i] \in Addr
    BY <2>1, CapAssumption DEF Slots, Storage
  <2>5. v = 11 => \A i \in 1..n : s.at[s.slot[i]] = i
    BY DEF UsableStorage, ListIsMapped
  <2>6. CASE hole < n
    <3>1. t = [size |-> n - 1,
               slot |-> [s.slot EXCEPT ![hole] = last, ![n] = ZeroAddr],
               at |-> IF v = 11 THEN [s.at EXCEPT ![a] = 0, ![last] = hole]
                      ELSE [s.at EXCEPT ![a] = 0]]
      BY <1>2, <2>2, <2>6 DEF Remove
    <3>2. /\ [s.slot EXCEPT ![hole] = last, ![n] = ZeroAddr] \in [Slots -> Addr]
          /\ [s.at EXCEPT ![a] = 0, ![last] = hole] \in [Addr -> 0..Cap]
          /\ [s.at EXCEPT ![a] = 0] \in [Addr -> 0..Cap]
      BY <2>1, AddrAssumption, CapAssumption DEF Storage
    <3>3. v = 11 => s.at[last] = n /\ last # a
      BY <2>1, <2>5, <2>6
    <3>4. /\ t.size = n - 1
          /\ \A i \in Slots : t.slot[i] = IF i = n THEN ZeroAddr
                                          ELSE IF i = hole THEN last ELSE s.slot[i]
          /\ v = 11 => \A b \in Addr : t.at[b] = IF b = last THEN hole
                                                 ELSE IF b = a THEN 0 ELSE s.at[b]
          /\ v # 11 => \A b \in Addr : t.at[b] = IF b = a THEN 0 ELSE s.at[b]
      BY <3>1, <3>3, <2>1, <2>6 DEF Storage
    <3>5. t \in Storage
      <4> HIDE DEF t, n, hole, last
      <4> QED BY <3>1, <3>2, <2>2 DEF Storage
    <3> HIDE DEF t
    <3>6. RestIsEmpty(t)
      <4> SUFFICES ASSUME NEW i \in Slots, i > n - 1 PROVE t.slot[i] = ZeroAddr
        BY <3>4 DEF RestIsEmpty
      <4>1. i = n \/ (i > n /\ i # hole)
        BY <2>1, <2>6, CapAssumption DEF Slots
      <4> QED BY <4>1, <2>3, <3>4
    <3>7. ASSUME v = 11 PROVE ListIsMapped(t)
      <4> SUFFICES ASSUME NEW i \in 1..(n - 1) PROVE t.at[t.slot[i]] = i
        BY <3>4 DEF ListIsMapped
      <4>1. i \in Slots /\ i \in 1..n /\ i # n
        BY <2>1, CapAssumption DEF Slots
      <4>2. s.at[s.slot[i]] = i /\ s.slot[i] \in Addr
        BY <4>1, <2>4, <2>5, <3>7
      <4>3. s.slot[i] # last /\ (i # hole => s.slot[i] # a)
        BY <4>1, <4>2, <3>3, <3>7
      <4> HIDE DEF n, hole, last
      <4> QED BY <4>1, <4>2, <4>3, <3>3, <3>4, <3>7, <2>1
    <3>8. Members(t) \subseteq Members(s) \ {a}
      <4> SUFFICES ASSUME NEW b \in Addr, t.at[b] # 0 PROVE s.at[b] # 0 /\ b # a
        BY DEF Members, IsMember
      <4>1. n # 0
        BY <2>1
      <4> HIDE DEF n, hole, last
      <4> QED BY <4>1, <3>3, <3>4
    <3> QED BY <3>5, <3>6, <3>7, <3>8 DEF UsableStorage, t
  <2>7. CASE ~(hole < n)
    <3>1. t = [size |-> n - 1, slot |-> [s.slot EXCEPT ![n] = ZeroAddr],
               at |-> [s.at EXCEPT ![a] = 0]]
      BY <1>2, <2>7 DEF Remove
    <3>2. /\ [s.slot EXCEPT ![n] = ZeroAddr] \in [Slots -> Addr]
          /\ [s.at EXCEPT ![a] = 0] \in [Addr -> 0..Cap]
      BY <2>1, AddrAssumption, CapAssumption DEF Storage
    <3>3. /\ t.size = n - 1
          /\ \A i \in Slots : t.slot[i] = IF i = n THEN ZeroAddr ELSE s.slot[i]
          /\ \A b \in Addr : t.at[b] = IF b = a THEN 0 ELSE s.at[b]
      BY <3>1, <2>1 DEF Storage
    <3>4. t \in Storage
      <4> HIDE DEF t, n, hole, last
      <4> QED BY <3>1, <3>2, <2>2 DEF Storage
    <3> HIDE DEF t
    <3>5. RestIsEmpty(t)
      <4> SUFFICES ASSUME NEW i \in Slots, i > n - 1 PROVE t.slot[i] = ZeroAddr
        BY <3>3 DEF RestIsEmpty
      <4>1. i = n \/ i > n
        BY <2>1, CapAssumption DEF Slots
      <4> QED BY <4>1, <2>3, <3>3
    <3>6. ASSUME v = 11 PROVE ListIsMapped(t)
      <4> SUFFICES ASSUME NEW i \in 1..(n - 1) PROVE t.at[t.slot[i]] = i
        BY <3>3 DEF ListIsMapped
      <4>1. i \in Slots /\ i \in 1..n /\ i # n
        BY <2>1, CapAssumption DEF Slots
      <4>2. s.at[s.slot[i]] = i /\ s.slot[i] \in Addr
        BY <4>1, <2>4, <2>5, <3>6
      <4>3. s.slot[i] # a
        BY <4>1, <4>2, <2>1, <2>7 DEF Slots
      <4> QED BY <4>1, <4>2, <4>3, <3>3
    <3>7. Members(t) \subseteq Members(s) \ {a}
      BY <3>3 DEF Members, IsMember
    <3> QED BY <3>4, <3>5, <3>6, <3>7 DEF UsableStorage, t
  <2> QED BY <2>6, <2>7
<1> QED BY <1>1, <1>2

\* clear() and clear_list() empty the list, and neither adds a member.
LEMMA ClearsAreUsable ==
  ASSUME NEW s, NEW v \in {10, 11}, UsableStorage(s, v)
  PROVE  /\ UsableStorage(Clear(s, s), v)
         /\ Members(Clear(s, s)) \subseteq Members(s)
         /\ UsableStorage(ClearList(s, s), 11)
         /\ Members(ClearList(s, s)) \subseteq Members(s)
<1>1. s \in Storage /\ s.size \in 0..Cap /\ s.size \in Nat
  BY CapAssumption DEF UsableStorage, Storage
<1>2. CASE s.size = 0
  <2>1. Clear(s, s) = s /\ ClearList(s, s) = s
    BY <1>2 DEF Clear, ClearList
  <2>2. ListIsMapped(s)
    BY <1>2 DEF ListIsMapped
  <2> QED BY <2>1, <2>2 DEF UsableStorage
<1>3. CASE s.size # 0
  <2> DEFINE listed == {s.slot[i] : i \in 1..s.size}
             blank == [i \in Slots |-> IF i <= s.size THEN ZeroAddr ELSE s.slot[i]]
             at == [a \in Addr |-> IF a \in listed THEN 0 ELSE s.at[a]]
  <2>1. Clear(s, s) = [size |-> 0, slot |-> blank, at |-> at]
    BY <1>3 DEF Clear
  <2>2. ClearList(s, s) = [size |-> 0, slot |-> blank, at |-> s.at]
    BY <1>1, <1>3 DEF ClearList, Storage
  <2>3. blank \in [Slots -> Addr] /\ \A i \in Slots : blank[i] = ZeroAddr
    BY <1>1, AddrAssumption DEF UsableStorage, RestIsEmpty, Storage, Slots
  <2>4. at \in [Addr -> 0..Cap] /\ \A a \in Addr : at[a] # 0 => s.at[a] # 0
    <3> HIDE DEF listed
    <3> QED BY <1>1, CapAssumption DEF Storage
  <2>5. s.at \in [Addr -> 0..Cap] /\ 0 \in 0..Cap
    BY <1>1, CapAssumption DEF Storage
  <2> HIDE DEF listed, blank, at
  <2>6. ASSUME NEW f \in [Addr -> 0..Cap], \A a \in Addr : f[a] # 0 => s.at[a] # 0
        PROVE  /\ UsableStorage([size |-> 0, slot |-> blank, at |-> f], 10)
               /\ UsableStorage([size |-> 0, slot |-> blank, at |-> f], 11)
               /\ Members([size |-> 0, slot |-> blank, at |-> f]) \subseteq Members(s)
    BY <2>3, <2>5, <2>6
       DEF UsableStorage, RestIsEmpty, ListIsMapped, Members, IsMember, Storage
  <2> QED BY <2>1, <2>2, <2>4, <2>5, <2>6
<1> QED BY <1>2, <1>3

\* rectify_mapping() finds the member as committed and only clears its entry,
\* which no place of the list refers to.
LEMMA RectifyIsUsable ==
  ASSUME NEW s, NEW v \in {10, 11}, UsableStorage(s, v), NEW a \in Addr,
         ~RectifyPanics(s, a)
  PROVE  /\ UsableStorage(Rectify(s, s, a), v)
         /\ Members(Rectify(s, s, a)) \subseteq Members(s)
<1> DEFINE t == Rectify(s, s, a)
<1>1. IsMember(s, a) /\ ~(s.slot[s.at[a]] = a /\ s.at[a] <= s.size)
  BY DEF RectifyPanics
<1>2. s \in Storage /\ t = [s EXCEPT !.at[a] = 0]
  BY <1>1 DEF Rectify, Add, UsableStorage
<1>3. /\ t \in Storage
      /\ t.size = s.size /\ t.slot = s.slot
      /\ \A b \in Addr : t.at[b] = IF b = a THEN 0 ELSE s.at[b]
  <2>1. [s.at EXCEPT ![a] = 0] \in [Addr -> 0..Cap]
    BY <1>2, CapAssumption DEF Storage
  <2>2. t = [size |-> s.size, slot |-> s.slot, at |-> [s.at EXCEPT ![a] = 0]]
    BY <1>2 DEF Storage
  <2> QED BY <1>2, <2>1, <2>2 DEF Storage
<1> HIDE DEF t
<1>4. ASSUME ListIsMapped(s), NEW i \in 1..s.size PROVE t.at[t.slot[i]] = i
  <2>1. s.at[s.slot[i]] = i /\ s.slot[i] \in Addr
    BY <1>2, <1>4, CapAssumption DEF ListIsMapped, Storage, Slots
  <2>2. s.slot[i] # a
    BY <1>1, <2>1
  <2> QED BY <2>1, <2>2, <1>3
<1>5. UsableStorage(t, v)
  BY <1>3, <1>4 DEF UsableStorage, RestIsEmpty, ListIsMapped
<1>6. Members(t) \subseteq Members(s)
  BY <1>3 DEF Members, IsMember
<1> QED BY <1>5, <1>6 DEF t

\* A call that runs in a state of the invariant runs on one storage.
LEMMA OneUsableStorage ==
  ASSUME OneCall, UpgradeInv, NEW s, Call(s)
  PROVE  /\ jrn = db /\ UsableStorage(db, version) /\ version \in {10, 11}
         /\ jrn' = s /\ db' = db /\ calls' = 1
BY DEF OneCall, UpgradeInv, Call

\* Every step keeps the invariant.
LEMMA UpgradeStepInvariant ==
  ASSUME OneCall, UpgradeInv, [UpgradeNext]_vars
  PROVE  UpgradeInv'
<1>1. ASSUME NEW s, Call(s), UsableStorage(s, version), UNCHANGED version
      PROVE  UpgradeInv'
  <2>1. /\ jrn' = s /\ db' = db /\ calls' = 1 /\ version' = version
        /\ UsableStorage(db, version) /\ version \in {10, 11}
    BY <1>1, OneUsableStorage
  <2> QED BY <1>1, <2>1 DEF UpgradeInv, OneCall
<1>2. ASSUME NEW a \in Addr, AddStep(a) PROVE UpgradeInv'
  <2>1. db.size < Cap /\ Call(Add(db, jrn, a)) /\ UNCHANGED version
    BY <1>2 DEF AddStep, AddCall
  <2> QED BY <1>1, <2>1, OneUsableStorage, AddIsUsable
<1>3. ASSUME NEW a \in Addr, RemoveStep(a) PROVE UpgradeInv'
  <2>1. ~RemovePanics(db, a) /\ Call(Remove(db, jrn, a, version)) /\ UNCHANGED version
    BY <1>3 DEF RemoveStep, RemoveCall
  <2> QED BY <1>1, <2>1, OneUsableStorage, RemoveIsUsable
<1>4. ASSUME NEW a \in Addr, RectifyStep(a) PROVE UpgradeInv'
  <2>1. ~RectifyPanics(db, a) /\ Call(Rectify(db, jrn, a)) /\ UNCHANGED version
    BY <1>4 DEF RectifyStep
  <2> QED BY <1>1, <2>1, OneUsableStorage, RectifyIsUsable
<1>5. ASSUME ClearStep PROVE UpgradeInv'
  <2>1. Call(Clear(db, jrn)) /\ UNCHANGED version
    BY <1>5 DEF ClearStep, ClearCall
  <2> QED BY <1>1, <2>1, OneUsableStorage, ClearsAreUsable
<1>6. ASSUME Upgrade PROVE UpgradeInv'
  <2>1. UsableStorage(db, version) /\ version \in {10, 11}
    BY DEF UpgradeInv
  <2>2. UsableStorage(ClearList(db, db), 11)
    BY <2>1, ClearsAreUsable
  <2> QED BY <1>6, <2>2 DEF Upgrade, UpgradeInv
<1>7. ASSUME Commit /\ UNCHANGED version PROVE UpgradeInv'
  BY <1>7, MaxCallsAssumption DEF Commit, UpgradeInv
<1>8. ASSUME Revert /\ UNCHANGED version PROVE UpgradeInv'
  BY <1>8, MaxCallsAssumption DEF Revert, UpgradeInv
<1>9. ASSUME UNCHANGED vars PROVE UpgradeInv'
  BY <1>9 DEF vars, UpgradeInv
<1> QED BY <1>2, <1>3, <1>4, <1>5, <1>6, <1>7, <1>8, <1>9 DEF UpgradeNext

\* The invariant holds in every reachable state.
THEOREM UpgradeInvariance == ASSUME OneCall PROVE UpgradeSpec => []UpgradeInv
<1>1. UpgradeInit => UpgradeInv
  BY EmptyIsConsistent, MaxCallsAssumption
     DEF UpgradeInit, Init, JournalInit, UpgradeInv, UsableStorage, ConsistentStorage
<1>2. UpgradeInv /\ [UpgradeNext]_vars => UpgradeInv'
  BY UpgradeStepInvariant
<1> QED BY <1>1, <1>2, PTL DEF UpgradeSpec

\* The slot that add() takes is free at any version, however many mappings an
\* old remove() left behind.
THEOREM ListAlwaysEndsAtSize ==
  ASSUME OneCall PROVE UpgradeSpec => []ListEndsAtSize
<1>1. UpgradeInv => ListEndsAtSize
  BY DEF UpgradeInv, UsableStorage, ListEndsAtSize
<1> QED BY <1>1, UpgradeInvariance, PTL

\* Nobody becomes a member but by a call of add(): what a remove() of ArbOS 11
\* maps to the hole was on the list, and a member.
THEOREM OnlyAddCallsAdd == ASSUME OneCall PROVE UpgradeSpec => OnlyAddAdds
<1> DEFINE Added == \A a \in Members(jrn') \ Members(db) : IsMember(jrn, a) \/ AddStep(a)
<1>1. ASSUME UpgradeInv, [UpgradeNext]_vars PROVE [Added]_vars
  <2>1. ASSUME NEW b \in Addr, AddStep(b) PROVE Added
    <3>1. db.size < Cap /\ Call(Add(db, jrn, b))
      BY <2>1 DEF AddStep, AddCall
    <3>2. Members(jrn') \subseteq Members(db) \cup {b}
      BY <1>1, <3>1, OneUsableStorage, AddIsUsable
    <3> QED BY <2>1, <3>2
  <2>2. ASSUME NEW b \in Addr, RemoveStep(b) PROVE Added
    <3>1. ~RemovePanics(db, b) /\ Call(Remove(db, jrn, b, version))
      BY <2>2 DEF RemoveStep, RemoveCall
    <3>2. Members(jrn') \subseteq Members(db)
      BY <1>1, <3>1, OneUsableStorage, RemoveIsUsable
    <3> QED BY <3>2
  <2>3. ASSUME NEW b \in Addr, RectifyStep(b) PROVE Added
    <3>1. ~RectifyPanics(db, b) /\ Call(Rectify(db, jrn, b))
      BY <2>3 DEF RectifyStep
    <3>2. Members(jrn') \subseteq Members(db)
      BY <1>1, <3>1, OneUsableStorage, RectifyIsUsable
    <3> QED BY <3>2
  <2>4. ASSUME ClearStep PROVE Added
    <3>1. Call(Clear(db, jrn))
      BY <2>4 DEF ClearStep, ClearCall
    <3>2. Members(jrn') \subseteq Members(db)
      BY <1>1, <3>1, OneUsableStorage, ClearsAreUsable
    <3> QED BY <3>2
  <2>5. ASSUME Upgrade PROVE Added
    <3>1. UsableStorage(db, version) /\ version \in {10, 11}
      BY <1>1 DEF UpgradeInv
    <3>2. Members(ClearList(db, db)) \subseteq Members(db)
      BY <3>1, ClearsAreUsable
    <3> QED BY <2>5, <3>2 DEF Upgrade
  <2>6. ASSUME Commit PROVE Added
    BY <2>6 DEF Commit, Members
  <2>7. ASSUME Revert PROVE Added
    BY <2>7 DEF Revert
  <2> QED BY <1>1, <2>1, <2>2, <2>3, <2>4, <2>5, <2>6, <2>7 DEF UpgradeNext
<1> QED BY <1>1, UpgradeInvariance, PTL DEF UpgradeSpec, OnlyAddAdds

\* remove() ends a membership at any version: the element that moves into the
\* hole is never the one removed.
THEOREM RemoveCallsRemove == ASSUME OneCall PROVE UpgradeSpec => RemoveRemoves
<1> DEFINE Removed == \A a \in Addr : RemoveStep(a) => ~IsMember(jrn', a)
<1>1. ASSUME UpgradeInv PROVE Removed
  <2> SUFFICES ASSUME NEW a \in Addr, RemoveStep(a) PROVE ~IsMember(jrn', a)
    OBVIOUS
  <2>1. ~RemovePanics(db, a) /\ Call(Remove(db, jrn, a, version))
    BY DEF RemoveStep, RemoveCall
  <2>2. a \notin Members(jrn')
    BY <1>1, <2>1, OneUsableStorage, RemoveIsUsable
  <2> QED BY <2>2 DEF Members
<1> QED BY <1>1, UpgradeInvariance, PTL DEF UpgradeSpec, RemoveRemoves

-----------------------------------------------------------------------------
(* The table of batch posters (BatchPosters), for every set of balances    *)
(* that is set.                                                            *)

\* Both views of the table are in order, and the same when a transaction starts.
PosterInv ==
  /\ TableInOrder(db)
  /\ TableInOrder(jrn)
  /\ calls \in 0..MaxCalls
  /\ calls = 0 => jrn = db

\* With one call in a transaction, a call reads the table that it writes.
LEMMA OneTable ==
  ASSUME MaxCalls = 1, PosterInv, calls < MaxCalls
  PROVE  jrn = db /\ TableInOrder(db)
BY DEF PosterInv

\* A call that leaves a table in order keeps the invariant.
LEMMA PosterCallKeeps ==
  ASSUME MaxCalls = 1, PosterInv, NEW s, TableInOrder(s), Call(s)
  PROVE  PosterInv'
BY DEF PosterInv, Call

\* The initial states have the invariant.
LEMMA PosterInitInvariant == PosterInit => PosterInv
BY NoPostersInOrder, MaxCallsAssumption DEF PosterInit, JournalInit, PosterInv

\* Every step keeps the invariant.
LEMMA PosterStepInvariant ==
  ASSUME MaxCalls = 1, PosterInv, [PosterNext]_txVars
  PROVE  PosterInv'
<1>1. ASSUME NEW a \in Addr, OpenPosterCall(a) PROVE PosterInv'
  <2>1. db.posters.size < Cap /\ Call(OpenPoster(db, jrn, a)) /\ calls < MaxCalls
    BY <1>1 DEF OpenPosterCall, Call
  <2>2. jrn = db /\ TableInOrder(db)
    BY <2>1, OneTable
  <2>3. TableInOrder(OpenPoster(db, db, a))
    BY <2>1, <2>2, AddPosterKeeps DEF OpenPoster
  <2> QED BY <2>1, <2>2, <2>3, PosterCallKeeps
<1>2. ASSUME NEW a \in Addr, NEW to \in Addr, AddPosterCall(a, to) PROVE PosterInv'
  <2>1. db.posters.size < Cap /\ Call(AddPoster(db, jrn, a, to)) /\ calls < MaxCalls
    BY <1>2 DEF AddPosterCall, Call
  <2>2. jrn = db /\ TableInOrder(db)
    BY <2>1, OneTable
  <2>3. TableInOrder(AddPoster(db, db, a, to))
    BY <2>1, <2>2, AddPosterKeeps
  <2> QED BY <2>1, <2>2, <2>3, PosterCallKeeps
<1>3. ASSUME NEW a \in Addr, NEW to \in Addr, SetPayToCall(a, to) PROVE PosterInv'
  <2>1. Call(SetPayTo(db, jrn, a, to)) /\ calls < MaxCalls
    BY <1>3 DEF SetPayToCall, Call
  <2>2. jrn = db /\ TableInOrder(db)
    BY <2>1, OneTable
  <2>3. TableInOrder(SetPayTo(db, db, a, to))
    BY <2>2, SetPayToKeeps
  <2> QED BY <2>1, <2>2, <2>3, PosterCallKeeps
<1>4. ASSUME NEW a \in Addr, NEW val \in Balances, SetFundsDueCall(a, val)
      PROVE  PosterInv'
  <2>1. /\ ContainsPoster(db, a)
        /\ Call(SetFundsDue(db, jrn, a, val)) /\ calls < MaxCalls
    BY <1>4 DEF SetFundsDueCall, Call
  <2>2. jrn = db /\ TableInOrder(db)
    BY <2>1, OneTable
  <2>3. val \in I256
    BY BalancesAssumption
  <2>4. TableInOrder(SetFundsDue(db, db, a, val))
    BY <2>1, <2>2, <2>3, SetFundsDueKeeps DEF TableInOrder
  <2> QED BY <2>1, <2>2, <2>4, PosterCallKeeps
<1>5. ASSUME Commit PROVE PosterInv'
  BY <1>5, MaxCallsAssumption DEF Commit, PosterInv
<1>6. ASSUME Revert PROVE PosterInv'
  BY <1>6, MaxCallsAssumption DEF Revert, PosterInv
<1>7. ASSUME UNCHANGED txVars PROVE PosterInv'
  BY <1>7 DEF txVars, PosterInv
<1> QED BY <1>1, <1>2, <1>3, <1>4, <1>5, <1>6, <1>7 DEF PosterNext

\* The invariant holds in every reachable state.
THEOREM PosterInvariance == ASSUME MaxCalls = 1 PROVE PosterSpec => []PosterInv
<1>1. PosterInit => PosterInv
  BY PosterInitInvariant
<1>2. PosterInv /\ [PosterNext]_txVars => PosterInv'
  BY PosterStepInvariant
<1> QED BY <1>1, <1>2, PTL DEF PosterSpec

\* Both views of a table stay in its layout: saturation keeps every balance in
\* its width and the list of posters in its slots.
THEOREM PosterTypeCorrect == ASSUME MaxCalls = 1 PROVE PosterSpec => []PosterTypeOK
<1>1. PosterInv => PosterTypeOK
  BY DEF PosterInv, PosterTypeOK, TableInOrder
<1> QED BY <1>1, PosterInvariance, PTL

\* Whoever is owed anything is on the list that get_funds_due_list walks.
THEOREM DueAreListed == ASSUME MaxCalls = 1 PROVE PosterSpec => []DueIsListed
<1>1. ASSUME PosterInv PROVE DueIsListed
  <2> SUFFICES ASSUME NEW a \in Addr, db.due[a] > 0 PROVE a \in FundsDueList(db)
    BY DEF DueIsListed
  <2> DEFINE p == db.posters
  <2>1. /\ p.at[a] # 0 /\ p.at[a] \in 0..Cap /\ p.size \in 0..Cap
        /\ ConsistentStorage(p)
    BY <1>1 DEF PosterInv, TableInOrder, OnlyPostersAreOwed, ContainsPoster, IsMember,
                PosterStorage, Storage
  <2>2. p.at[a] <= p.size /\ p.slot[p.at[a]] = a
    BY <2>1 DEF ConsistentStorage, MappedIsListed, Members, IsMember
  <2>3. p.at[a] \in 1..p.size
    BY <2>1, <2>2, CapAssumption
  <2> QED BY <2>2, <2>3 DEF FundsDueList
<1> QED BY <1>1, PosterInvariance, PTL

\* add_poster never overwrites a balance.
THEOREM NewPostersAreOwedNothing ==
  ASSUME MaxCalls = 1 PROVE PosterSpec => NewPosterIsOwedNothing
<1> DEFINE Step == \A a, to \in Addr : AddPosterCall(a, to) => jrn.due[a] = 0
<1>1. ASSUME PosterInv PROVE Step
  <2> SUFFICES ASSUME NEW a \in Addr, NEW to \in Addr, AddPosterCall(a, to)
               PROVE  jrn.due[a] = 0
    OBVIOUS
  <2>1. ~ContainsPoster(db, a) /\ calls < MaxCalls
    BY DEF AddPosterCall, Call
  <2>2. jrn = db /\ TableInOrder(db)
    BY <1>1, <2>1, OneTable
  <2> QED BY <2>1, <2>2 DEF TableInOrder, OnlyPostersAreOwed
<1>2. PosterInv /\ [PosterNext]_txVars => [Step]_txVars
  BY <1>1
<1> QED BY <1>2, PosterInvariance, PTL DEF PosterSpec, NewPosterIsOwedNothing

-----------------------------------------------------------------------------
(* The total of the table. *)

\* The environment of the theorem about the total: the balances of all
\* addresses, and one more, fit the width of the total.
BalancesFit == \E m : Fits(m) /\ Balances \subseteq -m..m

\* Both views have the right total, of balances that fit.
TotalInv(m) ==
  /\ TotalIsRight(db) /\ BalancesWithin(db, m)
  /\ TotalIsRight(jrn) /\ BalancesWithin(jrn, m)

\* A call that leaves a right total of balances that fit keeps them.
LEMMA TotalCallKeeps ==
  ASSUME NEW m, TotalInv(m), NEW s, TotalIsRight(s), BalancesWithin(s, m), Call(s)
  PROVE  TotalInv(m)'
BY DEF TotalInv, Call

\* Every step keeps the total right: a call reads the table it writes, so that
\* the difference it moves the total by is the one it moves the balance by.
LEMMA TotalStep ==
  ASSUME MaxCalls = 1, NEW m, Fits(m), Balances \subseteq -m..m,
         PosterInv, TotalInv(m), [PosterNext]_txVars
  PROVE  TotalInv(m)'
<1>1. ASSUME NEW a \in Addr, OpenPosterCall(a) PROVE TotalInv(m)'
  <2> DEFINE t == OpenPoster(db, db, a)
  <2>1. db.posters.size < Cap /\ Call(OpenPoster(db, jrn, a)) /\ calls < MaxCalls
    BY <1>1 DEF OpenPosterCall, Call
  <2>2. jrn = db /\ TableInOrder(db)
    BY <2>1, OneTable
  <2>3. TotalIsRight(t) /\ t.due = db.due
    BY <2>1, <2>2, OpenPosterAdds DEF TotalInv
  <2>4. Call(t)
    BY <2>1, <2>2
  <2> HIDE DEF t
  <2>5. BalancesWithin(t, m)
    BY <2>3 DEF BalancesWithin, TotalInv
  <2> QED BY <2>3, <2>4, <2>5, TotalCallKeeps
<1>2. ASSUME NEW a \in Addr, NEW to \in Addr, AddPosterCall(a, to)
      PROVE  TotalInv(m)'
  <2> DEFINE t == AddPoster(db, db, a, to)
  <2>1. /\ ~ContainsPoster(db, a) /\ db.posters.size < Cap
        /\ Call(AddPoster(db, jrn, a, to)) /\ calls < MaxCalls
    BY <1>2 DEF AddPosterCall, Call
  <2>2. jrn = db /\ TableInOrder(db)
    BY <2>1, OneTable
  <2>3. TotalIsRight(t) /\ t.due = db.due
    BY <2>1, <2>2, OpenPosterAdds DEF TotalInv
  <2>4. Call(t)
    BY <2>1, <2>2
  <2> HIDE DEF t
  <2>5. BalancesWithin(t, m)
    BY <2>3 DEF BalancesWithin, TotalInv
  <2> QED BY <2>3, <2>4, <2>5, TotalCallKeeps
<1>3. ASSUME NEW a \in Addr, NEW to \in Addr, SetPayToCall(a, to)
      PROVE  TotalInv(m)'
  <2> DEFINE t == SetPayTo(db, db, a, to)
  <2>1. Call(SetPayTo(db, jrn, a, to)) /\ calls < MaxCalls
    BY <1>3 DEF SetPayToCall, Call
  <2>2. jrn = db /\ TableInOrder(db)
    BY <2>1, OneTable
  <2>3. t.due = db.due /\ t.total = db.total
    BY <2>2 DEF SetPayTo, TableInOrder, PosterStorage
  <2>4. Call(t)
    BY <2>1, <2>2
  <2> HIDE DEF t
  <2>5. TotalIsRight(t) /\ BalancesWithin(t, m)
    BY <2>3 DEF BalancesWithin, TotalIsRight, TotalInv
  <2> QED BY <2>4, <2>5, TotalCallKeeps
<1>4. ASSUME NEW a \in Addr, NEW val \in Balances, SetFundsDueCall(a, val)
      PROVE  TotalInv(m)'
  <2> DEFINE t == SetFundsDue(db, db, a, val)
  <2>1. Call(SetFundsDue(db, jrn, a, val)) /\ calls < MaxCalls
    BY <1>4 DEF SetFundsDueCall, Call
  <2>2. jrn = db /\ db \in PosterStorage /\ val \in -m..m /\ val \in I256
    BY <2>1, OneTable, BalancesAssumption DEF TableInOrder
  <2>3. t.due = [db.due EXCEPT ![a] = val]
    BY <2>2, SetFundsDueType
  <2>4. t.total = SumFunction([db.due EXCEPT ![a] = val])
    BY <2>2, SetFundsDueAdds DEF TotalInv
  <2>5. Call(t)
    BY <2>1, <2>2
  <2> HIDE DEF t
  <2>6. TotalIsRight(t)
    BY <2>3, <2>4 DEF TotalIsRight
  <2>7. BalancesWithin(t, m)
    BY <2>2, <2>3 DEF BalancesWithin, TotalInv, PosterStorage
  <2> QED BY <2>5, <2>6, <2>7, TotalCallKeeps
<1>5. ASSUME Commit \/ Revert \/ UNCHANGED txVars PROVE TotalInv(m)'
  BY <1>5 DEF Commit, Revert, txVars, TotalInv
<1> QED BY <1>1, <1>2, <1>3, <1>4, <1>5 DEF PosterNext

\* The total owed is the sum of the balances of all addresses, however they
\* were set.
THEOREM TotalIsTheSum ==
  ASSUME MaxCalls = 1, BalancesFit PROVE PosterSpec => []TotalIsSum
<1>1. PICK m : Fits(m) /\ Balances \subseteq -m..m
  BY DEF BalancesFit
<1>2. PosterInit => TotalInv(m)
  BY <1>1, NoPostersTotal DEF PosterInit, JournalInit, TotalInv, Fits
<1>3. PosterInv /\ TotalInv(m) /\ [PosterNext]_txVars => TotalInv(m)'
  BY <1>1, TotalStep
<1>4. TotalInv(m) => TotalIsSum
  BY DEF TotalInv, TotalIsRight, TotalIsSum
<1> QED BY <1>2, <1>3, <1>4, PosterInvariance, PTL DEF PosterSpec
=============================================================================
