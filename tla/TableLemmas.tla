---------------------------- MODULE TableLemmas ----------------------------
(***************************************************************************)
(* What the handlers of AddressSetStorage and of BatchPosterStorage do to  *)
(* a well-formed storage, when they read the storage that they write, for  *)
(* every set of addresses, every capacity and every width of the balances. *)
(*                                                                         *)
(* The first section is about sums over finite sets of addresses, which    *)
(* the total owed to the posters is compared with.  A sum is a fold, and   *)
(* what it computes takes an induction: the induction theorems of the      *)
(* library have an operator as parameter, and the ones here a set.         *)
(***************************************************************************)
EXTENDS BatchPosterStorage, Functions, FiniteSets, FiniteSetTheorems,
        WellFoundedInduction, TLAPS

-----------------------------------------------------------------------------
(* Sums. *)

\* A set that has zero and the successor of each of its numbers has them all.
LEMMA NaturalInduction ==
  ASSUME NEW T, 0 \in T, \A n \in Nat : n \in T => n + 1 \in T
  PROVE  Nat \subseteq T
<1> DEFINE Bad == Nat \ T
           Below == {p \in Nat \X Nat : p[1] < p[2]}
<1> SUFFICES ASSUME Bad # {} PROVE FALSE
  OBVIOUS
<1>1. IsWellFoundedOn(Below, Nat)
  BY NatLessThanWellFounded DEF OpToRel
<1>2. PICK m \in Bad : \A y \in Bad : <<y, m>> \notin Below
  <2>1. Bad \subseteq Nat
    OBVIOUS
  <2> HIDE DEF Below, Bad
  <2> QED BY <1>1, <2>1, WFMin
<1>3. m \in Nat /\ m # 0 /\ m - 1 \in Nat
  OBVIOUS
<1>4. m - 1 < m /\ <<m - 1, m>> \in Below
  BY <1>3
<1>5. m - 1 \in T
  BY <1>2, <1>3, <1>4
<1> QED BY <1>3, <1>5

\* The element of a set that a fold takes first.
First(s) == CHOOSE x \in s : TRUE

\* What a fold with + computes of a set from what is computed of smaller ones.
Fold(f, g, s) == IF s = {} THEN 0 ELSE f[First(s)] + g[s \ {First(s)}]

\* Without its first element a finite set has one element less.
LEMMA FirstIsLess ==
  ASSUME NEW s, IsFiniteSet(s), s # {}
  PROVE  /\ First(s) \in s
         /\ IsFiniteSet(s \ {First(s)})
         /\ Cardinality(s) \in Nat
         /\ Cardinality(s \ {First(s)}) = Cardinality(s) - 1
         /\ Cardinality(s \ {First(s)}) \in Nat
<1>1. First(s) \in s
  BY DEF First
<1> QED BY <1>1, FS_RemoveElement, FS_CardinalityType

\* The recursion of the fold over a finite set has a solution.
LEMMA FoldExists ==
  ASSUME NEW S, IsFiniteSet(S), NEW f \in [S -> Int]
  PROVE  \E g : g = [s \in SUBSET S |-> Fold(f, g, s)]
<1> DEFINE
      UpTo(n, g) == \A s \in SUBSET S : Cardinality(s) <= n => g[s] = Fold(f, g, s)
      T == {n \in Nat : \E g \in [SUBSET S -> Int] : UpTo(n, g)}
<1>0. ASSUME NEW s \in SUBSET S PROVE IsFiniteSet(s) /\ Cardinality(s) \in Nat
  BY FS_Subset, FS_CardinalityType
<1>a. ASSUME NEW g \in [SUBSET S -> Int], NEW s \in SUBSET S
      PROVE  Fold(f, g, s) \in Int
  <2>1. CASE s = {}
    BY <2>1 DEF Fold
  <2>2. CASE s # {}
    <3>1. First(s) \in S /\ s \ {First(s)} \in SUBSET S
      BY <1>0, <2>2, FirstIsLess
    <3> QED BY <2>2, <3>1 DEF Fold
  <2> QED BY <2>1, <2>2
<1>1. 0 \in T
  <2> DEFINE g == [s \in SUBSET S |-> 0]
  <2>1. UpTo(0, g)
    <3> SUFFICES ASSUME NEW s \in SUBSET S, Cardinality(s) <= 0
                 PROVE  g[s] = Fold(f, g, s)
      OBVIOUS
    <3>1. s = {}
      BY <1>0, FS_EmptySet
    <3> QED BY <3>1 DEF Fold
  <2>2. g \in [SUBSET S -> Int]
    OBVIOUS
  <2> QED BY <2>1, <2>2
<1>2. ASSUME NEW n \in Nat, n \in T PROVE n + 1 \in T
  <2>1. PICK g \in [SUBSET S -> Int] : UpTo(n, g)
    BY <1>2
  <2> DEFINE h == [s \in SUBSET S |-> Fold(f, g, s)]
  <2>2. h \in [SUBSET S -> Int]
    BY <1>a
  <2>3. UpTo(n + 1, h)
    <3> SUFFICES ASSUME NEW s \in SUBSET S, Cardinality(s) <= n + 1
                 PROVE  Fold(f, g, s) = Fold(f, h, s)
      OBVIOUS
    <3>1. CASE s = {}
      BY <3>1 DEF Fold
    <3>2. CASE s # {}
      <4> DEFINE rest == s \ {First(s)}
      <4>1. rest \in SUBSET S /\ Cardinality(rest) <= n
        BY <1>0, <3>2, FirstIsLess
      <4>2. h[rest] = g[rest]
        BY <4>1, <2>1
      <4> QED BY <3>2, <4>2 DEF Fold
    <3> QED BY <3>1, <3>2
  <2>4. \E k \in [SUBSET S -> Int] : UpTo(n + 1, k)
    <3> HIDE DEF h, UpTo
    <3> QED BY <2>2, <2>3
  <2> QED BY <2>4
<1>3. Cardinality(S) \in T
  <2> HIDE DEF T
  <2> QED BY <1>1, <1>2, NaturalInduction, FS_CardinalityType
<1>4. PICK g \in [SUBSET S -> Int] : UpTo(Cardinality(S), g)
  BY <1>3
<1>5. \A s \in SUBSET S : g[s] = Fold(f, g, s)
  BY <1>4, FS_Subset
<1>6. g = [s \in SUBSET S |-> Fold(f, g, s)]
  BY <1>5
<1> QED BY <1>6

\* What holds of the empty set, and of a set if it holds of it without its first
\* element, holds of all subsets of a finite set.
LEMMA SubsetInduction ==
  ASSUME NEW S, IsFiniteSet(S), NEW Good, {} \in Good,
         \A s \in SUBSET S : s # {} /\ s \ {First(s)} \in Good => s \in Good
  PROVE  SUBSET S \subseteq Good
<1> DEFINE T == {n \in Nat : \A s \in SUBSET S : Cardinality(s) = n => s \in Good}
<1>0. ASSUME NEW s \in SUBSET S PROVE IsFiniteSet(s) /\ Cardinality(s) \in Nat
  BY FS_Subset, FS_CardinalityType
<1>1. 0 \in T
  BY <1>0, FS_EmptySet
<1>2. ASSUME NEW n \in Nat, n \in T PROVE n + 1 \in T
  <2> SUFFICES ASSUME NEW s \in SUBSET S, Cardinality(s) = n + 1 PROVE s \in Good
    OBVIOUS
  <2>1. s # {}
    BY FS_EmptySet
  <2>2. s \ {First(s)} \in SUBSET S /\ Cardinality(s \ {First(s)}) = n
    BY <1>0, <2>1, FirstIsLess
  <2> QED BY <1>2, <2>1, <2>2
<1>3. Nat \subseteq T
  <2> HIDE DEF T
  <2> QED BY <1>1, <1>2, NaturalInduction
<1> QED BY <1>0, <1>3

\* g has the sums of f over all subsets of S.
HasSums(g, f, S) ==
  /\ g \in [SUBSET S -> Int]
  /\ SumFunction(f) = g[S]
  /\ \A s \in SUBSET S : g[s] = Fold(f, g, s)

\* The fold that Sum computes.
LEMMA SumIsFolded ==
  ASSUME NEW S, IsFiniteSet(S), NEW f \in [S -> Int]
  PROVE  \E g : HasSums(g, f, S)
<1> DEFINE h == CHOOSE g : g = [s \in SUBSET S |-> Fold(f, g, s)]
<1>1. DOMAIN f = S
  OBVIOUS
<1>2. SumFunction(f) = h[S]
  BY <1>1, Zenon
     DEF SumFunction, SumFunctionOnSet, FoldFunctionOnSet, MapThenFoldSet,
         Fold, First
<1>3. h = [s \in SUBSET S |-> Fold(f, h, s)]
  BY FoldExists
<1> HIDE DEF h
<1> DEFINE Good == {s \in SUBSET S : h[s] \in Int}
<1>4. {} \in Good
  BY <1>3 DEF Fold
<1>5. ASSUME NEW s \in SUBSET S, s # {}, s \ {First(s)} \in Good PROVE s \in Good
  <2>1. h[s] = f[First(s)] + h[s \ {First(s)}] /\ First(s) \in S
    BY <1>3, <1>5 DEF Fold, First
  <2> QED BY <2>1, <1>5
<1>6. SUBSET S \subseteq Good
  <2> HIDE DEF Good
  <2> QED BY <1>4, <1>5, SubsetInduction
<1>7. h \in [SUBSET S -> Int]
  BY <1>3, <1>6
<1>8. HasSums(h, f, S)
  BY <1>2, <1>3, <1>7 DEF HasSums
<1> QED BY <1>8

\* Changing one value changes the sum by as much.
LEMMA SumOfChange ==
  ASSUME NEW S, IsFiniteSet(S), NEW f \in [S -> Int], NEW a \in S, NEW v \in Int
  PROVE  /\ SumFunction(f) \in Int
         /\ SumFunction([f EXCEPT ![a] = v]) = SumFunction(f) - f[a] + v
<1> DEFINE e == [f EXCEPT ![a] = v]
<1>1. e \in [S -> Int]
  OBVIOUS
<1>2. PICK g : HasSums(g, f, S)
  BY SumIsFolded
<1>3. PICK h : HasSums(h, e, S)
  <2> HIDE DEF e
  <2> QED BY <1>1, SumIsFolded
<1> DEFINE change == v - f[a]
           Good == {s \in SUBSET S : h[s] = g[s] + (IF a \in s THEN change ELSE 0)}
<1>4. {} \in Good
  <2>1. g[{}] = 0 /\ h[{}] = 0
    BY <1>2, <1>3 DEF Fold, HasSums
  <2> QED BY <2>1
<1>5. ASSUME NEW s \in SUBSET S, s # {}, s \ {First(s)} \in Good PROVE s \in Good
  <2> DEFINE x == First(s)
             rest == s \ {x}
  <2>1. x \in s
    BY <1>5 DEF First
  <2>2. g[s] = f[x] + g[rest] /\ h[s] = e[x] + h[rest]
    BY <1>2, <1>3, <1>5 DEF Fold, HasSums
  <2> HIDE DEF x
  <2>3. h[rest] = g[rest] + (IF a \in rest THEN change ELSE 0)
    BY <1>5 DEF x
  <2>4. e[x] = IF x = a THEN v ELSE f[x]
    BY <2>1
  <2>5. f[x] \in Int /\ f[a] \in Int /\ g[rest] \in Int
    BY <1>2, <2>1 DEF HasSums
  <2>6. CASE x = a
    BY <2>1, <2>2, <2>3, <2>4, <2>5, <2>6
  <2>7. CASE x # a
    BY <2>1, <2>2, <2>3, <2>4, <2>5, <2>7
  <2> QED BY <2>6, <2>7
<1>6. S \in Good
  <2> HIDE DEF Good
  <2> QED BY <1>4, <1>5, SubsetInduction
<1>7. g[S] \in Int /\ f[a] \in Int
  BY <1>2 DEF HasSums
<1> QED BY <1>2, <1>3, <1>6, <1>7 DEF HasSums

\* A sum is within the bound of its parts as often as there are parts.
LEMMA SumIsBounded ==
  ASSUME NEW S, IsFiniteSet(S), NEW m \in Nat, NEW f \in [S -> Int],
         \A x \in S : f[x] \in -m..m
  PROVE  /\ SumFunction(f) \in Int
         /\ Cardinality(S) * m \in Nat
         /\ -(Cardinality(S) * m) <= SumFunction(f)
         /\ SumFunction(f) <= Cardinality(S) * m
<1>1. PICK g : HasSums(g, f, S)
  BY SumIsFolded
<1> DEFINE Bound(s) == Cardinality(s) * m
           Good == {s \in SUBSET S : -Bound(s) <= g[s] /\ g[s] <= Bound(s)}
<1>2. {} \in Good
  <2>1. g[{}] = 0
    BY <1>1 DEF Fold, HasSums
  <2>2. Cardinality({}) = 0
    BY FS_EmptySet
  <2> QED BY <2>1, <2>2
<1>3. ASSUME NEW s \in SUBSET S, s # {}, s \ {First(s)} \in Good PROVE s \in Good
  <2> DEFINE x == First(s)
             rest == s \ {x}
             n == Cardinality(s)
             b == Bound(rest)
  <2>1. /\ x \in s /\ n \in Nat /\ Cardinality(rest) = n - 1
        /\ Cardinality(rest) \in Nat
    BY <1>3, FS_Subset, FirstIsLess
  <2>2. g[s] = f[x] + g[rest]
    BY <1>1, <1>3 DEF Fold, HasSums
  <2>3. f[x] \in -m..m /\ f[x] \in Int /\ g[rest] \in Int
    BY <1>1, <2>1 DEF HasSums
  <2>4. -b <= g[rest] /\ g[rest] <= b
    BY <1>3
  <2>5. b \in Int /\ Bound(s) = b + m
    BY <2>1
  <2> HIDE DEF x, b, Bound
  <2>6. -Bound(s) <= g[s] /\ g[s] <= Bound(s)
    BY <2>2, <2>3, <2>4, <2>5
  <2> QED BY <2>6
<1>4. S \in Good
  <2> HIDE DEF Good
  <2> QED BY <1>2, <1>3, SubsetInduction
<1>5. Cardinality(S) \in Nat
  BY FS_CardinalityType
<1> QED BY <1>1, <1>4, <1>5 DEF HasSums

\* The sum of nothing but zeros is zero.
LEMMA SumOfZeros ==
  ASSUME NEW S, IsFiniteSet(S)
  PROVE  SumFunction([x \in S |-> 0]) = 0
<1> DEFINE z == [x \in S |-> 0]
<1>1. z \in [S -> Int]
  OBVIOUS
<1>2. PICK g : HasSums(g, z, S)
  <2> HIDE DEF z
  <2> QED BY <1>1, SumIsFolded
<1> DEFINE Good == {s \in SUBSET S : g[s] = 0}
<1>3. {} \in Good
  BY <1>2 DEF Fold, HasSums
<1>4. ASSUME NEW s \in SUBSET S, s # {}, s \ {First(s)} \in Good PROVE s \in Good
  <2>1. g[s] = z[First(s)] + g[s \ {First(s)}] /\ First(s) \in S
    BY <1>2, <1>4 DEF Fold, First, HasSums
  <2> QED BY <2>1, <1>4
<1>5. S \in Good
  <2> HIDE DEF Good
  <2> QED BY <1>3, <1>4, SubsetInduction
<1> QED BY <1>2, <1>5 DEF HasSums

-----------------------------------------------------------------------------
(* The address set. *)

\* initialize() leaves a well-formed storage without members.
LEMMA EmptyIsConsistent ==
  /\ Empty \in Storage
  /\ ConsistentStorage(Empty)
  /\ Members(Empty) = {}
BY AddrAssumption, CapAssumption
   DEF Empty, Storage, Slots, ConsistentStorage, ListIsMapped, MappedIsListed,
       RestIsEmpty, Members, IsMember

\* add() of a well-formed storage leaves a well-formed storage, which has the
\* members it had and the address added.
LEMMA AddKeeps ==
  ASSUME NEW s \in Storage, ConsistentStorage(s), NEW a \in Addr, s.size < Cap
  PROVE  /\ Add(s, s, a) \in Storage
         /\ ConsistentStorage(Add(s, s, a))
         /\ Members(Add(s, s, a)) = Members(s) \cup {a}
<1> DEFINE t == Add(s, s, a)
<1>1. CASE IsMember(s, a)
  BY <1>1 DEF Add, Members
<1>2. CASE ~IsMember(s, a)
  <2> DEFINE n == s.size + 1
  <2>1. n \in Slots /\ s.size \in Nat /\ s.at[a] = 0
    BY <1>2, CapAssumption DEF Storage, Slots, IsMember
  <2>2. t = [s EXCEPT !.at[a] = n, !.slot[n] = a, !.size = n]
    BY <1>2 DEF Add
  <2>3. /\ t.size = n
        /\ t.slot = [s.slot EXCEPT ![n] = a]
        /\ t.at = [s.at EXCEPT ![a] = n]
    BY <2>2 DEF Storage
  <2>4. t \in Storage
    <3>1. n \in 0..Cap
      BY <2>1, CapAssumption DEF Slots
    <3>2. /\ [s.slot EXCEPT ![n] = a] \in [Slots -> Addr]
          /\ [s.at EXCEPT ![a] = n] \in [Addr -> 0..Cap]
      BY <3>1, <2>1 DEF Storage
    <3>3. t = [size |-> n, slot |-> [s.slot EXCEPT ![n] = a],
               at |-> [s.at EXCEPT ![a] = n]]
      BY <2>2 DEF Storage
    <3> HIDE DEF t, n
    <3> QED BY <3>1, <3>2, <3>3 DEF Storage
  <2>5. ListIsMapped(t)
    <3> SUFFICES ASSUME NEW i \in 1..n PROVE t.at[t.slot[i]] = i
      BY <2>3 DEF ListIsMapped
    <3>1. CASE i = n
      BY <3>1, <2>1, <2>3 DEF Storage
    <3>2. CASE i # n
      <4>1. i \in 1..s.size /\ i \in Slots
        BY <3>2, <2>1, CapAssumption DEF Slots
      <4>2. t.slot[i] = s.slot[i] /\ s.at[s.slot[i]] = i /\ s.slot[i] \in Addr
        BY <4>1, <3>2, <2>3 DEF ConsistentStorage, ListIsMapped, Storage
      <4>3. s.slot[i] # a
        BY <4>1, <4>2, <2>1
      <4> QED BY <4>2, <4>3, <2>3 DEF Storage
    <3> QED BY <3>1, <3>2
  <2>6. MappedIsListed(t)
    <3> SUFFICES ASSUME NEW b \in Addr, t.at[b] # 0
                 PROVE  t.at[b] <= n /\ t.slot[t.at[b]] = b
      BY <2>3 DEF MappedIsListed, Members, IsMember
    <3>1. CASE b = a
      BY <3>1, <2>1, <2>3 DEF Storage
    <3>2. CASE b # a
      <4>1. t.at[b] = s.at[b] /\ s.at[b] # 0 /\ s.at[b] \in 0..Cap
        BY <3>2, <2>3 DEF Storage
      <4>2. s.at[b] <= s.size /\ s.slot[s.at[b]] = b
        BY <4>1 DEF ConsistentStorage, MappedIsListed, Members, IsMember
      <4>3. s.at[b] \in Slots /\ s.at[b] # n
        BY <4>1, <4>2, <2>1, CapAssumption DEF Slots
      <4> QED BY <4>1, <4>2, <4>3, <2>1, <2>3 DEF Storage
    <3> QED BY <3>1, <3>2
  <2>7. RestIsEmpty(t)
    BY <2>1, <2>3 DEF RestIsEmpty, ConsistentStorage, Storage, Slots
  <2>8. Members(t) = Members(s) \cup {a}
    BY <2>1, <2>3 DEF Members, IsMember, Storage, Slots
  <2> QED BY <2>4, <2>5, <2>6, <2>7, <2>8 DEF ConsistentStorage
<1> QED BY <1>1, <1>2

\* remove() from version 11 on: a well-formed storage again, without the
\* address, in which the last of the list has taken the place it left.
LEMMA RemoveKeeps ==
  ASSUME NEW s \in Storage, ConsistentStorage(s), NEW a \in Addr,
         NEW version \in Nat, version >= 11
  PROVE  /\ Remove(s, s, a, version) \in Storage
         /\ ConsistentStorage(Remove(s, s, a, version))
         /\ Members(Remove(s, s, a, version)) = Members(s) \ {a}
<1> DEFINE t == Remove(s, s, a, version)
<1>1. CASE ~IsMember(s, a)
  BY <1>1 DEF Remove, Members
<1>2. CASE IsMember(s, a)
  <2> DEFINE hole == s.at[a]
             n == s.size
             last == s.slot[n]
  <2>1. /\ n \in Nat /\ n <= Cap /\ hole \in 1..n /\ n \in Slots /\ hole \in Slots
        /\ s.slot[hole] = a
        /\ last \in Addr /\ s.at[last] = n
        /\ n - 1 \in 0..Cap
    <3>1. n \in 0..Cap /\ hole \in 0..Cap /\ hole # 0
      BY <1>2 DEF Storage, IsMember
    <3>2. hole <= n /\ s.slot[hole] = a
      BY <1>2 DEF ConsistentStorage, MappedIsListed, Members
    <3>3. n \in 1..n /\ hole \in 1..n /\ n \in Slots /\ hole \in Slots
      BY <3>1, <3>2, CapAssumption DEF Slots
    <3> QED
      BY <3>1, <3>2, <3>3, CapAssumption
         DEF ConsistentStorage, ListIsMapped, Storage
  <2>2. CASE hole < n
    <3>1. t = [size |-> n - 1,
               slot |-> [s.slot EXCEPT ![hole] = last, ![n] = ZeroAddr],
               at |-> [s.at EXCEPT ![a] = 0, ![last] = hole]]
      BY <1>2, <2>2 DEF Remove
    <3>2. last # a
      BY <2>1, <2>2
    <3>3. /\ \A i \in Slots : t.slot[i] = IF i = n THEN ZeroAddr
                                          ELSE IF i = hole THEN last ELSE s.slot[i]
          /\ \A b \in Addr : t.at[b] = IF b = last THEN hole
                                       ELSE IF b = a THEN 0 ELSE s.at[b]
          /\ t.size = n - 1
      BY <3>1, <3>2, <2>1, <2>2 DEF Storage
    <3>4. t \in Storage
      <4>1. /\ [s.slot EXCEPT ![hole] = last, ![n] = ZeroAddr] \in [Slots -> Addr]
            /\ [s.at EXCEPT ![a] = 0, ![last] = hole] \in [Addr -> 0..Cap]
        BY <2>1, AddrAssumption, CapAssumption DEF Storage
      <4> HIDE DEF t, n, hole, last
      <4> QED BY <3>1, <4>1, <2>1 DEF Storage
    <3>5. ListIsMapped(t)
      <4> SUFFICES ASSUME NEW i \in 1..(n - 1) PROVE t.at[t.slot[i]] = i
        BY <3>3 DEF ListIsMapped
      <4>1. i \in Slots /\ i \in 1..n /\ i # n
        BY <2>1, CapAssumption DEF Slots
      <4>2. s.at[s.slot[i]] = i /\ s.slot[i] \in Addr
        BY <4>1 DEF ConsistentStorage, ListIsMapped, Storage
      <4> HIDE DEF t
      <4> QED BY <4>1, <4>2, <3>2, <3>3, <2>1
    <3>6. MappedIsListed(t)
      <4> SUFFICES ASSUME NEW b \in Addr, t.at[b] # 0
                   PROVE  t.at[b] <= n - 1 /\ t.slot[t.at[b]] = b
        BY <3>3 DEF MappedIsListed, Members, IsMember
      <4>1. CASE b = last
        <5> HIDE DEF t
        <5> QED BY <4>1, <3>3, <2>1, <2>2
      <4>2. CASE b # last
        <5>1. b # a /\ t.at[b] = s.at[b] /\ s.at[b] # 0 /\ s.at[b] \in 0..Cap
          BY <4>2, <3>3 DEF Storage
        <5>2. s.at[b] <= n /\ s.slot[s.at[b]] = b
          BY <5>1 DEF ConsistentStorage, MappedIsListed, Members, IsMember
        <5>3. s.at[b] \in Slots /\ s.at[b] # n /\ s.at[b] # hole
          BY <5>1, <5>2, <4>2, <2>1, CapAssumption DEF Slots
        <5>4. s.at[b] <= n - 1
          BY <5>1, <5>2, <5>3, <2>1
        <5> HIDE DEF t
        <5> QED BY <5>1, <5>2, <5>3, <5>4, <3>3
      <4> QED BY <4>1, <4>2
    <3>7. RestIsEmpty(t)
      <4> SUFFICES ASSUME NEW i \in Slots, i > n - 1 PROVE t.slot[i] = ZeroAddr
        BY <3>3 DEF RestIsEmpty
      <4>1. i = n \/ (i > n /\ i # hole)
        BY <2>1, CapAssumption DEF Slots
      <4>2. i > n => s.slot[i] = ZeroAddr
        BY DEF ConsistentStorage, RestIsEmpty
      <4> QED BY <4>1, <4>2, <3>3
    <3>8. Members(t) = Members(s) \ {a}
      <4> HIDE DEF t
      <4> QED BY <3>2, <3>3, <2>1 DEF Members, IsMember
    <3> QED BY <3>4, <3>5, <3>6, <3>7, <3>8 DEF ConsistentStorage
  <2>3. CASE ~(hole < n)
    <3>1. hole = n /\ last = a
      BY <2>1, <2>3
    <3>2. t = [size |-> n - 1, slot |-> [s.slot EXCEPT ![n] = ZeroAddr],
               at |-> [s.at EXCEPT ![a] = 0]]
      BY <1>2, <2>3 DEF Remove
    <3>3. /\ \A i \in Slots : t.slot[i] = IF i = n THEN ZeroAddr ELSE s.slot[i]
          /\ \A b \in Addr : t.at[b] = IF b = a THEN 0 ELSE s.at[b]
          /\ t.size = n - 1
      BY <3>2, <2>1 DEF Storage
    <3>4. t \in Storage
      <4>1. /\ [s.slot EXCEPT ![n] = ZeroAddr] \in [Slots -> Addr]
            /\ [s.at EXCEPT ![a] = 0] \in [Addr -> 0..Cap]
        BY <2>1, AddrAssumption, CapAssumption DEF Storage
      <4> HIDE DEF t, n, hole, last
      <4> QED BY <3>2, <4>1, <2>1 DEF Storage
    <3>5. ListIsMapped(t)
      <4> SUFFICES ASSUME NEW i \in 1..(n - 1) PROVE t.at[t.slot[i]] = i
        BY <3>3 DEF ListIsMapped
      <4>1. i \in Slots /\ i \in 1..n /\ i # n
        BY <2>1, CapAssumption DEF Slots
      <4>2. s.at[s.slot[i]] = i /\ s.slot[i] \in Addr
        BY <4>1 DEF ConsistentStorage, ListIsMapped, Storage
      <4> HIDE DEF t
      <4> QED BY <4>1, <4>2, <3>1, <3>3, <2>1
    <3>6. MappedIsListed(t)
      <4> SUFFICES ASSUME NEW b \in Addr, t.at[b] # 0
                   PROVE  t.at[b] <= n - 1 /\ t.slot[t.at[b]] = b
        BY <3>3 DEF MappedIsListed, Members, IsMember
      <4>1. b # a /\ t.at[b] = s.at[b] /\ s.at[b] # 0 /\ s.at[b] \in 0..Cap
        BY <3>3 DEF Storage
      <4>2. s.at[b] <= n /\ s.slot[s.at[b]] = b
        BY <4>1 DEF ConsistentStorage, MappedIsListed, Members, IsMember
      <4>3. s.at[b] \in Slots /\ s.at[b] # n
        BY <4>1, <4>2, <3>1, CapAssumption DEF Slots
      <4>4. s.at[b] <= n - 1
        BY <4>1, <4>2, <4>3, <2>1
      <4> HIDE DEF t
      <4> QED BY <4>1, <4>2, <4>3, <4>4, <3>3
    <3>7. RestIsEmpty(t)
      <4> SUFFICES ASSUME NEW i \in Slots, i > n - 1 PROVE t.slot[i] = ZeroAddr
        BY <3>3 DEF RestIsEmpty
      <4>1. i = n \/ i > n
        BY <2>1, CapAssumption DEF Slots
      <4>2. i > n => s.slot[i] = ZeroAddr
        BY DEF ConsistentStorage, RestIsEmpty
      <4> QED BY <4>1, <4>2, <3>3
    <3>8. Members(t) = Members(s) \ {a}
      <4> HIDE DEF t
      <4> QED BY <3>3, <2>1 DEF Members, IsMember
    <3> QED BY <3>4, <3>5, <3>6, <3>7, <3>8 DEF ConsistentStorage
  <2> QED BY <2>2, <2>3
<1> QED BY <1>1, <1>2

\* clear() of a well-formed storage leaves it as initialize() does.
LEMMA ClearEmpties ==
  ASSUME NEW s \in Storage, ConsistentStorage(s)
  PROVE  Clear(s, s) = Empty
<1>1. CASE s.size = 0
  <2>1. \A a \in Addr : s.at[a] = 0
    <3> SUFFICES ASSUME NEW a \in Addr, s.at[a] # 0 PROVE FALSE
      OBVIOUS
    <3>1. s.at[a] <= 0
      BY <1>1 DEF ConsistentStorage, MappedIsListed, Members, IsMember
    <3> QED BY <3>1, CapAssumption DEF Storage
  <2>2. \A i \in Slots : s.slot[i] = ZeroAddr
    BY <1>1, CapAssumption DEF ConsistentStorage, RestIsEmpty, Slots
  <2>3. /\ s.at = [a \in Addr |-> 0]
        /\ s.slot = [i \in Slots |-> ZeroAddr]
        /\ s = [size |-> s.size, slot |-> s.slot, at |-> s.at]
    BY <2>1, <2>2 DEF Storage
  <2> QED BY <1>1, <2>3 DEF Clear, Empty
<1>2. CASE s.size # 0
  <2> DEFINE listed == {s.slot[i] : i \in 1..s.size}
             t == Clear(s, s)
  <2>1. t = [size |-> 0,
             slot |-> [i \in Slots |-> IF i <= s.size THEN ZeroAddr ELSE s.slot[i]],
             at |-> [a \in Addr |-> IF a \in listed THEN 0 ELSE s.at[a]]]
    BY <1>2 DEF Clear
  <2>2. \A i \in Slots : ~(i <= s.size) => s.slot[i] = ZeroAddr
    BY CapAssumption DEF ConsistentStorage, RestIsEmpty, Slots, Storage
  <2>3. \A a \in Addr : a \notin listed => s.at[a] = 0
    <3> SUFFICES ASSUME NEW a \in Addr, s.at[a] # 0 PROVE a \in listed
      OBVIOUS
    <3>1. s.at[a] <= s.size /\ s.slot[s.at[a]] = a
      BY DEF ConsistentStorage, MappedIsListed, Members, IsMember
    <3>2. s.at[a] \in 1..s.size
      BY <3>1, CapAssumption DEF Storage
    <3> QED BY <3>1, <3>2
  <2> HIDE DEF listed, t
  <2>4. /\ [i \in Slots |-> IF i <= s.size THEN ZeroAddr ELSE s.slot[i]]
             = [i \in Slots |-> ZeroAddr]
        /\ [a \in Addr |-> IF a \in listed THEN 0 ELSE s.at[a]]
             = [a \in Addr |-> 0]
    BY <2>2, <2>3
  <2>5. t = Empty
    BY <2>1, <2>4 DEF Empty
  <2> QED BY <2>5 DEF t
<1> QED BY <1>1, <1>2

\* In a well-formed storage the list, as a function, is a bijection of its
\* slots onto the members: there are as many of the one as of the other.
LEMMA SizeIsCardinality ==
  ASSUME NEW s \in Storage, ConsistentStorage(s)
  PROVE  IsFiniteSet(Members(s)) /\ Cardinality(Members(s)) = s.size
<1> DEFINE list == [i \in 1..s.size |-> s.slot[i]]
<1>1. s.size \in Nat /\ 1..s.size \subseteq Slots
  BY CapAssumption DEF Storage, Slots
<1>2. \A i \in 1..s.size : s.slot[i] \in Members(s) /\ s.at[s.slot[i]] = i
  BY <1>1 DEF ConsistentStorage, ListIsMapped, Members, IsMember, Storage
<1>3. list \in Injection(1..s.size, Members(s))
  <2>1. list \in [1..s.size -> Members(s)]
    BY <1>2
  <2>2. \A i, j \in 1..s.size : list[i] = list[j] => i = j
    BY <1>2
  <2> HIDE DEF list
  <2> QED BY <2>1, <2>2 DEF Injection, IsInjective
<1>4. \A a \in Members(s) : s.at[a] \in 1..s.size /\ s.slot[s.at[a]] = a
  <2> SUFFICES ASSUME NEW a \in Members(s)
               PROVE  s.at[a] \in 1..s.size /\ s.slot[s.at[a]] = a
    OBVIOUS
  <2>1. s.at[a] \in 0..Cap /\ s.at[a] # 0
    BY DEF Storage, Members, IsMember
  <2>2. s.at[a] <= s.size /\ s.slot[s.at[a]] = a
    BY DEF ConsistentStorage, MappedIsListed
  <2> QED BY <2>1, <2>2, <1>1, CapAssumption
<1>5. list \in Surjection(1..s.size, Members(s))
  BY <1>2, <1>4 DEF Surjection
<1>6. ExistsBijection(1..s.size, Members(s))
  BY <1>3, <1>5 DEF ExistsBijection, Bijection
<1>7. IsFiniteSet(1..s.size) /\ Cardinality(1..s.size) = s.size
  BY <1>1, FS_Interval
<1> QED BY <1>6, <1>7, FS_Bijection

-----------------------------------------------------------------------------
(* The table of posters. *)

\* Saturation ends in the range, and leaves what is in the range alone.
LEMMA SaturateInRange ==
  ASSUME NEW x \in Int
  PROVE  Saturate(x) \in I256 /\ (x \in I256 => Saturate(x) = x)
BY MaxI256Assumption DEF Saturate, I256, MinI256

\* Balances are integers.
LEMMA I256IsInt == I256 \subseteq Int
BY MaxI256Assumption DEF I256, MinI256

\* The saturating operations stay in the range.
LEMMA SatInRange ==
  ASSUME NEW x \in Int, NEW y \in Int
  PROVE  SatAdd(x, y) \in I256 /\ SatSub(x, y) \in I256
<1>1. x + y \in Int /\ x - y \in Int
  OBVIOUS
<1> QED BY <1>1, SaturateInRange DEF SatAdd, SatSub

\* set_funds_due keeps the layout, writes the balance of one poster, and leaves
\* the posters alone.
LEMMA SetFundsDueType ==
  ASSUME NEW r \in PosterStorage, NEW w \in PosterStorage,
         NEW a \in Addr, NEW val \in I256
  PROVE  /\ SetFundsDue(r, w, a, val) \in PosterStorage
         /\ SetFundsDue(r, w, a, val).due = [w.due EXCEPT ![a] = val]
         /\ SetFundsDue(r, w, a, val).posters = w.posters
<1>1. /\ r.total \in Int /\ r.due[a] \in Int /\ val \in Int
      /\ [w.due EXCEPT ![a] = val] \in [Addr -> I256]
  BY I256IsInt DEF PosterStorage
<1>2. SatAdd(r.total, val) \in Int
  BY <1>1, SatInRange, I256IsInt
<1>3. SatSub(SatAdd(r.total, val), r.due[a]) \in I256
  BY <1>1, <1>2, SatInRange
<1> DEFINE total == SatSub(SatAdd(r.total, val), r.due[a])
<1>4. SetFundsDue(r, w, a, val) = [w EXCEPT !.total = total, !.due[a] = val]
  BY DEF SetFundsDue
<1> HIDE DEF total
<1> QED BY <1>1, <1>3, <1>4 DEF PosterStorage, total

\* add_poster keeps the layout: the new poster is owed nothing.
LEMMA AddPosterType ==
  ASSUME NEW r \in PosterStorage, NEW w \in PosterStorage,
         NEW a \in Addr, NEW to \in Addr,
         Add(r.posters, w.posters, a) \in Storage
  PROVE  /\ AddPoster(r, w, a, to) \in PosterStorage
         /\ AddPoster(r, w, a, to).due = [w.due EXCEPT ![a] = 0]
         /\ AddPoster(r, w, a, to).posters = Add(r.posters, w.posters, a)
<1> DEFINE posters == Add(r.posters, w.posters, a)
<1>1. 0 \in I256
  BY MaxI256Assumption DEF I256, MinI256
<1>2. posters \in Storage
  OBVIOUS
<1> DEFINE w1 == [w EXCEPT !.due[a] = 0]
           w2 == [w1 EXCEPT !.payTo[a] = to]
           w3 == [w2 EXCEPT !.posters = posters]
<1>3. AddPoster(r, w, a, to) = w3
  BY DEF AddPoster
<1> HIDE DEF posters
<1>4. w1 \in PosterStorage /\ w1.due = [w.due EXCEPT ![a] = 0]
  BY <1>1 DEF PosterStorage
<1> HIDE DEF w1
<1>5. w2 \in PosterStorage /\ w2.due = w1.due
  BY <1>4 DEF PosterStorage
<1> HIDE DEF w2
<1>6. w3 \in PosterStorage /\ w3.due = w2.due /\ w3.posters = posters
  BY <1>2, <1>5 DEF PosterStorage
<1> HIDE DEF w3
<1> QED BY <1>3, <1>4, <1>5, <1>6 DEF posters

-----------------------------------------------------------------------------
(* The table is in order: its posters are, and only posters are owed.      *)

OnlyPostersAreOwed(s) == \A a \in Addr : s.due[a] # 0 => ContainsPoster(s, a)

TableInOrder(s) ==
  /\ s \in PosterStorage
  /\ ConsistentStorage(s.posters)
  /\ OnlyPostersAreOwed(s)

\* The fresh table is in order.
LEMMA NoPostersInOrder == TableInOrder(NoPosters)
<1>1. 0 \in I256 /\ NoPosters.posters = Empty /\ NoPosters.due = [a \in Addr |-> 0]
  BY MaxI256Assumption DEF I256, MinI256, NoPosters
<1>2. NoPosters \in PosterStorage
  BY <1>1, AddrAssumption, EmptyIsConsistent DEF NoPosters, PosterStorage
<1> QED BY <1>1, <1>2, EmptyIsConsistent DEF TableInOrder, OnlyPostersAreOwed

\* add_poster of an address that is no poster keeps the order.
LEMMA AddPosterKeeps ==
  ASSUME NEW s, TableInOrder(s), NEW a \in Addr, NEW to \in Addr,
         s.posters.size < Cap
  PROVE  TableInOrder(AddPoster(s, s, a, to))
<1> DEFINE t == AddPoster(s, s, a, to)
<1>1. s \in PosterStorage /\ s.posters \in Storage /\ ConsistentStorage(s.posters)
  BY DEF TableInOrder, PosterStorage
<1>2. /\ Add(s.posters, s.posters, a) \in Storage
      /\ ConsistentStorage(Add(s.posters, s.posters, a))
      /\ Members(Add(s.posters, s.posters, a)) = Members(s.posters) \cup {a}
  BY <1>1, AddKeeps
<1>3. /\ t \in PosterStorage
      /\ t.due = [s.due EXCEPT ![a] = 0]
      /\ t.posters = Add(s.posters, s.posters, a)
  BY <1>1, <1>2, AddPosterType
<1> HIDE DEF t
<1>4. ASSUME NEW b \in Addr, t.due[b] # 0 PROVE ContainsPoster(t, b)
  <2>1. b \in Members(s.posters)
    BY <1>1, <1>3, <1>4
       DEF TableInOrder, OnlyPostersAreOwed, ContainsPoster, Members, PosterStorage
  <2> QED BY <2>1, <1>2, <1>3 DEF ContainsPoster, Members
<1>5. TableInOrder(t)
  BY <1>2, <1>3, <1>4 DEF TableInOrder, OnlyPostersAreOwed
<1> QED BY <1>5 DEF t

\* open_poster(poster, true) keeps the order and every balance, and finds the
\* poster afterwards.
LEMMA OpenPosterKeeps ==
  ASSUME NEW s, TableInOrder(s), NEW a \in Addr,
         s.posters.size < Cap \/ ContainsPoster(s, a)
  PROVE  /\ TableInOrder(OpenPoster(s, s, a))
         /\ OpenPoster(s, s, a).due = s.due
         /\ ContainsPoster(OpenPoster(s, s, a), a)
<1>1. CASE ContainsPoster(s, a)
  BY <1>1 DEF OpenPoster
<1>2. CASE ~ContainsPoster(s, a)
  <2> DEFINE t == AddPoster(s, s, a, a)
  <2>1. s \in PosterStorage /\ s.posters \in Storage /\ ConsistentStorage(s.posters)
    BY DEF TableInOrder, PosterStorage
  <2>2. /\ Add(s.posters, s.posters, a) \in Storage
        /\ Members(Add(s.posters, s.posters, a)) = Members(s.posters) \cup {a}
    BY <1>2, <2>1, AddKeeps
  <2>3. t.due = [s.due EXCEPT ![a] = 0] /\ t.posters = Add(s.posters, s.posters, a)
    BY <2>1, <2>2, AddPosterType
  <2>4. s.due \in [Addr -> I256] /\ s.due[a] = 0
    BY <1>2, <2>1 DEF TableInOrder, OnlyPostersAreOwed, PosterStorage
  <2>5. TableInOrder(t)
    BY <1>2, AddPosterKeeps
  <2> HIDE DEF t
  <2>6. t.due = s.due
    BY <2>3, <2>4
  <2>7. ContainsPoster(t, a)
    BY <2>2, <2>3 DEF ContainsPoster, Members
  <2> QED BY <1>2, <2>5, <2>6, <2>7 DEF OpenPoster, t
<1> QED BY <1>1, <1>2

\* Opening a poster loses none.
LEMMA OpenPosterLosesNone ==
  ASSUME NEW s, TableInOrder(s), NEW a \in Addr,
         s.posters.size < Cap \/ ContainsPoster(s, a),
         NEW b \in Addr, ContainsPoster(s, b)
  PROVE  ContainsPoster(OpenPoster(s, s, a), b)
<1>1. CASE ContainsPoster(s, a)
  BY <1>1 DEF OpenPoster
<1>2. CASE ~ContainsPoster(s, a)
  <2> DEFINE t == AddPoster(s, s, a, a)
  <2>1. s \in PosterStorage /\ s.posters \in Storage /\ ConsistentStorage(s.posters)
    BY DEF TableInOrder, PosterStorage
  <2>2. /\ Add(s.posters, s.posters, a) \in Storage
        /\ Members(Add(s.posters, s.posters, a)) = Members(s.posters) \cup {a}
    BY <1>2, <2>1, AddKeeps
  <2>3. t.due = [s.due EXCEPT ![a] = 0] /\ t.posters = Add(s.posters, s.posters, a)
    BY <2>1, <2>2, AddPosterType
  <2> HIDE DEF t
  <2>4. ContainsPoster(t, b)
    BY <2>2, <2>3 DEF ContainsPoster, Members
  <2> QED BY <1>2, <2>4 DEF OpenPoster, t
<1> QED BY <1>1, <1>2

\* set_funds_due of a poster keeps the order, whatever total it started from.
LEMMA SetFundsDueKeeps ==
  ASSUME NEW r \in PosterStorage, NEW w, TableInOrder(w),
         NEW a \in Addr, ContainsPoster(w, a), NEW val \in I256
  PROVE  /\ TableInOrder(SetFundsDue(r, w, a, val))
         /\ SetFundsDue(r, w, a, val).due = [w.due EXCEPT ![a] = val]
         /\ ContainsPoster(SetFundsDue(r, w, a, val), a)
<1> DEFINE t == SetFundsDue(r, w, a, val)
<1>1. w \in PosterStorage /\ w.due \in [Addr -> I256]
  BY DEF TableInOrder, PosterStorage
<1>2. /\ t \in PosterStorage
      /\ t.due = [w.due EXCEPT ![a] = val]
      /\ t.posters = w.posters
  BY <1>1, SetFundsDueType
<1> HIDE DEF t
<1>3. TableInOrder(t) /\ ContainsPoster(t, a)
  BY <1>1, <1>2 DEF TableInOrder, OnlyPostersAreOwed, ContainsPoster
<1> QED BY <1>2, <1>3 DEF t

\* set_pay_to keeps the order.
LEMMA SetPayToKeeps ==
  ASSUME NEW s, TableInOrder(s), NEW a \in Addr, NEW to \in Addr
  PROVE  TableInOrder(SetPayTo(s, s, a, to))
<1> DEFINE t == SetPayTo(s, s, a, to)
<1>1. s \in PosterStorage
  BY DEF TableInOrder
<1>2. t \in PosterStorage /\ t.due = s.due /\ t.posters = s.posters
  BY <1>1 DEF PosterStorage, SetPayTo
<1> HIDE DEF t
<1>3. TableInOrder(t)
  BY <1>1, <1>2 DEF TableInOrder, OnlyPostersAreOwed, ContainsPoster
<1> QED BY <1>3 DEF t

-----------------------------------------------------------------------------
(* The total: that of a table is the sum of its balances as long as all of *)
(* them, and one more, fit the width of the total.                         *)

TotalIsRight(s) == s.total = SumFunction(s.due)

\* Balances of a size of up to m, of all addresses and one more, fit.
Fits(m) == m \in Nat /\ (Cardinality(Addr) + 1) * m <= MaxI256

BalancesWithin(s, m) == \A a \in Addr : s.due[a] \in -m..m

\* The fresh table has nothing to add up.
LEMMA NoPostersTotal ==
  /\ TotalIsRight(NoPosters)
  /\ \A m \in Nat : BalancesWithin(NoPosters, m)
<1>1. NoPosters.total = 0 /\ NoPosters.due = [a \in Addr |-> 0]
  BY DEF NoPosters
<1> QED BY <1>1, SumOfZeros, FiniteAssumption DEF TotalIsRight, BalancesWithin

\* Balances that fit have a sum that fits, and so has one of them set anew on
\* top of all of them: the order of set_funds_due, which adds before it takes
\* off.
LEMMA SumsFit ==
  ASSUME NEW m, Fits(m), NEW due \in [Addr -> Int],
         \A a \in Addr : due[a] \in -m..m, NEW x \in -m..m
  PROVE  /\ SumFunction(due) \in Int /\ SumFunction(due) \in I256
         /\ SumFunction(due) + x \in I256
<1>1. m \in Nat /\ Cardinality(Addr) \in Nat
  BY FiniteAssumption, FS_CardinalityType DEF Fits
<1> DEFINE bound == Cardinality(Addr) * m
<1>2. /\ SumFunction(due) \in Int /\ bound \in Nat
      /\ -bound <= SumFunction(due) /\ SumFunction(due) <= bound
  BY <1>1, FiniteAssumption, SumIsBounded
<1>3. bound + m <= MaxI256
  BY <1>1 DEF Fits
<1> HIDE DEF bound
<1> QED BY <1>1, <1>2, <1>3, MaxI256Assumption DEF I256, MinI256

\* set_funds_due moves the total as the sum of the balances moves, whatever
\* table it writes to.
LEMMA SetFundsDueAdds ==
  ASSUME NEW m, Fits(m), NEW r \in PosterStorage, TotalIsRight(r),
         BalancesWithin(r, m), NEW w \in PosterStorage,
         NEW a \in Addr, NEW val \in -m..m
  PROVE  SetFundsDue(r, w, a, val).total = SumFunction([r.due EXCEPT ![a] = val])
<1> DEFINE sum == SumFunction(r.due)
           new == [r.due EXCEPT ![a] = val]
<1>1. r.due \in [Addr -> Int] /\ m \in Nat /\ val \in Int /\ r.due[a] \in Int
  <2>1. r.due \in [Addr -> I256] /\ m \in Nat
    BY DEF PosterStorage, Fits
  <2>2. r.due \in [Addr -> Int]
    BY <2>1, I256IsInt
  <2> QED BY <2>1, <2>2
<1>2. sum \in Int /\ sum + val \in I256 /\ r.total = sum
  BY <1>1, SumsFit DEF BalancesWithin, TotalIsRight
<1>3. SumFunction(new) = (sum + val) - r.due[a]
  BY <1>1, FiniteAssumption, SumOfChange
<1>4. SumFunction(new) \in I256
  <2>1. new \in [Addr -> Int] /\ \A b \in Addr : new[b] \in -m..m
    BY <1>1 DEF BalancesWithin
  <2>2. 0 \in -m..m
    BY <1>1
  <2> HIDE DEF new
  <2> QED BY <2>1, <2>2, SumsFit
<1> HIDE DEF sum, new
<1>5. SatAdd(r.total, val) = sum + val
  BY <1>1, <1>2, SaturateInRange DEF SatAdd
<1>6. SatSub(SatAdd(r.total, val), r.due[a]) = SumFunction(new)
  BY <1>1, <1>2, <1>3, <1>4, <1>5, SaturateInRange DEF SatSub
<1>7. SetFundsDue(r, w, a, val).total = SatSub(SatAdd(r.total, val), r.due[a])
  BY DEF SetFundsDue, PosterStorage
<1> QED BY <1>6, <1>7 DEF new

\* A poster that is opened, or added, with nothing to its name leaves the total.
LEMMA OpenPosterAdds ==
  ASSUME NEW s, TableInOrder(s), TotalIsRight(s), NEW a \in Addr, NEW to \in Addr,
         s.posters.size < Cap \/ ContainsPoster(s, a)
  PROVE  /\ TotalIsRight(OpenPoster(s, s, a))
         /\ OpenPoster(s, s, a).due = s.due
         /\ ~ContainsPoster(s, a) => /\ TotalIsRight(AddPoster(s, s, a, to))
                                     /\ AddPoster(s, s, a, to).due = s.due
<1>1. ASSUME ~ContainsPoster(s, a), NEW b \in Addr
      PROVE  /\ TotalIsRight(AddPoster(s, s, a, b))
             /\ AddPoster(s, s, a, b).due = s.due
  <2> DEFINE t == AddPoster(s, s, a, b)
  <2>1. s \in PosterStorage /\ s.posters \in Storage /\ ConsistentStorage(s.posters)
    BY DEF TableInOrder, PosterStorage
  <2>2. Add(s.posters, s.posters, a) \in Storage
    BY <1>1, <2>1, AddKeeps
  <2>3. t.due = [s.due EXCEPT ![a] = 0]
    BY <2>1, <2>2, AddPosterType
  <2>4. s.due \in [Addr -> I256] /\ s.due[a] = 0
    BY <1>1, <2>1 DEF TableInOrder, OnlyPostersAreOwed, PosterStorage
  <2>5. t.total = s.total
    BY <2>1 DEF AddPoster, PosterStorage
  <2> HIDE DEF t
  <2>6. t.due = s.due
    BY <2>3, <2>4
  <2>7. TotalIsRight(t)
    BY <2>5, <2>6 DEF TotalIsRight
  <2> QED BY <2>6, <2>7 DEF t
<1> QED BY <1>1 DEF OpenPoster
=============================================================================
