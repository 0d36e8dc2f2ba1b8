--------------------------- MODULE StorageProofs ---------------------------
(***************************************************************************)
(* Theorems about the two parts of storage.rs.                             *)
(*                                                                         *)
(* The first is about HashCache, for any number of threads, any keys and   *)
(* any capacity, in every interleaving.  That lookups end is about         *)
(* fairness and model-checked.                                             *)
(*                                                                         *)
(* The second is about StorageSlots, for all widths of words and values,   *)
(* all strings of bytes and all costs, in transactions of any number of    *)
(* calls.                                                                  *)
(***************************************************************************)
EXTENDS HashCache, StorageSlots, SequenceTheorems, TLAPS

-----------------------------------------------------------------------------
(* The hash cache. *)

InputSet == [space: Space, page: Page]

HashSet == [hash: InputSet]

Entry == [input: InputSet, hash: HashSet]

\* The entry of an input.
EntryOf(input) == [input |-> input, hash |-> Hash(input)]

Critical == {"locked", "missed", "evicted"}

\* The thread that has the mutex is the one between lock() and return.
HolderIsInside == \A t \in Thread : pc[t] \in Critical <=> holder = t

\* What was not found is still not there.
MissesLast == \A t \in Thread : pc[t] = "missed" => Misses(Input(asked[t]))

\* No input is recorded twice.
UsedOnce == \A i, j \in DOMAIN used : used[i] = used[j] => i = j

\* Whoever is about to warn, or has set the flag, dropped an entry before.
WarningIsDue ==
  /\ logged => Len(used) > Capacity
  /\ \A t \in Thread : pc[t] = "evicted" => Len(used) > Capacity
  /\ warned <= 1
  /\ warned = 1 => logged

\* A lookup that returned has the slot of its key.
ReturnedIsMapped == \A t \in Thread : pc[t] = "returned" => mapped[t] = SlotOf(asked[t])

IInv ==
  /\ LookupTypeOK
  /\ mapped \in [Thread -> [page: HashSet, last: Last]]
  /\ cache \in Seq(Entry)
  /\ used \in Seq(InputSet)
  /\ HolderIsInside
  /\ MissesLast
  /\ UsedOnce
  /\ CacheIsMostRecent
  /\ WarningIsDue
  /\ ReturnedIsMapped

-----------------------------------------------------------------------------
(* The sequences. *)

\* A function on an initial segment of the numbers is a sequence of that length.
LEMMA FunctionIsSeq ==
  ASSUME NEW S, NEW n \in Nat, NEW f \in [1..n -> S]
  PROVE  f \in Seq(S) /\ Len(f) = n /\ DOMAIN f = 1..n
<1>1. f \in Seq(S)
  BY SeqDef
<1>2. Len(f) \in Nat /\ DOMAIN f = 1..Len(f)
  BY <1>1, LenProperties
<1>3. 1..n = 1..Len(f)
  BY <1>2
<1>4. Len(f) = n
  BY <1>2, <1>3
<1> QED BY <1>1, <1>2, <1>4

\* Moving an element to the front keeps the length and reorders the rest.
LEMMA ToFrontFacts ==
  ASSUME NEW S, NEW s \in Seq(S), NEW i \in DOMAIN s
  PROVE  /\ ToFront(s, i) \in Seq(S)
         /\ Len(ToFront(s, i)) = Len(s)
         /\ \A n \in 1..Len(s) :
              ToFront(s, i)[n] = IF n = 1 THEN s[i]
                                 ELSE IF n <= i THEN s[n - 1] ELSE s[n]
<1>1. DOMAIN s = 1..Len(s) /\ Len(s) \in Nat /\ s \in [1..Len(s) -> S]
  BY LenProperties
<1>2. ToFront(s, i) \in [1..Len(s) -> S]
  BY <1>1 DEF ToFront
<1>3. \A n \in 1..Len(s) :
        ToFront(s, i)[n] = IF n = 1 THEN s[i]
                           ELSE IF n <= i THEN s[n - 1] ELSE s[n]
  BY <1>1 DEF ToFront
<1> QED BY <1>1, <1>2, <1>3, FunctionIsSeq

\* An element put in front moves the others one place back.
LEMMA InFrontFacts ==
  ASSUME NEW S, NEW s \in Seq(S), NEW x \in S, NEW m \in Nat, m <= Len(s) + 1,
         NEW t, t = [n \in 1..m |-> IF n = 1 THEN x ELSE s[n - 1]]
  PROVE  /\ t \in Seq(S)
         /\ Len(t) = m
         /\ \A n \in 1..m : t[n] = IF n = 1 THEN x ELSE s[n - 1]
<1>1. DOMAIN s = 1..Len(s) /\ Len(s) \in Nat /\ s \in [1..Len(s) -> S]
  BY LenProperties
<1>2. t \in [1..m -> S]
  BY <1>1
<1> QED BY <1>2, FunctionIsSeq

\* Moving an input to the front keeps each input at one place.
LEMMA ToFrontOnce ==
  ASSUME NEW s \in Seq(InputSet), NEW i \in DOMAIN s,
         \A m, n \in DOMAIN s : s[m] = s[n] => m = n,
         NEW t, t = ToFront(s, i)
  PROVE  \A m, n \in DOMAIN t : t[m] = t[n] => m = n
<1>1. DOMAIN s = 1..Len(s) /\ DOMAIN t = 1..Len(s) /\ Len(s) \in Nat
  BY ToFrontFacts, LenProperties
<1>2. \A n \in 1..Len(s) :
        t[n] = IF n = 1 THEN s[i] ELSE IF n <= i THEN s[n - 1] ELSE s[n]
  BY ToFrontFacts
<1> DEFINE from(n) == IF n = 1 THEN i ELSE IF n <= i THEN n - 1 ELSE n
<1>3. \A n \in 1..Len(s) : from(n) \in 1..Len(s) /\ t[n] = s[from(n)]
  BY <1>1, <1>2
<1>4. \A m, n \in 1..Len(s) : from(m) = from(n) => m = n
  BY <1>1
<1> HIDE DEF from
<1> QED BY <1>1, <1>3, <1>4

\* The cache has the first inputs of the record, all of them until it is full.
LEMMA CacheFacts ==
  ASSUME cache \in Seq(Entry), used \in Seq(InputSet), CacheIsMostRecent
  PROVE  /\ DOMAIN cache = 1..Len(cache) /\ Len(cache) \in Nat
         /\ DOMAIN used = 1..Len(used) /\ Len(used) \in Nat
         /\ Capacity \in Nat /\ Capacity >= 1
         /\ \/ Len(used) < Capacity /\ Len(cache) = Len(used)
            \/ Len(used) >= Capacity /\ Len(cache) = Capacity
         /\ \A n \in 1..Len(cache) :
              n \in 1..Len(used) /\ cache[n] = EntryOf(used[n])
<1>1. /\ DOMAIN cache = 1..Len(cache) /\ Len(cache) \in Nat
      /\ DOMAIN used = 1..Len(used) /\ Len(used) \in Nat
      /\ Capacity \in Nat /\ Capacity >= 1
  BY LenProperties, CapacityAssumption
<1>2. Len(cache) = IF Len(used) < Capacity THEN Len(used) ELSE Capacity
  BY DEF CacheIsMostRecent
<1>3. \A c, u, k \in Nat :
        c = (IF u < k THEN u ELSE k) => (u < k /\ c = u) \/ (u >= k /\ c = k)
  OBVIOUS
<1>4. \A n \in 1..Len(cache) : cache[n] = EntryOf(used[n])
  BY <1>1 DEF CacheIsMostRecent, EntryOf
<1>5. \A c, u, k \in Nat :
        c = (IF u < k THEN u ELSE k) => \A n \in 1..c : n \in 1..u
  OBVIOUS
<1> QED BY <1>1, <1>2, <1>3, <1>4, <1>5

\* A hit puts one input in front of both the cache and the record.
LEMMA HitKeepsCache ==
  ASSUME cache \in Seq(Entry), used \in Seq(InputSet), UsedOnce, CacheIsMostRecent,
         NEW i \in DOMAIN cache, cache' = Get(i), Use(cache[i].input)
  PROVE  /\ cache' \in Seq(Entry) /\ Len(cache') = Len(cache)
         /\ used' \in Seq(InputSet) /\ Len(used') = Len(used)
         /\ UsedOnce' /\ CacheIsMostRecent'
<1>1. /\ DOMAIN cache = 1..Len(cache) /\ Len(cache) \in Nat
      /\ DOMAIN used = 1..Len(used) /\ Len(used) \in Nat
      /\ \A n \in 1..Len(cache) :
           n \in 1..Len(used) /\ cache[n] = EntryOf(used[n])
  BY CacheFacts
<1>3. i \in DOMAIN used /\ used[i] = cache[i].input
  BY <1>1 DEF EntryOf
<1>4. used' = ToFront(used, i)
  BY <1>3 DEF Use, UsedOnce
<1>5. cache' = ToFront(cache, i)
  BY DEF Get
<1>6. /\ used' \in Seq(InputSet) /\ Len(used') = Len(used)
      /\ cache' \in Seq(Entry) /\ Len(cache') = Len(cache)
  BY <1>3, <1>4, <1>5, ToFrontFacts
<1>7. UsedOnce'
  BY <1>3, <1>4, ToFrontOnce DEF UsedOnce
<1>9. \A n \in 1..Len(cache) : cache'[n] = EntryOf(used'[n])
  <2>1. \A n \in 1..Len(cache) :
          cache'[n] = IF n = 1 THEN cache[i] ELSE IF n <= i THEN cache[n - 1] ELSE cache[n]
    BY <1>5, ToFrontFacts
  <2>2. \A n \in 1..Len(used) :
          used'[n] = IF n = 1 THEN used[i] ELSE IF n <= i THEN used[n - 1] ELSE used[n]
    BY <1>3, <1>4, ToFrontFacts
  <2>3. \A n \in 1..Len(cache) : n \in 1..Len(used) /\ (n # 1 => n - 1 \in 1..Len(cache))
    BY <1>1
  <2> QED BY <2>1, <2>2, <2>3, <1>1
<1>10. DOMAIN cache' = 1..Len(cache)
  BY <1>6, LenProperties
<1>11. CacheIsMostRecent'
  BY <1>6, <1>9, <1>10 DEF CacheIsMostRecent, EntryOf
<1> QED BY <1>6, <1>7, <1>11

\* An input that missed is put in front of both; the cache drops its last entry
\* if it is full.
LEMMA AddKeepsCache ==
  ASSUME cache \in Seq(Entry), used \in Seq(InputSet), UsedOnce, CacheIsMostRecent,
         NEW input \in InputSet, Misses(input),
         cache' = Push(EntryOf(input)), Use(input)
  PROVE  /\ cache' \in Seq(Entry)
         /\ used' \in Seq(InputSet) /\ Len(used') >= Len(used)
         /\ UsedOnce' /\ CacheIsMostRecent'
         /\ Full => Len(used') > Capacity
<1> DEFINE c == Len(cache)
           u == Len(used)
           m == IF Full THEN Capacity ELSE Len(cache) + 1
<1>1. /\ DOMAIN cache = 1..c /\ c \in Nat
      /\ DOMAIN used = 1..u /\ u \in Nat
      /\ Capacity \in Nat /\ Capacity >= 1
      /\ (u < Capacity /\ c = u) \/ (u >= Capacity /\ c = Capacity)
      /\ \A n \in 1..c : n \in 1..u /\ cache[n] = EntryOf(used[n])
  BY CacheFacts
<1>2. /\ Full <=> c = Capacity
      /\ Full => m = Capacity
      /\ ~Full => m = c + 1
  BY DEF Full
<1>3. cache' = [n \in 1..m |-> IF n = 1 THEN EntryOf(input) ELSE cache[n - 1]]
  BY DEF Push
<1>4. \A n \in 1..c : cache[n].input # input
  BY <1>1 DEF Misses
<1> HIDE DEF c, u, m
<1>5. /\ m \in Nat /\ m <= c + 1
      /\ Full => m = Capacity /\ u >= Capacity /\ c = Capacity
      /\ ~Full => m = u + 1 /\ m <= Capacity /\ c = u
  BY <1>1, <1>2
<1>6. \A n \in 1..c : used[n] # input
  BY <1>1, <1>4 DEF EntryOf
<1>7. EntryOf(input) \in Entry
  BY DEF EntryOf, Entry, Hash, HashSet
<1>8. /\ cache' \in Seq(Entry) /\ Len(cache') = m
      /\ DOMAIN cache' = 1..m
      /\ \A n \in 1..m : cache'[n] = IF n = 1 THEN EntryOf(input) ELSE cache[n - 1]
  <2>1. m <= Len(cache) + 1
    BY <1>5 DEF c
  <2>2. /\ cache' \in Seq(Entry) /\ Len(cache') = m
        /\ \A n \in 1..m : cache'[n] = IF n = 1 THEN EntryOf(input) ELSE cache[n - 1]
    BY <2>1, <1>3, <1>5, <1>7, InFrontFacts
  <2> QED BY <2>2, LenProperties
<1>9. ASSUME NEW i \in DOMAIN used, used[i] = input, used' = ToFront(used, i)
      PROVE  /\ used' \in Seq(InputSet) /\ Len(used') = u
             /\ UsedOnce' /\ Full /\ u > Capacity
             /\ \A n \in 1..m : used'[n] = IF n = 1 THEN input ELSE used[n - 1]
  <2>1. used' \in Seq(InputSet) /\ Len(used') = u
    BY <1>9, ToFrontFacts DEF u
  <2>2. UsedOnce'
    BY <1>9, ToFrontOnce DEF UsedOnce
  <2>3. i \in 1..u /\ i \notin 1..c
    BY <1>1, <1>6, <1>9
  <2>4. Full /\ i > Capacity /\ u > Capacity
    BY <2>3, <1>1, <1>5
  <2>5. \A n \in 1..u :
          used'[n] = IF n = 1 THEN used[i] ELSE IF n <= i THEN used[n - 1] ELSE used[n]
    BY <1>9, ToFrontFacts DEF u
  <2>6. \A n \in 1..m : n \in 1..u /\ n <= i
    BY <2>3, <2>4, <1>1, <1>5
  <2> QED BY <2>1, <2>2, <2>4, <2>5, <2>6, <1>9
<1>10. ASSUME \A i \in DOMAIN used : used[i] # input,
              used' = [n \in 1..(Len(used) + 1) |-> IF n = 1 THEN input ELSE used[n - 1]]
       PROVE  /\ used' \in Seq(InputSet) /\ Len(used') = u + 1
              /\ UsedOnce'
              /\ \A n \in 1..m : used'[n] = IF n = 1 THEN input ELSE used[n - 1]
  <2>1. u + 1 \in Nat /\ u + 1 <= Len(used) + 1
    <3>1. u + 1 \in Nat /\ u + 1 <= u + 1
      BY <1>1
    <3>2. u = Len(used)
      BY DEF u
    <3> QED BY <3>1, <3>2
  <2>2. used' = [n \in 1..(u + 1) |-> IF n = 1 THEN input ELSE used[n - 1]]
    BY <1>10 DEF u
  <2>3. /\ used' \in Seq(InputSet) /\ Len(used') = u + 1
        /\ \A n \in 1..(u + 1) : used'[n] = IF n = 1 THEN input ELSE used[n - 1]
    BY <2>1, <2>2, InFrontFacts
  <2>4. DOMAIN used' = 1..(u + 1)
    BY <2>3, LenProperties
  <2>5. \A k \in 1..(u + 1) : k = 1 \/ k - 1 \in DOMAIN used
    BY <1>1
  <2>6. \A k, n \in 1..(u + 1) : used'[k] = used'[n] => k = n
    <3> SUFFICES ASSUME NEW k \in 1..(u + 1), NEW n \in 1..(u + 1), used'[k] = used'[n]
                 PROVE  k = n
      OBVIOUS
    <3>1. CASE k = 1 \/ n = 1
      BY <3>1, <2>3, <2>5, <1>10
    <3>2. CASE k # 1 /\ n # 1
      <4>1. k - 1 \in DOMAIN used /\ n - 1 \in DOMAIN used
        BY <3>2, <2>5
      <4>2. used[k - 1] = used[n - 1]
        BY <3>2, <2>3
      <4>3. k - 1 = n - 1
        BY <4>1, <4>2 DEF UsedOnce
      <4> QED BY <4>3, <1>1
    <3> QED BY <3>1, <3>2
  <2>7. UsedOnce'
    BY <2>4, <2>6 DEF UsedOnce
  <2>8. \A n \in 1..m : n \in 1..(u + 1)
    BY <1>1, <1>5
  <2> QED BY <2>3, <2>7, <2>8
<1> DEFINE v == Len(used')
<1>11. /\ used' \in Seq(InputSet) /\ UsedOnce'
       /\ \A n \in 1..m : used'[n] = IF n = 1 THEN input ELSE used[n - 1]
       /\ (v = u /\ Full /\ u > Capacity) \/ v = u + 1
  <2>1. CASE \E i \in DOMAIN used : used[i] = input /\ used' = ToFront(used, i)
    BY <2>1, <1>9
  <2>2. CASE /\ \A i \in DOMAIN used : used[i] # input
             /\ used' = [n \in 1..(Len(used) + 1) |-> IF n = 1 THEN input ELSE used[n - 1]]
    BY <2>2, <1>10
  <2> QED BY <2>1, <2>2 DEF Use
<1> HIDE DEF v
<1>12. /\ (v < Capacity /\ m = v) \/ (v >= Capacity /\ m = Capacity)
       /\ Full => v > Capacity
       /\ v \in Nat /\ v >= u
  BY <1>1, <1>5, <1>11
<1>13. \A n \in 1..m : cache'[n] = EntryOf(used'[n])
  <2> SUFFICES ASSUME NEW n \in 1..m
               PROVE  cache'[n] = EntryOf(used'[n])
    OBVIOUS
  <2>1. CASE n = 1
    BY <2>1, <1>8, <1>11
  <2>2. CASE n # 1
    <3>1. n - 1 \in 1..c
      BY <1>1, <1>5, <2>2
    <3>2. cache'[n] = cache[n - 1] /\ used'[n] = used[n - 1]
      BY <2>2, <1>8, <1>11
    <3> QED BY <3>1, <3>2, <1>1
  <2> QED BY <2>1, <2>2
<1>14. m = IF v < Capacity THEN v ELSE Capacity
  BY <1>1, <1>12
<1>15. CacheIsMostRecent'
  BY <1>8, <1>13, <1>14 DEF CacheIsMostRecent, EntryOf, v
<1>16. Len(used') >= Len(used) /\ (Full => Len(used') > Capacity)
  BY <1>12 DEF u, v
<1> QED BY <1>8, <1>11, <1>15, <1>16

-----------------------------------------------------------------------------
(* The invariant. *)

\* The first lookup of every thread, before the cache holds anything.
LEMMA InitInvariant == LookupInit => IInv
<1> SUFFICES ASSUME LookupInit PROVE IInv
  OBVIOUS
<1>1. First \in Request /\ First \in [space: Space, page: Page, last: Last]
  BY RequestAssumption DEF First
<1>2. <<>> \in Seq(Entry) /\ <<>> \in Seq(InputSet) /\ Len(<<>>) = 0 /\ DOMAIN <<>> = {}
  BY EmptySeq, LenProperties
<1>3. Capacity \in Nat /\ Capacity >= 1
  BY CapacityAssumption
<1>4. cache = <<>> /\ used = <<>>
  BY DEF LookupInit
<1>5. LookupTypeOK
  <2>1. Len(cache) <= Capacity
    BY <1>2, <1>3, <1>4
  <2>2. pc \in [Thread -> Place] /\ asked \in [Thread -> Request]
    BY <1>1 DEF LookupInit, Place
  <2>3. lookups \in [Thread -> 0..MaxLookups] /\ warned \in Nat
    BY LookupsAssumption DEF LookupInit
  <2>4. poisoned \in BOOLEAN /\ logged \in BOOLEAN /\ holder \in Thread \cup {Nobody}
    BY DEF LookupInit
  <2> QED BY <2>1, <2>2, <2>3, <2>4 DEF LookupTypeOK
<1>6. mapped \in [Thread -> [page: HashSet, last: Last]]
  BY <1>1 DEF LookupInit, SlotOf, MapAddress, Hash, Input, HashSet, InputSet
<1>7. HolderIsInside /\ MissesLast /\ ReturnedIsMapped
  BY NobodyAssumption DEF LookupInit, HolderIsInside, MissesLast, ReturnedIsMapped, Critical
<1>8. UsedOnce
  BY <1>2, <1>4 DEF UsedOnce
<1>9. CacheIsMostRecent
  <2>1. Len(cache) = 0 /\ Len(used) = 0 /\ DOMAIN cache = {}
    BY <1>2, <1>4
  <2>2. Len(cache) = IF Len(used) < Capacity THEN Len(used) ELSE Capacity
    BY <2>1, <1>3
  <2> QED BY <2>1, <2>2 DEF CacheIsMostRecent
<1>10. WarningIsDue
  BY DEF LookupInit, WarningIsDue
<1> QED BY <1>2, <1>4, <1>5, <1>6, <1>7, <1>8, <1>9, <1>10 DEF IInv
\* A step that leaves cache, record and flag alone, and moves one thread that is
\* outside of the mutex to a place outside of it, or to where it returns with
\* the slot of its key.
LEMMA OutsideKeeps ==
  ASSUME IInv, NEW t \in Thread, pc[t] \notin Critical,
         NEW place \in Place \ Critical, pc' = [pc EXCEPT ![t] = place],
         asked' \in [Thread -> Request],
         \A u \in Thread \ {t} : asked'[u] = asked[u] /\ mapped'[u] = mapped[u],
         mapped' \in [Thread -> [page: HashSet, last: Last]],
         place = "returned" => mapped'[t] = SlotOf(asked'[t]),
         lookups' \in [Thread -> 0..MaxLookups],
         UNCHANGED cacheVars
  PROVE  IInv'
<1>1. /\ pc' \in [Thread -> Place] /\ pc'[t] = place /\ place \notin Critical
      /\ \A u \in Thread \ {t} : pc'[u] = pc[u]
      /\ pc \in [Thread -> Place]
  BY DEF IInv, LookupTypeOK
<1>2. /\ cache' = cache /\ holder' = holder /\ poisoned' = poisoned
      /\ logged' = logged /\ warned' = warned /\ used' = used
  BY DEF cacheVars
<1>3. LookupTypeOK'
  BY <1>1, <1>2 DEF IInv, LookupTypeOK
<1>4. HolderIsInside'
  BY <1>1, <1>2 DEF IInv, HolderIsInside
<1>5. MissesLast'
  BY <1>1, <1>2 DEF IInv, MissesLast, Critical, Misses
<1>6. WarningIsDue'
  BY <1>1, <1>2 DEF IInv, WarningIsDue, Critical
<1>7. ReturnedIsMapped'
  BY <1>1 DEF IInv, ReturnedIsMapped
<1>8. UsedOnce' /\ CacheIsMostRecent' /\ cache' \in Seq(Entry) /\ used' \in Seq(InputSet)
  BY <1>2 DEF IInv, UsedOnce, CacheIsMostRecent
<1> QED BY <1>3, <1>4, <1>5, <1>6, <1>7, <1>8 DEF IInv

\* The thread with the mutex releases it: by returning with the slot of its key,
\* or in panic.
LEMMA ReleaseKeeps ==
  ASSUME IInv, NEW t \in Thread, pc[t] \in Critical,
         NEW place \in {"returned", "panicked"}, pc' = [pc EXCEPT ![t] = place],
         \/ place = "panicked" /\ mapped' = mapped
         \/ mapped' = [mapped EXCEPT ![t] = SlotOf(asked[t])],
         holder' = Nobody, UNCHANGED <<asked, lookups>>,
         poisoned' \in BOOLEAN, logged' \in BOOLEAN, warned' \in Nat,
         cache' \in Seq(Entry), used' \in Seq(InputSet),
         UsedOnce', CacheIsMostRecent',
         Len(used') >= Len(used),
         logged' => logged \/ Len(used') > Capacity,
         warned' <= 1, warned' = 1 => logged'
  PROVE  IInv'
<1>1. /\ pc' \in [Thread -> Place] /\ pc'[t] = place /\ place \notin Critical
      /\ \A u \in Thread \ {t} : pc'[u] = pc[u]
      /\ pc \in [Thread -> Place]
  BY DEF IInv, LookupTypeOK, Place, Critical
<1>2. \A u \in Thread : pc'[u] \notin Critical
  BY <1>1 DEF IInv, HolderIsInside
<1>3. holder' = Nobody /\ Nobody \notin Thread
  BY NobodyAssumption
<1>4. Len(cache') <= Capacity
  <2>1. \A u \in Nat : (IF u < Capacity THEN u ELSE Capacity) <= Capacity
    BY CapacityAssumption
  <2>2. Len(used') \in Nat
    BY LenProperties
  <2> QED BY <2>1, <2>2 DEF CacheIsMostRecent
<1>5. LookupTypeOK'
  BY <1>1, <1>3, <1>4 DEF IInv, LookupTypeOK
<1>6. HolderIsInside'
  BY <1>2, <1>3 DEF HolderIsInside
<1>7. MissesLast'
  BY <1>2 DEF MissesLast, Critical
<1>8. WarningIsDue'
  <2>1. Len(used) \in Nat /\ Len(used') \in Nat /\ Capacity \in Nat
    BY LenProperties, CapacityAssumption DEF IInv
  <2>2. \A u \in Thread : pc'[u] # "evicted"
    BY <1>2 DEF Critical
  <2>3. logged => Len(used) > Capacity
    BY DEF IInv, WarningIsDue
  <2>4. logged' => Len(used') > Capacity
    BY <2>1, <2>3
  <2> QED BY <2>2, <2>4 DEF WarningIsDue
<1>9. SlotOf(asked[t]) \in [page: HashSet, last: Last]
  BY RequestAssumption
     DEF IInv, LookupTypeOK, SlotOf, MapAddress, Hash, Input, HashSet, InputSet
<1>10. mapped' \in [Thread -> [page: HashSet, last: Last]]
  BY <1>9 DEF IInv
<1>11. ReturnedIsMapped'
  BY <1>1 DEF IInv, ReturnedIsMapped
<1> QED BY <1>5, <1>6, <1>7, <1>8, <1>10, <1>11 DEF IInv
\* What a thread looks up, and where it finds it.
LEMMA LookupTypes ==
  ASSUME IInv, NEW t \in Thread
  PROVE  /\ Input(asked[t]) \in InputSet
         /\ SlotOf(asked[t]) \in [page: HashSet, last: Last]
         /\ MapAddress(Hash(Input(asked[t])), asked[t]) = SlotOf(asked[t])
BY RequestAssumption
   DEF IInv, LookupTypeOK, SlotOf, MapAddress, Hash, Input, HashSet, InputSet

\* A lookup begins: outside of the mutex.
LEMMA StartKeeps ==
  ASSUME IInv, NEW t \in Thread, NEW r \in Request, Start(t, r)
  PROVE  IInv'
<1> DEFINE place == IF r.space \in Cached THEN "waiting" ELSE "uncached"
<1>1. place \in Place \ Critical /\ place # "returned" /\ pc[t] \notin Critical
  BY DEF Start, Place, Critical
<1>2. pc' = [pc EXCEPT ![t] = place] /\ mapped' = mapped /\ UNCHANGED cacheVars
  BY DEF Start
<1>3. /\ asked' \in [Thread -> Request]
      /\ \A u \in Thread \ {t} : asked'[u] = asked[u]
  BY DEF Start, IInv, LookupTypeOK
<1>4. lookups' \in [Thread -> 0..MaxLookups]
  BY LookupsAssumption DEF Start, IInv, LookupTypeOK
<1> HIDE DEF place
<1>5. mapped' \in [Thread -> [page: HashSet, last: Last]]
  BY <1>2 DEF IInv
<1> QED BY <1>1, <1>2, <1>3, <1>4, <1>5, OutsideKeeps

\* A storage without the cache returns with the slot of the key.
LEMMA HashUncachedKeeps ==
  ASSUME IInv, NEW t \in Thread, HashUncached(t)
  PROVE  IInv'
<1>1. pc[t] \notin Critical /\ "returned" \in Place \ Critical
  BY DEF HashUncached, Place, Critical
<1>2. /\ pc' = [pc EXCEPT ![t] = "returned"]
      /\ mapped' = [mapped EXCEPT ![t] = SlotOf(asked[t])]
      /\ asked' = asked /\ lookups' = lookups /\ UNCHANGED cacheVars
  BY LookupTypes DEF HashUncached, Finds
<1>3. /\ asked' \in [Thread -> Request] /\ lookups' \in [Thread -> 0..MaxLookups]
      /\ mapped \in [Thread -> [page: HashSet, last: Last]]
  BY <1>2 DEF IInv, LookupTypeOK
<1>4. /\ mapped' \in [Thread -> [page: HashSet, last: Last]]
      /\ \A u \in Thread \ {t} : mapped'[u] = mapped[u]
      /\ mapped'[t] = SlotOf(asked[t])
  BY <1>2, <1>3, LookupTypes
<1>5. SlotOf(asked'[t]) = SlotOf(asked[t])
  BY <1>2
<1> QED BY <1>1, <1>2, <1>3, <1>4, <1>5, OutsideKeeps

\* Waiting for a poisoned mutex ends in panic, and what returned or panicked
\* goes on; nothing but the place of the thread changes.
LEMMA MoveKeeps ==
  ASSUME IInv, NEW t \in Thread, LockPoisoned(t) \/ Resume(t)
  PROVE  IInv'
<1> DEFINE place == IF LockPoisoned(t) THEN "panicked" ELSE "idle"
<1>1. /\ place \in Place \ Critical /\ place # "returned" /\ pc[t] \notin Critical
      /\ pc' = [pc EXCEPT ![t] = place]
      /\ asked' = asked /\ mapped' = mapped /\ lookups' = lookups
      /\ UNCHANGED cacheVars
  BY DEF LockPoisoned, Resume, Place, Critical
<1>2. /\ asked' \in [Thread -> Request] /\ lookups' \in [Thread -> 0..MaxLookups]
      /\ mapped' \in [Thread -> [page: HashSet, last: Last]]
  BY <1>1 DEF IInv, LookupTypeOK
<1> HIDE DEF place
<1> QED BY <1>1, <1>2, OutsideKeeps

\* The mutex is free, and has one holder after.
LEMMA LockKeeps ==
  ASSUME IInv, NEW t \in Thread, Lock(t)
  PROVE  IInv'
<1>1. /\ pc' \in [Thread -> Place] /\ pc'[t] = "locked"
      /\ \A u \in Thread \ {t} : pc'[u] = pc[u]
  BY DEF IInv, LookupTypeOK, Lock, Place
<1>2. /\ holder = Nobody /\ holder' = t /\ asked' = asked /\ mapped' = mapped
      /\ cache' = cache /\ used' = used /\ poisoned' = poisoned
      /\ logged' = logged /\ warned' = warned /\ lookups' = lookups
  BY DEF Lock, LockFree
<1>3. \A u \in Thread : pc[u] \notin Critical
  BY <1>2, NobodyAssumption DEF IInv, HolderIsInside
<1>4. LookupTypeOK'
  BY <1>1, <1>2 DEF IInv, LookupTypeOK
<1>5. HolderIsInside'
  BY <1>1, <1>2, <1>3 DEF HolderIsInside, Critical
<1>6. MissesLast'
  BY <1>1, <1>3 DEF MissesLast, Critical
<1>7. WarningIsDue'
  BY <1>1, <1>2 DEF IInv, WarningIsDue
<1>8. ReturnedIsMapped'
  BY <1>1, <1>2 DEF IInv, ReturnedIsMapped
<1>9. UsedOnce' /\ CacheIsMostRecent'
  BY <1>2 DEF IInv, UsedOnce, CacheIsMostRecent
<1> QED BY <1>2, <1>4, <1>5, <1>6, <1>7, <1>8, <1>9 DEF IInv

\* A hit returns with the slot of the key and releases the mutex.
LEMMA HitKeeps ==
  ASSUME IInv, NEW t \in Thread, Hit(t)
  PROVE  IInv'
<1>1. PICK i \in DOMAIN cache : /\ cache[i].input = Input(asked[t])
                                /\ Finds(t, cache[i].hash)
                                /\ cache' = Get(i)
  BY DEF Hit
<1>2. /\ Use(cache[i].input) /\ pc[t] \in Critical
      /\ asked' = asked /\ lookups' = lookups /\ poisoned' = poisoned
      /\ logged' = logged /\ warned' = warned /\ holder' = Nobody
  BY <1>1 DEF Hit, AfterHit, Critical
<1>3. /\ cache \in Seq(Entry) /\ used \in Seq(InputSet)
      /\ UsedOnce /\ CacheIsMostRecent
  BY DEF IInv
<1>4. /\ cache' \in Seq(Entry) /\ used' \in Seq(InputSet) /\ Len(used') = Len(used)
      /\ UsedOnce' /\ CacheIsMostRecent'
  BY <1>1, <1>2, <1>3, HitKeepsCache
<1>5. cache[i].hash = Hash(Input(asked[t]))
  <2>1. cache[i] = EntryOf(used[i])
    BY <1>3, CacheFacts
  <2> QED BY <1>1, <2>1 DEF EntryOf
<1>6. /\ pc' = [pc EXCEPT ![t] = "returned"]
      /\ mapped' = [mapped EXCEPT ![t] = SlotOf(asked[t])]
  BY <1>1, <1>5, LookupTypes DEF Finds
<1>7. Len(used') >= Len(used)
  BY <1>3, <1>4, LenProperties
<1>8. /\ poisoned' \in BOOLEAN /\ logged' \in BOOLEAN /\ warned' \in Nat
      /\ warned' <= 1 /\ (warned' = 1 => logged') /\ (logged' => logged)
  BY <1>2 DEF IInv, LookupTypeOK, WarningIsDue
<1> QED BY <1>2, <1>4, <1>6, <1>7, <1>8, ReleaseKeeps

\* Nobody else can add the input before the holder does.
LEMMA MissKeeps ==
  ASSUME IInv, NEW t \in Thread, Miss(t)
  PROVE  IInv'
<1>1. /\ pc' \in [Thread -> Place] /\ pc[t] = "locked" /\ pc'[t] = "missed"
      /\ \A u \in Thread \ {t} : pc'[u] = pc[u]
  BY DEF IInv, LookupTypeOK, Miss, Place
<1>2. /\ asked' = asked /\ mapped' = mapped /\ lookups' = lookups
      /\ cache' = cache /\ holder' = holder /\ poisoned' = poisoned
      /\ logged' = logged /\ warned' = warned /\ used' = used
  BY DEF Miss, cacheVars
<1>3. LookupTypeOK'
  BY <1>1, <1>2 DEF IInv, LookupTypeOK
<1>4. HolderIsInside'
  BY <1>1, <1>2 DEF IInv, HolderIsInside, Critical
<1>5. MissesLast'
  BY <1>1, <1>2 DEF IInv, MissesLast, Miss, Misses
<1>6. WarningIsDue' /\ ReturnedIsMapped'
  BY <1>1, <1>2 DEF IInv, WarningIsDue, ReturnedIsMapped
<1>7. UsedOnce' /\ CacheIsMostRecent'
  BY <1>2 DEF IInv, UsedOnce, CacheIsMostRecent
<1> QED BY <1>2, <1>3, <1>4, <1>5, <1>6, <1>7 DEF IInv
\* A new entry is added; the thread is done, unless it dropped another one.
LEMMA AddKeeps ==
  ASSUME IInv, NEW t \in Thread, Add(t)
  PROVE  IInv'
<1> DEFINE input == Input(asked[t])
<1>1. /\ pc[t] = "missed" /\ pc[t] \in Critical
      /\ cache' = Push(EntryOf(input)) /\ Use(input)
      /\ asked' = asked /\ lookups' = lookups /\ poisoned' = poisoned
      /\ logged' = logged /\ warned' = warned
  BY DEF Add, EntryOf, Critical
<1>2. /\ cache \in Seq(Entry) /\ used \in Seq(InputSet)
      /\ UsedOnce /\ CacheIsMostRecent
      /\ input \in InputSet /\ Misses(input)
  BY <1>1, LookupTypes DEF IInv, MissesLast
<1>3. /\ cache' \in Seq(Entry)
      /\ used' \in Seq(InputSet) /\ Len(used') >= Len(used)
      /\ UsedOnce' /\ CacheIsMostRecent'
      /\ Full => Len(used') > Capacity
  BY <1>1, <1>2, AddKeepsCache
<1>4. /\ poisoned' \in BOOLEAN /\ logged' \in BOOLEAN /\ warned' \in Nat
      /\ warned' <= 1 /\ (warned' = 1 => logged') /\ (logged' => logged)
  BY <1>1 DEF IInv, LookupTypeOK, WarningIsDue
<1>5. CASE ~Full
  <2>1. Finds(t, Hash(input)) /\ holder' = Nobody
    BY <1>5 DEF Add
  <2>2. /\ pc' = [pc EXCEPT ![t] = "returned"]
        /\ mapped' = [mapped EXCEPT ![t] = SlotOf(asked[t])]
    BY <2>1, LookupTypes DEF Finds
  <2> QED BY <1>1, <1>3, <1>4, <2>1, <2>2, ReleaseKeeps
<1>6. CASE Full
  <2>1. /\ pc' = [pc EXCEPT ![t] = "evicted"]
        /\ mapped' = mapped /\ holder' = holder
    BY <1>6 DEF Add
  <2>2. /\ pc' \in [Thread -> Place] /\ pc'[t] = "evicted"
        /\ \A u \in Thread \ {t} : pc'[u] = pc[u]
    BY <2>1 DEF IInv, LookupTypeOK, Place
  <2>3. \A u \in Thread \ {t} : pc'[u] \notin Critical
    BY <1>1, <2>2 DEF IInv, HolderIsInside
  <2>4. Len(cache') <= Capacity
    <3>1. \A u \in Nat : (IF u < Capacity THEN u ELSE Capacity) <= Capacity
      BY CapacityAssumption
    <3>2. Len(used') \in Nat
      BY <1>3, LenProperties
    <3> QED BY <1>3, <3>1, <3>2 DEF CacheIsMostRecent
  <2>5. LookupTypeOK'
    BY <1>1, <1>4, <2>1, <2>2, <2>4 DEF IInv, LookupTypeOK
  <2>6. HolderIsInside'
    BY <1>1, <2>1, <2>2 DEF IInv, HolderIsInside, Critical
  <2>7. MissesLast'
    BY <2>2, <2>3 DEF MissesLast, Critical
  <2>8. WarningIsDue'
    <3>1. Len(used') > Capacity
      BY <1>3, <1>6
    <3> QED BY <1>4, <3>1 DEF WarningIsDue
  <2>9. ReturnedIsMapped'
    BY <1>1, <2>1, <2>2 DEF IInv, ReturnedIsMapped
  <2>10. mapped' \in [Thread -> [page: HashSet, last: Last]]
    BY <2>1 DEF IInv
  <2> QED BY <1>3, <2>5, <2>6, <2>7, <2>8, <2>9, <2>10 DEF IInv
<1> QED BY <1>5, <1>6

\* The flag lets one thread warn, and only threads that dropped an entry ask it.
LEMMA WarnKeeps ==
  ASSUME IInv, NEW t \in Thread, Warn(t) \/ WarnPanics(t)
  PROVE  IInv'
<1>1. /\ pc[t] = "evicted" /\ pc[t] \in Critical /\ holder' = Nobody
      /\ asked' = asked /\ lookups' = lookups /\ logged' = TRUE
      /\ cache' = cache /\ used' = used
  BY DEF Warn, WarnPanics, Critical
<1>2. /\ cache' \in Seq(Entry) /\ used' \in Seq(InputSet)
      /\ UsedOnce' /\ CacheIsMostRecent'
  BY <1>1 DEF IInv, UsedOnce, CacheIsMostRecent
<1>3. Len(used') >= Len(used) /\ Len(used') > Capacity
  <2>1. Len(used) > Capacity /\ Len(used) \in Nat
    BY <1>1, LenProperties DEF IInv, WarningIsDue
  <2> QED BY <1>1, <2>1
<1>4. warned \in Nat /\ warned <= 1 /\ (~logged => warned = 0) /\ poisoned \in BOOLEAN
  BY DEF IInv, LookupTypeOK, WarningIsDue
<1>5. CASE Warn(t)
  <2>1. /\ pc' = [pc EXCEPT ![t] = "returned"]
        /\ mapped' = [mapped EXCEPT ![t] = SlotOf(asked[t])]
    BY <1>5, LookupTypes DEF Warn, Finds
  <2>2. warned' \in Nat /\ warned' <= 1 /\ poisoned' \in BOOLEAN
    BY <1>4, <1>5 DEF Warn, WarnDue
  <2> QED BY <1>1, <1>2, <1>3, <2>1, <2>2, ReleaseKeeps
<1>6. CASE WarnPanics(t)
  <2>1. /\ pc' = [pc EXCEPT ![t] = "panicked"] /\ mapped' = mapped
        /\ warned' = warned /\ poisoned' = TRUE
    BY <1>6 DEF WarnPanics
  <2>2. warned' \in Nat /\ warned' <= 1 /\ poisoned' \in BOOLEAN
    BY <1>4, <2>1
  <2> QED BY <1>1, <1>2, <1>3, <2>1, <2>2, ReleaseKeeps
<1> QED BY <1>5, <1>6

\* Every step of every thread keeps the invariant.
LEMMA StepInvariant == IInv /\ [LookupNext]_lookupVars => IInv'
<1> SUFFICES ASSUME IInv, [LookupNext]_lookupVars PROVE IInv'
  OBVIOUS
<1>1. CASE UNCHANGED lookupVars
  BY <1>1 DEF lookupVars, IInv, LookupTypeOK, HolderIsInside, MissesLast, Misses, UsedOnce,
              CacheIsMostRecent, WarningIsDue, ReturnedIsMapped
<1>2. ASSUME NEW t \in Thread, NEW r \in Request, Start(t, r) PROVE IInv'
  BY <1>2, StartKeeps
<1>3. ASSUME NEW t \in Thread, Step(t) PROVE IInv'
  BY <1>3, HashUncachedKeeps, LockKeeps, MoveKeeps, HitKeeps, MissKeeps, AddKeeps,
     WarnKeeps DEF Step
<1>4. ASSUME NEW t \in Thread, Resume(t) PROVE IInv'
  BY <1>4, MoveKeeps
<1> QED BY <1>1, <1>2, <1>3, <1>4 DEF LookupNext

\* The invariant holds throughout.
THEOREM Invariance == LookupSpec => []IInv
<1> QED BY InitInvariant, StepInvariant, PTL DEF LookupSpec

-----------------------------------------------------------------------------
(* The properties. *)

\* The cache never grows over its capacity, and no thread leaves the places of
\* cached_keccak, whatever the schedule (LookupTypeOK).
THEOREM LookupsTypeCorrect == LookupSpec => []LookupTypeOK
<1>1. IInv => LookupTypeOK
  BY DEF IInv
<1> QED BY <1>1, Invariance, PTL

\* Any two lookups that returned found one slot exactly when they were of one
\* key of one space, through the cache or not (SlotsAreDistinct).
THEOREM SlotsDiffer == LookupSpec => []SlotsAreDistinct
<1>1. IInv => SlotsAreDistinct
  <2> SUFFICES ASSUME IInv, NEW t \in Thread, NEW u \in Thread,
                      pc[t] = "returned", pc[u] = "returned"
               PROVE  mapped[t] = mapped[u] <=> asked[t] = asked[u]
    BY DEF SlotsAreDistinct
  <2>1. mapped[t] = SlotOf(asked[t]) /\ mapped[u] = SlotOf(asked[u])
    BY DEF IInv, ReturnedIsMapped
  <2>2. /\ asked[t] \in [space: Space, page: Page, last: Last]
        /\ asked[u] \in [space: Space, page: Page, last: Last]
    BY RequestAssumption DEF IInv, LookupTypeOK
  <2> QED BY <2>1, <2>2 DEF SlotOf, MapAddress, Hash, Input
<1> QED BY <1>1, Invariance, PTL

\* The cache is the inputs used last, in their order, with their hashes, for any
\* number of threads and any capacity (CacheIsMostRecent).
THEOREM MostRecentAreCached == LookupSpec => []CacheIsMostRecent
<1>1. IInv => CacheIsMostRecent
  BY DEF IInv
<1> QED BY <1>1, Invariance, PTL

\* The warning is given once at most, and only when an entry had to go
\* (WarnsOnceWhenFull).
THEOREM WarningIsOnce == LookupSpec => []WarnsOnceWhenFull
<1>1. IInv => WarnsOnceWhenFull
  BY DEF IInv, WarningIsDue, WarnsOnceWhenFull
<1> QED BY <1>1, Invariance, PTL

-----------------------------------------------------------------------------
(* The cells: words.                                                       *)

\* The widths, in numbers.
LEMMA CellWidths ==
  /\ U16 \in Nat \ {0} /\ U24 \in Nat \ {0} /\ U32 \in Nat \ {0}
  /\ U64 \in Nat \ {0} /\ AddrSpace \in Nat \ {0} /\ Words \in Nat \ {0}
  /\ U16 <= Words /\ U24 <= Words /\ U32 <= Words /\ U64 <= Words
  /\ U64 \div 2 \in Nat \ {0} /\ U64 = 2 * (U64 \div 2)
  /\ Words \div 2 \in Nat \ {0} /\ Words = 2 * (Words \div 2)
  /\ AddrSpace <= Words \div 2
BY WidthAssumption

\* The types whose word is the number itself.
Plain == {"u16", "u24", "u32", "u64", "uint", "key", "raw"}

LEMMA KindsAre ==
  /\ DOMAIN Unsigned = Plain \cup {"addr"}
  /\ DOMAIN Signed = {"i64", "int"}
  /\ Kind = Plain \cup {"addr", "i64", "int", "addrOrNil", "bytes"}
BY DEF Unsigned, Signed, Kind, Plain

\* Two's complement of a width: negative numbers are the upper half.
LEMMA TwosComplement ==
  ASSUME NEW half \in Nat \ {0}, NEW v \in -half..(half - 1)
  PROVE  /\ v % (2 * half) \in 0..(2 * half - 1)
         /\ v < 0 <=> v % (2 * half) >= half
         /\ v >= 0 => v % (2 * half) = v
         /\ v < 0 => (v % (2 * half)) - 2 * half = v
<1> DEFINE s == 2 * half
<1>1. s \in Nat \ {0} /\ half < s
  OBVIOUS
<1>2. CASE v >= 0
  <2>1. v \in Nat /\ v < s
    BY <1>2
  <2> HIDE DEF s
  <2>2. v % s = v
    BY <1>1, <2>1
  <2> QED BY <1>2, <2>2 DEF s
<1>3. CASE v < 0
  <2> DEFINE a == v + s
  <2>1. a \in Nat /\ a < s /\ v = a - s /\ a >= half
    BY <1>3
  <2> HIDE DEF a, s
  <2>2. v % s = a
    BY <1>1, <2>1
  <2> QED BY <1>1, <1>3, <2>1, <2>2 DEF s
<1> QED BY <1>2, <1>3

\* What is written for a value is a word that its type reads as the value.
LEMMA EncodeDecode ==
  ASSUME NEW k \in Kind, NEW v \in Value(k)
  PROVE  /\ Encode(k, v) \in 0..(Words - 1)
         /\ ~DecodePanics(k, Encode(k, v))
         /\ Decode(k, Encode(k, v)) = v
<1>1. CASE k \in Plain
  <2>1. /\ k \in DOMAIN Unsigned /\ k \notin DOMAIN Signed
        /\ k # "addr" /\ k # "addrOrNil" /\ k # "i64"
    BY <1>1, KindsAre DEF Plain
  <2>2. v \in 0..(Unsigned[k] - 1)
    BY <2>1 DEF Value
  <2>3. Unsigned[k] \in Nat /\ Unsigned[k] <= Words
    BY <1>1, CellWidths DEF Plain, Unsigned
  <2>4. Encode(k, v) = v /\ Decode(k, v) = v
    BY <2>1 DEF Encode, Decode
  <2>5. v \in 0..(Words - 1) /\ ~(v >= Unsigned[k])
    BY <2>2, <2>3, CellWidths
  <2> QED BY <2>1, <2>4, <2>5 DEF DecodePanics
<1>2. CASE k \in {"i64", "int"}
  <2>1. k \in DOMAIN Signed /\ k \notin DOMAIN Unsigned /\ k # "addrOrNil" /\ k # "addr"
    BY <1>2, KindsAre DEF Plain
  <2> DEFINE half == Signed[k] \div 2
  <2>2. /\ half \in Nat \ {0} /\ Signed[k] = 2 * half
        /\ Signed[k] \in Nat /\ Signed[k] <= Words
        /\ k = "i64" => Signed[k] = U64
    BY <1>2, CellWidths DEF Signed
  <2>3. v \in -half..(half - 1)
    BY <2>1 DEF Value
  <2>4. Encode(k, v) = v % Signed[k]
    BY <2>1 DEF Encode
  <2>5. Decode(k, Encode(k, v)) =
          IF Encode(k, v) >= half THEN Encode(k, v) - Signed[k] ELSE Encode(k, v)
    BY <2>1 DEF Decode
  <2> HIDE DEF half
  <2>6. /\ Encode(k, v) \in 0..(Signed[k] - 1)
        /\ v < 0 <=> Encode(k, v) >= half
        /\ v >= 0 => Encode(k, v) = v
        /\ v < 0 => Encode(k, v) - Signed[k] = v
    <3>1. /\ v % (2 * half) \in 0..(2 * half - 1)
          /\ v < 0 <=> v % (2 * half) >= half
          /\ v >= 0 => v % (2 * half) = v
          /\ v < 0 => (v % (2 * half)) - 2 * half = v
      BY <2>2, <2>3, TwosComplement
    <3>2. v % (2 * half) = Encode(k, v) /\ 2 * half = Signed[k]
      BY <2>2, <2>4
    <3> QED BY Zenon, <3>1, <3>2
  <2>7. Decode(k, Encode(k, v)) = v
    BY <2>2, <2>3, <2>5, <2>6
  <2>8. Encode(k, v) \in 0..(Words - 1) /\ (k = "i64" => ~(Encode(k, v) >= U64))
    BY <2>2, <2>6, CellWidths
  <2>9. k \notin {"u16", "u24", "u32", "u64"}
    BY <1>2
  <2> QED BY <2>7, <2>8, <2>9 DEF DecodePanics
<1>3. CASE k = "addr"
  <2>1. v \in 0..(AddrSpace - 1)
    BY <1>3, KindsAre DEF Value, Unsigned
  <2>2. v \in Nat /\ v < AddrSpace /\ v % AddrSpace = v
    BY <2>1, CellWidths
  <2>3. Encode(k, v) = v /\ Decode(k, v) = v % AddrSpace
    BY <1>3, KindsAre DEF Encode, Decode, Plain
  <2>4. v \in 0..(Words - 1)
    BY <2>2, CellWidths
  <2> QED BY <1>3, <2>2, <2>3, <2>4 DEF DecodePanics
<1>4. CASE k = "addrOrNil"
  <2>1. v \in 0..(AddrSpace - 1) \/ v = None
    BY <1>4, KindsAre DEF Value, Plain
  <2>2. k \notin DOMAIN Signed /\ k \notin {"u16", "u24", "u32", "u64", "i64"}
    BY <1>4, KindsAre
  <2>3. Nil \in 0..(Words - 1) /\ AddrSpace <= Nil
    BY CellWidths DEF Nil
  <2>4. CASE v = None
    <3>1. Encode(k, v) = Nil /\ Decode(k, Nil) = None
      BY <1>4, <2>2, <2>4 DEF Encode, Decode
    <3> QED BY <2>2, <2>3, <2>4, <3>1 DEF DecodePanics
  <2>5. CASE v \in 0..(AddrSpace - 1)
    <3>1. v # None /\ v # Nil /\ v \in 0..(Words - 1) /\ v % AddrSpace = v
      BY <2>3, <2>5, CellWidths DEF None
    <3>2. Encode(k, v) = v /\ Decode(k, v) = v % AddrSpace
      BY <1>4, <2>2, <3>1 DEF Encode, Decode
    <3> QED BY <2>2, <3>1, <3>2 DEF DecodePanics
  <2> QED BY <2>1, <2>4, <2>5
<1>5. CASE k = "bytes"
  BY <1>5, KindsAre DEF Value, Plain
<1> QED BY <1>1, <1>2, <1>3, <1>4, <1>5, KindsAre

\* Fresh storage reads as zero, and as no string.
LEMMA FreshIsZero ==
  ASSUME NEW k \in Kind
  PROVE  ~DecodePanics(k, 0) /\ Decode(k, 0) = 0
<1>1. ~DecodePanics(k, 0)
  BY CellWidths DEF DecodePanics, Unsigned
<1>2. CASE k \in DOMAIN Signed
  <2>1. Signed[k] \div 2 \in Nat \ {0}
    BY <1>2, CellWidths, KindsAre DEF Signed
  <2> QED BY <1>1, <1>2, <2>1, KindsAre DEF Decode, Plain
<1>3. CASE k \notin DOMAIN Signed
  <2>1. 0 # Nil /\ 0 % AddrSpace = 0
    BY CellWidths DEF Nil
  <2> QED BY <1>1, <1>3, <2>1 DEF Decode
<1> QED BY <1>2, <1>3

\* The format before version 7 keeps the magnitude, except of the smallest number.
LEMMA MagnitudeDecodes ==
  ASSUME NEW v \in Value("int")
  PROVE  LET word == IF v < 0 THEN -v ELSE v
         IN  /\ word \in 0..(Words - 1)
             /\ ~DecodePanics("int", word)
             /\ Decode("int", word) =
                  IF v < 0 /\ -v \in Value("int") THEN -v ELSE v
<1> DEFINE word == IF v < 0 THEN -v ELSE v
           half == Words \div 2
<1>1. half \in Nat \ {0} /\ Words = 2 * half /\ Words \in Nat
  BY CellWidths
<1>2. Value("int") = -half..(half - 1)
  BY KindsAre DEF Value, Signed, Plain
<1>3. ~DecodePanics("int", word)
  BY DEF DecodePanics
<1>4. Decode("int", word) = IF word >= half THEN word - Words ELSE word
  BY KindsAre DEF Decode, Signed, Plain
<1> HIDE DEF half
<1>5. word \in 0..(Words - 1)
  BY <1>1, <1>2
<1>6. Decode("int", word) = IF v < 0 /\ -v \in Value("int") THEN -v ELSE v
  <2>1. CASE v < 0 /\ v # -half
    <3>1. -v \in Value("int") /\ word = -v /\ ~(-v >= half)
      BY <1>1, <1>2, <2>1
    <3> QED BY <1>4, <2>1, <3>1
  <2>2. CASE v = -half
    <3>1. -v \notin Value("int") /\ word = half /\ half - Words = v
      BY <1>1, <1>2, <2>2
    <3> QED BY <1>1, <1>4, <2>2, <3>1
  <2>3. CASE ~(v < 0)
    <3>1. word = v /\ ~(v >= half)
      BY <1>1, <1>2, <2>3
    <3> QED BY <1>4, <2>3, <3>1
  <2> QED BY <2>1, <2>2, <2>3, <1>2
<1> QED BY <1>3, <1>5, <1>6

-----------------------------------------------------------------------------
(* Strings of bytes.                                                       *)

\* A string has so many bytes.
LEMMA StringFacts ==
  ASSUME NEW b \in Strings
  PROVE  /\ Len(b) \in 0..MaxLen
         /\ b \in [1..Len(b) -> Byte]
         /\ \A n \in 1..Len(b) : b[n] \in Byte
<1>1. PICK n \in 0..MaxLen : b \in [1..n -> Byte]
  BY DEF Strings
<1>2. n \in Nat
  BY BytesAssumption
<1>3. b \in Seq(Byte) /\ Len(b) = n
  BY <1>1, <1>2
<1> QED BY <1>1, <1>3

LEMMA NoBytes == <<>> \in Strings /\ Len(<<>>) = 0
<1>1. <<>> \in [1..0 -> Byte]
  OBVIOUS
<1>2. 0 \in 0..MaxLen
  BY BytesAssumption
<1> QED BY <1>1, <1>2 DEF Strings

\* The words of so many bytes are just enough.
LEMMA WordsAreEnough ==
  ASSUME NEW n \in Nat
  PROVE  /\ ChunksOf(n) \in Nat
         /\ n <= ChunksOf(n) * ChunkSize
         /\ ChunksOf(n) * ChunkSize < n + ChunkSize
         /\ n = 0 => ChunksOf(n) = 0
         /\ n > 0 => ChunksOf(n) > 0
<1> DEFINE x == n + ChunkSize - 1
           i == x \div ChunkSize
<1>1. ChunkSize \in Nat \ {0} /\ x \in Nat
  BY BytesAssumption
<1>2. ChunksOf(n) = i
  BY DEF ChunksOf
<1>3. i \in Nat /\ i * ChunkSize <= x /\ x < i * ChunkSize + ChunkSize
  <2> HIDE DEF x
  <2> QED BY <1>1
<1> HIDE DEF i
<1> DEFINE m == i * ChunkSize
<1>4. m \in Nat
  BY <1>1, <1>3
<1>5. i = 0 => m = 0
  BY <1>1
<1>6. i > 0 => m >= ChunkSize
  BY <1>1, <1>3
<1>7. m <= x /\ x < m + ChunkSize
  BY <1>3
<1> HIDE DEF m
<1>8. n <= m /\ m < n + ChunkSize
  BY <1>1, <1>4, <1>7
<1>9. (n = 0 => i = 0) /\ (n > 0 => i > 0)
  BY <1>1, <1>3, <1>4, <1>5, <1>6, <1>8
<1> QED BY <1>2, <1>3, <1>8, <1>9 DEF m

\* Fewer bytes have no more words.
LEMMA WordsOfFewer ==
  ASSUME NEW n \in Nat, NEW m \in Nat, n <= m
  PROVE  ChunksOf(n) <= ChunksOf(m)
<1> DEFINE i == ChunksOf(n)
           k == ChunksOf(m)
<1>1. /\ i \in Nat /\ k \in Nat /\ ChunkSize \in Nat \ {0}
      /\ i * ChunkSize < n + ChunkSize /\ m <= k * ChunkSize
  BY WordsAreEnough, BytesAssumption
<1> HIDE DEF i, k
<1>2. i * ChunkSize \in Nat /\ k * ChunkSize \in Nat
  BY <1>1
<1>3. (i - 1) * ChunkSize = i * ChunkSize - ChunkSize
  BY <1>1
<1>4. (i - 1) * ChunkSize < k * ChunkSize
  BY <1>1, <1>2, <1>3
<1>5. i - 1 < k
  BY <1>1, <1>4
<1>6. i <= k
  BY <1>1, <1>5
<1> QED BY <1>6 DEF i, k

\* Each byte of a word comes from the string or is padding.
LEMMA WordIsTyped ==
  ASSUME NEW b \in Strings, NEW i \in 1..ChunksOf(Len(b))
  PROVE  WordOf(b, i) \in Chunk
<1> DEFINE len == Len(b)
           m == (i - 1) * ChunkSize
           P == Padding(len, i)
<1>1. /\ len \in Nat /\ ChunkSize \in Nat \ {0} /\ 0 \in Byte
      /\ ChunksOf(len) \in Nat
  BY StringFacts, WordsAreEnough, BytesAssumption
<1>2. i \in Nat /\ i >= 1 /\ i <= ChunksOf(len)
  BY <1>1
<1>3. i * ChunkSize = m + ChunkSize /\ m \in Nat
  BY <1>1, <1>2
<1> HIDE DEF m
<1>4. P = IF m + ChunkSize > len THEN m + ChunkSize - len ELSE 0
  <2> DEFINE q == i * ChunkSize
  <2>1. P = IF q > len THEN q - len ELSE 0
    BY DEF Padding
  <2>2. q = m + ChunkSize
    BY <1>3
  <2> HIDE DEF P, q
  <2> QED BY <1>1, <1>3, <2>1, <2>2
<1> HIDE DEF P
<1>5. ASSUME NEW j \in 1..ChunkSize, j > P PROVE m + j - P \in 1..len
  <2>1. CASE m + ChunkSize > len
    BY <1>1, <1>3, <1>4, <1>5, <2>1
  <2>2. CASE ~(m + ChunkSize > len)
    BY <1>1, <1>3, <1>4, <1>5, <2>2
  <2> QED BY <2>1, <2>2
<1>6. ASSUME NEW j \in 1..ChunkSize
      PROVE  (IF j > P THEN b[m + j - P] ELSE 0) \in Byte
  BY <1>1, <1>5, StringFacts
<1>7. WordOf(b, i) = [j \in 1..ChunkSize |-> IF j > P THEN b[m + j - P] ELSE 0]
  BY DEF WordOf, m, P
<1> QED BY <1>6, <1>7 DEF Chunk

\* What the two handlers leave, field by field.
LEMMA ClearBytesIs ==
  ASSUME NEW r \in Storage, NEW w \in Storage
  PROVE  ClearBytes(r, w) =
           [slot |-> w.slot, len |-> 0,
            chunk |-> [i \in Chunks |->
                         IF i <= ChunksOf(r.len) THEN ZeroChunk ELSE w.chunk[i]]]
<1>1. w = [slot |-> w.slot, len |-> w.len, chunk |-> w.chunk]
  BY DEF Storage
<1> DEFINE cleared == [i \in Chunks |->
                         IF i <= ChunksOf(r.len) THEN ZeroChunk ELSE w.chunk[i]]
<1>2. ClearBytes(r, w) = [w EXCEPT !.len = 0, !.chunk = cleared]
  BY DEF ClearBytes
<1> HIDE DEF cleared
<1>3. ClearBytes(r, w) = [slot |-> w.slot, len |-> 0, chunk |-> cleared]
  BY <1>1, <1>2
<1> QED BY <1>3 DEF cleared

LEMMA SetBytesIs ==
  ASSUME NEW r \in Storage, NEW w \in Storage, NEW b
  PROVE  SetBytes(r, w, b) =
           [slot |-> w.slot, len |-> Len(b),
            chunk |-> [i \in Chunks |->
                         IF i <= ChunksOf(Len(b)) THEN WordOf(b, i)
                         ELSE IF i <= ChunksOf(r.len) THEN ZeroChunk
                         ELSE w.chunk[i]]]
<1> DEFINE c == ClearBytes(r, w)
           cleared == [i \in Chunks |->
                         IF i <= ChunksOf(r.len) THEN ZeroChunk ELSE w.chunk[i]]
<1>1. c = [slot |-> w.slot, len |-> 0, chunk |-> cleared]
  BY ClearBytesIs
<1>2. SetBytes(r, w, b) =
        [c EXCEPT !.len = Len(b),
                  !.chunk = [i \in Chunks |->
                    IF i <= ChunksOf(Len(b)) THEN WordOf(b, i) ELSE c.chunk[i]]]
  BY DEF SetBytes
<1> HIDE DEF c
<1>3. c.chunk = cleared
  BY <1>1
<1>4. \A i \in Chunks :
        cleared[i] = IF i <= ChunksOf(r.len) THEN ZeroChunk ELSE w.chunk[i]
  OBVIOUS
<1> HIDE DEF cleared
<1>5. SetBytes(r, w, b) =
        [slot |-> w.slot, len |-> Len(b),
         chunk |-> [i \in Chunks |->
                      IF i <= ChunksOf(Len(b)) THEN WordOf(b, i) ELSE cleared[i]]]
  BY <1>1, <1>2, <1>3
<1> QED BY <1>4, <1>5

LEMMA SetBytesFields ==
  ASSUME NEW r \in Storage, NEW w \in Storage, NEW b
  PROVE  SetBytes(r, w, b).slot = w.slot /\ SetBytes(r, w, b).len = Len(b)
<1> DEFINE t == SetBytes(r, w, b)
           chunk == [i \in Chunks |->
                       IF i <= ChunksOf(Len(b)) THEN WordOf(b, i)
                       ELSE IF i <= ChunksOf(r.len) THEN ZeroChunk
                       ELSE w.chunk[i]]
<1>1. t = [slot |-> w.slot, len |-> Len(b), chunk |-> chunk]
  BY SetBytesIs
<1> HIDE DEF t, chunk
<1>2. t.slot = w.slot /\ t.len = Len(b)
  BY <1>1
<1> QED BY <1>2 DEF t

\* Both are storage again.
LEMMA BytesCallsAreTyped ==
  ASSUME NEW r \in Storage, NEW w \in Storage, NEW b \in Strings
  PROVE  ClearBytes(r, w) \in Storage /\ SetBytes(r, w, b) \in Storage
<1>1. ZeroChunk \in Chunk
  BY BytesAssumption DEF ZeroChunk, Chunk
<1>2. 0 \in 0..MaxLen /\ Len(b) \in 0..MaxLen /\ Len(b) \in Nat
  BY StringFacts, BytesAssumption
<1>3. \A i \in Chunks : w.chunk[i] \in Chunk /\ i \in Nat /\ i >= 1
  <2>1. \A i \in Chunks : w.chunk[i] \in Chunk
    BY DEF Storage
  <2>2. ChunksOf(MaxLen) \in Nat
    BY WordsAreEnough, BytesAssumption
  <2> QED BY <2>1, <2>2 DEF Chunks
<1>4. ClearBytes(r, w) \in Storage
  BY <1>1, <1>2, <1>3, ClearBytesIs DEF Storage
<1>5. ASSUME NEW i \in Chunks, i <= ChunksOf(Len(b)) PROVE WordOf(b, i) \in Chunk
  <2>1. i \in 1..ChunksOf(Len(b))
    BY <1>2, <1>3, <1>5, WordsAreEnough
  <2> QED BY <2>1, WordIsTyped
<1>6. SetBytes(r, w, b) \in Storage
  <2> DEFINE chunk == [i \in Chunks |->
                         IF i <= ChunksOf(Len(b)) THEN WordOf(b, i)
                         ELSE IF i <= ChunksOf(r.len) THEN ZeroChunk
                         ELSE w.chunk[i]]
  <2>1. chunk \in [Chunks -> Chunk]
    BY <1>1, <1>3, <1>5
  <2>2. w.slot \in 0..(Words - 1)
    BY DEF Storage
  <2>3. SetBytes(r, w, b) = [slot |-> w.slot, len |-> Len(b), chunk |-> chunk]
    BY SetBytesIs
  <2> HIDE DEF chunk
  <2> QED BY <1>2, <2>1, <2>2, <2>3 DEF Storage
<1> QED BY <1>4, <1>6

\* A string is read back as it was written, over whatever was there before.
LEMMA StringIsReadBack ==
  ASSUME NEW r \in Storage, NEW w \in Storage, NEW b \in Strings
  PROVE  GetBytes(SetBytes(r, w, b)) = b
<1> DEFINE t == SetBytes(r, w, b)
           len == Len(b)
<1>1. /\ len \in Nat /\ len <= MaxLen /\ MaxLen \in Nat
      /\ ChunkSize \in Nat \ {0} /\ b \in [1..len -> Byte]
  BY StringFacts, BytesAssumption
<1>2. /\ t.len = len
      /\ \A i \in Chunks : i <= ChunksOf(len) => t.chunk[i] = WordOf(b, i)
  BY SetBytesIs
<1>3. GetBytes(t) = [n \in 1..t.len |->
        t.chunk[ChunksOf(n)][n - (ChunksOf(n) - 1) * ChunkSize
                               + Padding(t.len, ChunksOf(n))]]
  BY DEF GetBytes
<1> HIDE DEF t
<1>4. ASSUME NEW n \in 1..len
      PROVE  t.chunk[ChunksOf(n)][n - (ChunksOf(n) - 1) * ChunkSize
                                    + Padding(len, ChunksOf(n))] = b[n]
  <2> DEFINE i == ChunksOf(n)
             m == (i - 1) * ChunkSize
             P == Padding(len, i)
             j == n - m + P
  <2>1. n \in Nat /\ n <= len /\ n > 0
    BY <1>1
  <2>2. i \in Nat /\ i > 0 /\ n <= i * ChunkSize /\ i * ChunkSize < n + ChunkSize
    BY <2>1, WordsAreEnough
  <2>3. i <= ChunksOf(len) /\ i <= ChunksOf(MaxLen) /\ ChunksOf(MaxLen) \in Nat
    BY <1>1, <2>1, WordsOfFewer, WordsAreEnough
  <2>4. i \in Chunks
    BY <2>2, <2>3 DEF Chunks
  <2>5. i * ChunkSize = m + ChunkSize /\ m \in Nat
    BY <1>1, <2>2
  <2> HIDE DEF m
  <2>6. P = IF m + ChunkSize > len THEN m + ChunkSize - len ELSE 0
    <3> DEFINE q == i * ChunkSize
    <3>1. P = IF q > len THEN q - len ELSE 0
      BY DEF Padding
    <3>2. q = m + ChunkSize
      BY <2>5
    <3> HIDE DEF P, q
    <3> QED BY <1>1, <2>5, <3>1, <3>2
  <2>7. t.chunk[i] = [k \in 1..ChunkSize |-> IF k > P THEN b[m + k - P] ELSE 0]
    <3>1. t.chunk[i] = WordOf(b, i)
      BY <1>2, <2>3, <2>4
    <3> QED BY <3>1 DEF WordOf, m
  <2> HIDE DEF i, P
  <2>8. m + ChunkSize >= n /\ m < n
    BY <1>1, <2>1, <2>2, <2>5
  <2>9. j \in 1..ChunkSize /\ j > P /\ m + j - P = n
    <3>1. CASE m + ChunkSize > len
      BY <1>1, <2>1, <2>5, <2>6, <2>8, <3>1
    <3>2. CASE ~(m + ChunkSize > len)
      BY <1>1, <2>1, <2>5, <2>6, <2>8, <3>2
    <3> QED BY <3>1, <3>2
  <2> HIDE DEF j
  <2>10. t.chunk[i][j] = b[n]
    BY <2>7, <2>9
  <2> QED BY Zenon, <2>10 DEF i, m, P, j
<1>5. GetBytes(t) = [n \in 1..len |-> b[n]]
  BY <1>2, <1>3, <1>4
<1>6. GetBytes(t) = b
  BY <1>1, <1>5
<1> QED BY <1>6 DEF t

\* What is cleared is read as no string, and so is fresh storage.
LEMMA NoStringIsReadBack ==
  ASSUME NEW s, s.len = 0
  PROVE  GetBytes(s) = <<>>
<1>1. GetBytes(s) = [n \in {} |-> n]
  BY DEF GetBytes
<1> QED BY <1>1

\* The slot of the other types is no part of the string.
LEMMA SlotIsNotRead ==
  ASSUME NEW s \in Storage, NEW x
  PROVE  GetBytes([s EXCEPT !.slot = x]) = GetBytes(s)
<1> DEFINE t == [s EXCEPT !.slot = x]
<1>1. t.len = s.len /\ t.chunk = s.chunk
  BY DEF Storage
<1> HIDE DEF t
<1> QED BY <1>1 DEF GetBytes, t

-----------------------------------------------------------------------------
(* What the calls leave. *)

\* A word that the reads of the type do not panic on.
GoodWord(word) == word \in 0..(Words - 1) /\ ~DecodePanics(kind, word)

\* A write of a word keeps the rest of the storage.
LEMMA SlotIsWritten ==
  ASSUME NEW s \in Storage, NEW word, GoodWord(word)
  PROVE  LET t == [s EXCEPT !.slot = word]
         IN  t \in Storage /\ t.slot = word /\ ~DecodePanics(kind, t.slot)
BY DEF Storage, GoodWord

\* A write behind the guard is a call that leaves the gas within its limit.
LEMMA WriteIsCall ==
  ASSUME TypeOK, NEW ro \in BOOLEAN, NEW reads \in Nat, NEW word,
         SlotWrite(ro, reads, word)
  PROVE  Call([jrn EXCEPT !.slot = word]) /\ gas' \in 0..MaxGas
<1>1. gas \in Nat /\ gas <= MaxGas /\ MaxGas \in Nat
  BY GasAssumption DEF TypeOK
<1>2. CostOf(word) \in Nat
  BY GasAssumption DEF CostOf
<1> DEFINE g == Burnt(gas, reads)
<1>3. g \in Nat /\ g <= MaxGas
  BY <1>1 DEF Burnt
<1>4. gas' = Burnt(g, CostOf(word))
  BY DEF SlotWrite
<1> HIDE DEF g
<1>5. gas' \in 0..MaxGas
  BY <1>1, <1>2, <1>3, <1>4 DEF Burnt
<1> QED BY <1>5 DEF SlotWrite

\* The words that the calls write are good ones.
LEMMA WordsAreGood ==
  ASSUME TypeOK
  PROVE  /\ \A v \in Value(kind) : GoodWord(Encode(kind, v))
         /\ kind = "int" =>
              \A v \in Value(kind) : GoodWord(IF v < 0 THEN -v ELSE v)
         /\ kind = "u64" /\ db.slot # U64 - 1 => GoodWord(db.slot + 1)
         /\ kind = "u64" /\ db.slot # 0 => GoodWord(db.slot - 1)
         /\ kind = "raw" => \A v \in Value(kind) : GoodWord(v)
<1>1. \A v \in Value(kind) : GoodWord(Encode(kind, v))
  BY EncodeDecode DEF TypeOK, GoodWord
<1>2. ASSUME kind = "int", NEW v \in Value(kind)
      PROVE  GoodWord(IF v < 0 THEN -v ELSE v)
  <2>1. v \in Value("int")
    BY <1>2
  <2> QED BY <1>2, <2>1, MagnitudeDecodes DEF GoodWord
<1>3. ASSUME kind = "u64"
      PROVE  /\ db.slot # U64 - 1 => GoodWord(db.slot + 1)
             /\ db.slot # 0 => GoodWord(db.slot - 1)
  <2>1. db.slot \in 0..(Words - 1) /\ ~(db.slot >= U64)
    BY <1>3 DEF TypeOK, Storage, DecodePanics, Unsigned
  <2>2. /\ db.slot # U64 - 1 =>
             db.slot + 1 \in 0..(Words - 1) /\ ~(db.slot + 1 >= U64)
        /\ db.slot # 0 => db.slot - 1 \in 0..(Words - 1) /\ ~(db.slot - 1 >= U64)
    BY <2>1, CellWidths
  <2> QED BY <1>3, <2>2 DEF GoodWord, DecodePanics, Unsigned
<1>4. ASSUME kind = "raw", NEW v \in Value(kind) PROVE GoodWord(v)
  <2>1. Encode(kind, v) = v
    BY <1>4, KindsAre DEF Encode
  <2> QED BY <1>1, <1>4, <2>1
<1> QED BY <1>1, <1>2, <1>3, <1>4

\* What a step may do: write one good word, read, change the string, or end the
\* transaction.
WordStep ==
  /\ \E word : GoodWord(word) /\ Call([jrn EXCEPT !.slot = word])
  /\ gas' \in 0..MaxGas

ReadStep == Call(jrn) /\ gas' \in 0..MaxGas

StringStep ==
  /\ UNCHANGED gas
  /\ \/ \E b \in Strings : Call(SetBytes(db, jrn, b))
     \/ Call(ClearBytes(db, jrn))

EndStep == (Commit \/ Revert) /\ UNCHANGED gas

LEMMA StepsAre ==
  ASSUME TypeOK, Next
  PROVE  /\ WordStep \/ ReadStep \/ StringStep \/ EndStep
         /\ UNCHANGED kind
<1>0. UNCHANGED kind
  BY DEF Next
<1>1. ASSUME GetCall PROVE ReadStep
  <2>1. gas \in Nat /\ gas <= MaxGas /\ MaxGas \in Nat /\ ReadCost \in Nat
    BY GasAssumption DEF TypeOK
  <2> QED BY <1>1, <2>1 DEF GetCall, ReadStep, Burnt
<1>2. ASSUME NEW ro \in BOOLEAN, NEW reads \in Nat, NEW word, GoodWord(word),
             SlotWrite(ro, reads, word)
      PROVE  WordStep
  BY <1>2, WriteIsCall DEF WordStep
<1>3. ASSUME NEW ro \in BOOLEAN, NEW v \in Value(kind), SetCall(ro, v)
      PROVE  WordStep
  BY <1>2, <1>3, WordsAreGood DEF SetCall
<1>4. ASSUME NEW ro \in BOOLEAN, NEW v \in Value(kind), SetPreVersion7Call(ro, v)
      PROVE  WordStep
  BY <1>2, <1>4, WordsAreGood DEF SetPreVersion7Call
<1>5. ASSUME NEW ro \in BOOLEAN, IncrementCall(ro) PROVE WordStep
  <2>1. kind = "u64" /\ db.slot # U64 - 1 /\ SlotWrite(ro, ReadCost, db.slot + 1)
    BY <1>5 DEF IncrementCall
  <2>2. GoodWord(db.slot + 1)
    BY <2>1, WordsAreGood
  <2>3. ReadCost \in Nat
    BY GasAssumption
  <2> QED BY <1>2, <2>1, <2>2, <2>3
<1>6. ASSUME NEW ro \in BOOLEAN, DecrementCall(ro) PROVE WordStep
  <2>1. kind = "u64" /\ db.slot # 0 /\ SlotWrite(ro, ReadCost, db.slot - 1)
    BY <1>6 DEF DecrementCall
  <2>2. GoodWord(db.slot - 1)
    BY <2>1, WordsAreGood
  <2>3. ReadCost \in Nat
    BY GasAssumption
  <2> QED BY <1>2, <2>1, <2>2, <2>3
<1>7. ASSUME NEW v \in Value(kind), RawCall(v) PROVE WordStep
  BY <1>7, WordsAreGood DEF RawCall, WordStep, TypeOK
<1>8. ASSUME NEW b \in Strings, SetBytesCall(b) PROVE StringStep
  BY <1>8 DEF SetBytesCall, StringStep
<1>9. ASSUME ClearBytesCall PROVE StringStep
  BY <1>9 DEF ClearBytesCall, StringStep
<1>10. ASSUME CommitTx \/ RevertTx PROVE EndStep
  BY <1>10 DEF CommitTx, RevertTx, EndStep
<1> QED BY <1>0, <1>1, <1>3, <1>4, <1>5, <1>6, <1>7, <1>8, <1>9, <1>10 DEF Next

-----------------------------------------------------------------------------
(* The invariant. *)

\* The views are the same before the first call, and after it the journaled one is
\* what one call makes of the committed one.
OneCallFromThere ==
  /\ calls = 0 => jrn = db
  /\ calls = 1 =>
       \/ \E word : jrn = [db EXCEPT !.slot = word]
       \/ \E b \in Strings : jrn = SetBytes(db, db, b)
       \/ jrn = ClearBytes(db, db)

CellInv == TypeOK /\ OneCallFromThere

\* A call that leaves typed storage keeps the types.
LEMMA CellCallKeeps ==
  ASSUME TypeOK, NEW s \in Storage, ~DecodePanics(kind, s.slot), Call(s),
         gas' \in 0..MaxGas, UNCHANGED kind
  PROVE  TypeOK'
<1>1. calls' \in 0..MaxCalls
  BY MaxCallsAssumption DEF TypeOK, Call
<1>2. db' = db /\ jrn' = s
  BY DEF Call
<1> QED BY <1>1, <1>2 DEF TypeOK

LEMMA CellStep ==
  ASSUME CellInv, [Next]_vars
  PROVE  CellInv'
<1>0. TypeOK /\ db \in Storage /\ jrn \in Storage
  BY DEF CellInv, TypeOK
<1>1. CASE UNCHANGED vars
  <2>1. UNCHANGED <<db, jrn, calls, kind, gas>>
    BY <1>1 DEF vars, txVars
  <2> QED BY <2>1 DEF CellInv, TypeOK, OneCallFromThere
<1>2. CASE Next
  <2>0. UNCHANGED kind /\ calls \in Nat /\ gas \in 0..MaxGas
    BY <1>0, <1>2, StepsAre DEF TypeOK
  <2>1. ASSUME NEW word, GoodWord(word), Call([jrn EXCEPT !.slot = word]),
               gas' \in 0..MaxGas
        PROVE  CellInv'
    <3>1. TypeOK'
      BY <1>0, <2>0, <2>1, SlotIsWritten, CellCallKeeps
    <3>2. /\ db' = db /\ calls' = calls + 1
          /\ calls' = 1 => jrn' = [db EXCEPT !.slot = word]
      BY <2>0, <2>1 DEF Call, CellInv, OneCallFromThere
    <3>3. OneCallFromThere'
      BY <2>0, <3>2 DEF OneCallFromThere
    <3> QED BY <3>1, <3>3 DEF CellInv
  <2>2. CASE WordStep
    BY <2>1, <2>2 DEF WordStep
  <2>4. CASE ReadStep
    <3>1. GoodWord(jrn.slot) /\ jrn = [jrn EXCEPT !.slot = jrn.slot]
      BY <1>0 DEF TypeOK, Storage, GoodWord
    <3> QED BY <2>1, <2>4, <3>1 DEF ReadStep
  <2>5. ASSUME NEW s \in Storage, s.slot = jrn.slot, Call(s), UNCHANGED gas,
               jrn = db => \/ \E b \in Strings : s = SetBytes(db, db, b)
                           \/ s = ClearBytes(db, db)
        PROVE  CellInv'
    <3>1. TypeOK'
      <4>1. ~DecodePanics(kind, s.slot) /\ gas' \in 0..MaxGas
        BY <1>0, <2>0, <2>5 DEF TypeOK
      <4> QED BY <1>0, <2>0, <2>5, <4>1, CellCallKeeps
    <3>2. /\ db' = db /\ calls' = calls + 1 /\ jrn' = s
          /\ calls = 0 => jrn = db
      BY <2>0, <2>5 DEF Call, CellInv, OneCallFromThere
    <3>3. OneCallFromThere'
      BY <2>0, <2>5, <3>2 DEF OneCallFromThere
    <3> QED BY <3>1, <3>3 DEF CellInv
  <2>6. CASE StringStep
    <3>1. ASSUME NEW b \in Strings, Call(SetBytes(db, jrn, b)) PROVE CellInv'
      <4> DEFINE s == SetBytes(db, jrn, b)
      <4>1. s \in Storage /\ s.slot = jrn.slot
        <5>1. s \in Storage
          BY <1>0, BytesCallsAreTyped
        <5>2. s.slot = jrn.slot
          BY <1>0, SetBytesFields
        <5> QED BY <5>1, <5>2
      <4>2. jrn = db => s = SetBytes(db, db, b)
        OBVIOUS
      <4>3. Call(s) /\ UNCHANGED gas
        BY <2>6, <3>1 DEF StringStep
      <4> HIDE DEF s
      <4> QED BY <2>5, <4>1, <4>2, <4>3
    <3>2. ASSUME Call(ClearBytes(db, jrn)) PROVE CellInv'
      <4> DEFINE s == ClearBytes(db, jrn)
      <4>1. s \in Storage /\ s.slot = jrn.slot
        <5>1. s \in Storage
          BY <1>0, BytesCallsAreTyped, NoBytes
        <5>2. s.slot = jrn.slot
          BY <1>0, ClearBytesIs
        <5> QED BY <5>1, <5>2
      <4>2. jrn = db => s = ClearBytes(db, db)
        OBVIOUS
      <4>3. Call(s) /\ UNCHANGED gas
        BY <2>6, <3>2 DEF StringStep
      <4> HIDE DEF s
      <4> QED BY <2>5, <4>1, <4>2, <4>3
    <3> QED BY <2>6, <3>1, <3>2 DEF StringStep
  <2>7. CASE EndStep
    <3>1. calls' = 0 /\ jrn' = db' /\ db' \in {db, jrn} /\ 0 \in 0..MaxCalls
      BY <2>7, MaxCallsAssumption DEF EndStep, Commit, Revert
    <3>2. gas' = gas
      BY <2>7 DEF EndStep
    <3> QED BY <1>0, <2>0, <3>1, <3>2 DEF CellInv, TypeOK, OneCallFromThere
  <2> QED BY <1>0, <1>2, <2>2, <2>4, <2>6, <2>7, StepsAre
<1> QED BY <1>1, <1>2

LEMMA CellInit == Init => CellInv
<1> SUFFICES ASSUME Init PROVE CellInv
  OBVIOUS
<1>1. db = Empty /\ jrn = Empty /\ calls = 0 /\ kind \in Kind /\ gas = 0
  BY DEF Init, JournalInit
<1>2. ZeroChunk \in Chunk
  BY BytesAssumption DEF ZeroChunk, Chunk
<1>3. Empty \in Storage /\ Empty.slot = 0
  BY <1>2, CellWidths, BytesAssumption DEF Empty, Storage
<1>4. ~DecodePanics(kind, Empty.slot)
  BY <1>1, <1>3, FreshIsZero
<1> QED BY <1>1, <1>3, <1>4, GasAssumption, MaxCallsAssumption
        DEF CellInv, TypeOK, OneCallFromThere

\* The invariant holds in every reachable state.
THEOREM CellInvariance == Spec => []CellInv
<1>1. CellInv /\ [Next]_vars => CellInv'
  BY CellStep
<1> QED BY <1>1, CellInit, PTL DEF Spec

\* No write of any type leaves a word that its own reads panic on.
THEOREM CellTypeCorrect == Spec => []TypeOK
<1>1. CellInv => TypeOK
  BY DEF CellInv
<1> QED BY <1>1, CellInvariance, PTL

-----------------------------------------------------------------------------
(* Words that are left behind. *)

\* The words are those of the string that is read, and zero after them.
LEMMA CanonicalIs ==
  ASSUME NEW s \in Storage
  PROVE  Canonical(s) <=>
           /\ s.len = Len(GetBytes(s))
           /\ \A i \in Chunks :
                s.chunk[i] = IF i <= ChunksOf(Len(GetBytes(s)))
                             THEN WordOf(GetBytes(s), i) ELSE ZeroChunk
<1> DEFINE g == GetBytes(s)
           e == [Empty EXCEPT !.slot = s.slot]
           chunk == [i \in Chunks |->
                       IF i <= ChunksOf(Len(g)) THEN WordOf(g, i) ELSE ZeroChunk]
<1>1. ZeroChunk \in Chunk /\ 0 \in 0..MaxLen /\ 0 \in 0..(Words - 1)
  BY CellWidths, BytesAssumption DEF ZeroChunk, Chunk
<1>2. /\ s.slot \in 0..(Words - 1) /\ s.chunk \in [Chunks -> Chunk]
      /\ s = [slot |-> s.slot, len |-> s.len, chunk |-> s.chunk]
  BY DEF Storage
<1>3. Empty \in Storage /\ e \in Storage
  BY <1>1, <1>2 DEF Empty, Storage
<1>4. e.slot = s.slot /\ \A i \in Chunks : e.chunk[i] = ZeroChunk
  BY DEF Empty
<1> HIDE DEF e, g
<1>5. SetBytes(Empty, e, g) =
        [slot |-> e.slot, len |-> Len(g),
         chunk |-> [i \in Chunks |->
                      IF i <= ChunksOf(Len(g)) THEN WordOf(g, i)
                      ELSE IF i <= ChunksOf(Empty.len) THEN ZeroChunk
                      ELSE e.chunk[i]]]
  BY <1>3, SetBytesIs
<1>6. SetBytes(Empty, e, g) = [slot |-> s.slot, len |-> Len(g), chunk |-> chunk]
  BY <1>4, <1>5
<1>7. s.chunk = chunk <=>
        \A i \in Chunks :
          s.chunk[i] = IF i <= ChunksOf(Len(g)) THEN WordOf(g, i) ELSE ZeroChunk
  BY <1>2
<1> HIDE DEF chunk
<1>8. s = SetBytes(Empty, e, g) <=> s.len = Len(g) /\ s.chunk = chunk
  BY <1>2, <1>6
<1>9. Canonical(s) <=> s = SetBytes(Empty, e, g)
  BY Zenon DEF Canonical, e, g
<1> QED BY Zenon, <1>7, <1>8, <1>9 DEF g

\* One call keeps it so.
LEMMA OneCallLeavesNoRest ==
  ASSUME NEW s \in Storage, Canonical(s)
  PROVE  /\ \A word \in 0..(Words - 1) : Canonical([s EXCEPT !.slot = word])
         /\ \A b \in Strings : Canonical(SetBytes(s, s, b))
         /\ Canonical(ClearBytes(s, s))
<1>1. /\ s.len = Len(GetBytes(s))
      /\ \A i \in Chunks : ~(i <= ChunksOf(s.len)) => s.chunk[i] = ZeroChunk
  BY CanonicalIs
<1>2. ASSUME NEW word \in 0..(Words - 1) PROVE Canonical([s EXCEPT !.slot = word])
  <2> DEFINE t == [s EXCEPT !.slot = word]
  <2>1. t \in Storage /\ t.len = s.len /\ t.chunk = s.chunk
    BY DEF Storage
  <2>2. GetBytes(t) = GetBytes(s)
    BY SlotIsNotRead
  <2> HIDE DEF t
  <2>3. Canonical(t)
    BY <2>1, <2>2, CanonicalIs
  <2> QED BY <2>3 DEF t
<1>3. ASSUME NEW b \in Strings PROVE Canonical(SetBytes(s, s, b))
  <2> DEFINE t == SetBytes(s, s, b)
  <2>1. t \in Storage /\ GetBytes(t) = b
    BY BytesCallsAreTyped, StringIsReadBack
  <2>2. t.len = Len(b)
    BY SetBytesFields
  <2>3. \A i \in Chunks :
          t.chunk[i] = IF i <= ChunksOf(Len(b)) THEN WordOf(b, i)
                       ELSE IF i <= ChunksOf(s.len) THEN ZeroChunk ELSE s.chunk[i]
    BY SetBytesIs
  <2> HIDE DEF t
  <2>4. Canonical(t)
    BY <1>1, <2>1, <2>2, <2>3, CanonicalIs
  <2> QED BY <2>4 DEF t
<1>4. Canonical(ClearBytes(s, s))
  <2> DEFINE t == ClearBytes(s, s)
  <2>1. t \in Storage /\ t.len = 0
    BY BytesCallsAreTyped, NoBytes, ClearBytesIs
  <2>2. \A i \in Chunks :
          t.chunk[i] = IF i <= ChunksOf(s.len) THEN ZeroChunk ELSE s.chunk[i]
    BY ClearBytesIs
  <2> HIDE DEF t
  <2>3. GetBytes(t) = <<>>
    BY <2>1, NoStringIsReadBack
  <2>4. ChunksOf(0) = 0 /\ \A i \in Chunks : ~(i <= ChunksOf(0))
    <3>1. ChunksOf(0) = 0 /\ ChunksOf(MaxLen) \in Nat
      BY WordsAreEnough, BytesAssumption
    <3> QED BY <3>1 DEF Chunks
  <2>5. Canonical(t)
    BY <1>1, <2>1, <2>2, <2>3, <2>4, NoBytes, CanonicalIs
  <2> QED BY <2>5 DEF t
<1> QED BY <1>2, <1>3, <1>4

\* A transaction of one call leaves the words of the string and no others
\* (Storage::set_bytes, Storage::clear_bytes).
THEOREM OneCallCleansUp == Spec => LeavesNoRest
<1>1. CellInv /\ [Next]_vars
        => [calls = 1 /\ calls' = 0 /\ Canonical(db) => Canonical(db')]_vars
  <2> SUFFICES ASSUME CellInv, Next, calls = 1, calls' = 0, Canonical(db)
               PROVE  Canonical(db')
    OBVIOUS
  <2>0. TypeOK /\ db \in Storage /\ jrn \in Storage
    BY DEF CellInv, TypeOK
  <2>1. \A s : ~Call(s)
    BY DEF Call
  <2>2. EndStep
    BY <2>0, <2>1, StepsAre DEF WordStep, ReadStep, StringStep
  <2>3. db' = jrn \/ db' = db
    BY <2>2 DEF EndStep, Commit, Revert
  <2>4. Canonical(jrn)
    <3>1. ASSUME NEW word, jrn = [db EXCEPT !.slot = word] PROVE Canonical(jrn)
      <4>1. jrn.slot = word /\ jrn.slot \in 0..(Words - 1)
        BY <2>0, <3>1 DEF Storage
      <4> QED BY <2>0, <3>1, <4>1, OneCallLeavesNoRest
    <3>2. ASSUME NEW b \in Strings, jrn = SetBytes(db, db, b) PROVE Canonical(jrn)
      BY <2>0, <3>2, OneCallLeavesNoRest
    <3>3. ASSUME jrn = ClearBytes(db, db) PROVE Canonical(jrn)
      BY <2>0, <3>3, OneCallLeavesNoRest
    <3> QED BY <3>1, <3>2, <3>3 DEF CellInv, OneCallFromThere
  <2> QED BY <2>3, <2>4
<1> QED BY <1>1, CellInvariance, PTL DEF Spec, LeavesNoRest

-----------------------------------------------------------------------------
(* The refinement of TypedStore. *)

\* A call that leaves s in the journal leaves the value of s there.
LEMMA ValueIsCalled ==
  ASSUME NEW s, Call(s), UNCHANGED kind
  PROVE  Promise!Call(ValueOf(s))
BY DEF Call, Promise!Call, ValueOf

\* A word that is written is one value that is held.
LEMMA WordIsHeld ==
  ASSUME TypeOK, UNCHANGED kind, NEW word, GoodWord(word),
         Call([jrn EXCEPT !.slot = word])
  PROVE  Promise!Holds(Decode(kind, word))
<1> DEFINE t == [jrn EXCEPT !.slot = word]
<1>1. jrn \in Storage
  BY DEF TypeOK
<1>2. t.slot = word /\ GetBytes(t) = GetBytes(jrn)
  BY <1>1, SlotIsWritten, SlotIsNotRead
<1> HIDE DEF t
<1>3. ValueOf(t) = [ValueOf(jrn) EXCEPT !.val = Decode(kind, word)]
  BY <1>2 DEF ValueOf
<1>4. Promise!Call(ValueOf(t))
  BY ValueIsCalled DEF t
<1> QED BY <1>3, <1>4 DEF Promise!Holds

\* A string that is written is one string that is held.
LEMMA StringIsHeld ==
  ASSUME TypeOK, UNCHANGED kind, NEW b \in Strings, NEW s, Call(s),
         s.slot = jrn.slot, GetBytes(s) = b
  PROVE  Promise!Call([ValueOf(jrn) EXCEPT !.bytes = b])
<1>1. ValueOf(s) = [ValueOf(jrn) EXCEPT !.bytes = b]
  BY DEF ValueOf
<1>2. Promise!Call(ValueOf(s))
  BY ValueIsCalled
<1> QED BY <1>1, <1>2

\* Each call of the cell is a call of the typed store, with the same argument.
LEMMA CellStepRefines ==
  ASSUME CellInv, [Next]_vars
  PROVE  [Promise!Next]_<<Promise!txVars, kind, op>>
<1>0. TypeOK /\ db \in Storage /\ jrn \in Storage /\ kind \in Kind
  BY DEF CellInv, TypeOK
<1>1. CASE UNCHANGED vars
  <2>1. UNCHANGED <<db, jrn, calls, kind, op>>
    BY <1>1 DEF vars, txVars
  <2>2. UNCHANGED <<ValueOf(db), ValueOf(jrn), calls>>
    BY <2>1 DEF ValueOf
  <2> QED BY <2>1, <2>2 DEF Promise!txVars
<1>2. CASE Next
  <2>0. UNCHANGED kind
    BY <1>2 DEF Next
  <2>1. ASSUME GetCall PROVE Promise!Get
    BY <2>0, <2>1, ValueIsCalled DEF GetCall, Named, Promise!Get, Promise!Named
  <2>2. ASSUME NEW v \in Value(kind), NEW word, GoodWord(word),
               Decode(kind, word) = v, Call([jrn EXCEPT !.slot = word]),
               op' = [Named("set") EXCEPT !.v = v]
        PROVE  Promise!Set(v)
    <3>1. Promise!Holds(v)
      BY <1>0, <2>0, <2>2, WordIsHeld
    <3> QED BY <2>2, <3>1 DEF Promise!Set, Named, Promise!Named
  <2>3. ASSUME NEW ro \in BOOLEAN, NEW v \in Value(kind), SetCall(ro, v)
        PROVE  Promise!Set(v)
    <3>1. Call([jrn EXCEPT !.slot = Encode(kind, v)])
      BY <1>0, <2>3, WriteIsCall DEF SetCall
    <3>2. GoodWord(Encode(kind, v)) /\ Decode(kind, Encode(kind, v)) = v
      BY <1>0, EncodeDecode, WordsAreGood
    <3> QED BY <2>2, <2>3, <3>1, <3>2 DEF SetCall
  <2>4. ASSUME NEW v \in Value(kind), RawCall(v) PROVE Promise!Set(v)
    <3>1. kind = "raw" /\ Encode(kind, v) = v
      BY <2>4, KindsAre DEF RawCall, Encode
    <3>2. GoodWord(v) /\ Decode(kind, v) = v
      BY <1>0, <3>1, EncodeDecode, WordsAreGood
    <3> QED BY <2>2, <2>4, <3>2 DEF RawCall
  <2>5. ASSUME NEW ro \in BOOLEAN, NEW v \in Value(kind), SetPreVersion7Call(ro, v)
        PROVE  Promise!SetMagnitude(v)
    <3> DEFINE word == IF v < 0 THEN -v ELSE v
    <3>1. kind = "int" /\ SlotWrite(ro, 0, word)
      BY <2>5 DEF SetPreVersion7Call
    <3>2. GoodWord(word)
          /\ Decode(kind, word) = IF v < 0 /\ -v \in Value(kind) THEN -v ELSE v
      BY <1>0, <3>1, MagnitudeDecodes, WordsAreGood
    <3> HIDE DEF word
    <3>3. Promise!Holds(IF v < 0 /\ -v \in Value(kind) THEN -v ELSE v)
      <4>1. Call([jrn EXCEPT !.slot = word])
        BY <1>0, <3>1, WriteIsCall
      <4>2. Promise!Holds(Decode(kind, word))
        BY <1>0, <2>0, <3>2, <4>1, WordIsHeld
      <4> QED BY Zenon, <3>2, <4>2
    <3> QED BY <2>5, <3>3
            DEF SetPreVersion7Call, Promise!SetMagnitude, Named, Promise!Named
  <2>6. ASSUME kind = "u64"
        PROVE  /\ ValueOf(db).val = db.slot
               /\ Value(kind) = 0..(U64 - 1)
               /\ \A word : Decode(kind, word) = word
               /\ db.slot \in 0..(U64 - 1)
    <3>1. /\ \A word : Decode(kind, word) = word
          /\ Value(kind) = 0..(U64 - 1)
      BY <2>6, KindsAre DEF Decode, Value, Unsigned
    <3>2. db.slot \in 0..(U64 - 1)
      BY <1>0, <2>6, CellWidths DEF TypeOK, Storage, DecodePanics, Unsigned
    <3> QED BY <3>1, <3>2 DEF ValueOf
  <2>7. ASSUME NEW ro \in BOOLEAN, IncrementCall(ro)
        PROVE  ValueOf(db).val + 1 \in Value(kind) /\ Promise!Increment
    <3>1. /\ kind = "u64" /\ db.slot # U64 - 1
          /\ SlotWrite(ro, ReadCost, db.slot + 1) /\ op' = Named("increment")
      BY <2>7 DEF IncrementCall
    <3>2. Call([jrn EXCEPT !.slot = db.slot + 1])
      BY <1>0, <3>1, WriteIsCall, GasAssumption
    <3>3. Promise!Holds(Decode(kind, db.slot + 1))
      BY <1>0, <2>0, <3>1, <3>2, WordsAreGood, WordIsHeld
    <3>4. Promise!Holds(ValueOf(db).val + 1)
      BY Zenon, <2>6, <3>1, <3>3
    <3>5. ValueOf(db).val + 1 \in Value(kind)
      BY <2>6, <3>1, CellWidths
    <3> QED BY <3>1, <3>4, <3>5 DEF Promise!Increment, Named, Promise!Named
  <2>8. ASSUME NEW ro \in BOOLEAN, DecrementCall(ro)
        PROVE  ValueOf(db).val - 1 \in Value(kind) /\ Promise!Decrement
    <3>1. /\ kind = "u64" /\ db.slot # 0
          /\ SlotWrite(ro, ReadCost, db.slot - 1) /\ op' = Named("decrement")
      BY <2>8 DEF DecrementCall
    <3>2. Call([jrn EXCEPT !.slot = db.slot - 1])
      BY <1>0, <3>1, WriteIsCall, GasAssumption
    <3>3. Promise!Holds(Decode(kind, db.slot - 1))
      BY <1>0, <2>0, <3>1, <3>2, WordsAreGood, WordIsHeld
    <3>4. Promise!Holds(ValueOf(db).val - 1)
      BY Zenon, <2>6, <3>1, <3>3
    <3>5. ValueOf(db).val - 1 \in Value(kind)
      BY <2>6, <3>1, CellWidths
    <3> QED BY <3>1, <3>4, <3>5 DEF Promise!Decrement, Named, Promise!Named
  <2>9. ASSUME NEW b \in Strings, SetBytesCall(b) PROVE Promise!SetBytes(b)
    <3> DEFINE s == SetBytes(db, jrn, b)
    <3>1. Call(s) /\ op' = [Named("bytes") EXCEPT !.b = b]
      BY <2>9 DEF SetBytesCall
    <3>2. s.slot = jrn.slot /\ GetBytes(s) = b
      BY <1>0, SetBytesFields, StringIsReadBack
    <3> HIDE DEF s
    <3>3. Promise!Call([ValueOf(jrn) EXCEPT !.bytes = b])
      BY <1>0, <2>0, <3>1, <3>2, StringIsHeld
    <3> QED BY <3>1, <3>3 DEF Promise!SetBytes, Named, Promise!Named
  <2>10. ASSUME ClearBytesCall PROVE Promise!SetBytes(<<>>)
    <3> DEFINE s == ClearBytes(db, jrn)
    <3>1. Call(s) /\ op' = Named("bytes")
      BY <2>10 DEF ClearBytesCall
    <3>2. s.slot = jrn.slot /\ s.len = 0
      BY <1>0, ClearBytesIs
    <3>3. GetBytes(s) = <<>>
      BY <3>2, NoStringIsReadBack
    <3> HIDE DEF s
    <3>4. Promise!Call([ValueOf(jrn) EXCEPT !.bytes = <<>>])
      BY <1>0, <2>0, <3>1, <3>2, <3>3, NoBytes, StringIsHeld
    <3>5. op' = [Named("bytes") EXCEPT !.b = <<>>]
      BY <3>1 DEF Named
    <3> QED BY <3>4, <3>5 DEF Promise!SetBytes, Named, Promise!Named
  <2>11. ASSUME CommitTx PROVE Promise!End(Promise!Commit)
    <3>1. Promise!Commit
      BY <2>0, <2>11 DEF CommitTx, Commit, Promise!Commit, ValueOf
    <3> QED BY <2>11, <3>1 DEF CommitTx, Promise!End, Named, Promise!Named
  <2>12. ASSUME RevertTx PROVE Promise!End(Promise!Revert)
    <3>1. Promise!Revert
      BY <2>0, <2>12 DEF RevertTx, Revert, Promise!Revert, ValueOf
    <3> QED BY <2>12, <3>1 DEF RevertTx, Promise!End, Named, Promise!Named
  <2>13. Promise!Next
    <3>1. CASE GetCall
      BY <2>0, <2>1, <3>1 DEF Promise!Next
    <3>2. CASE \E ro \in BOOLEAN : \E v \in Value(kind) :
                 SetCall(ro, v) \/ SetPreVersion7Call(ro, v)
      BY <2>0, <2>3, <2>5, <3>2 DEF Promise!Next
    <3>3. CASE \E ro \in BOOLEAN : IncrementCall(ro)
      BY <2>0, <2>7, <3>3 DEF Promise!Next
    <3>4. CASE \E ro \in BOOLEAN : DecrementCall(ro)
      BY <2>0, <2>8, <3>4 DEF Promise!Next
    <3>5. CASE \E v \in Value(kind) : RawCall(v)
      BY <2>0, <2>4, <3>5 DEF Promise!Next
    <3>6. CASE \E b \in Strings : SetBytesCall(b)
      BY <2>0, <2>9, <3>6 DEF Promise!Next
    <3>7. CASE ClearBytesCall
      BY <2>0, <2>10, <3>7, NoBytes DEF Promise!Next
    <3>8. CASE CommitTx
      BY <2>0, <2>11, <3>8 DEF Promise!Next
    <3>9. CASE RevertTx
      BY <2>0, <2>12, <3>9 DEF Promise!Next
    <3> QED BY <1>2, <3>1, <3>2, <3>3, <3>4, <3>5, <3>6, <3>7, <3>8, <3>9 DEF Next
  <2> QED BY <2>13
<1> QED BY <1>1, <1>2

\* A fresh cell has the value zero and the empty string.
LEMMA CellInitRefines == Init => Promise!Init
<1> SUFFICES ASSUME Init PROVE Promise!Init
  OBVIOUS
<1>1. /\ db = Empty /\ jrn = Empty /\ calls = 0 /\ kind \in Kind
      /\ op = Named("none")
  BY DEF Init, JournalInit
<1>2. Empty.slot = 0 /\ Empty.len = 0
  BY DEF Empty
<1>3. ValueOf(Empty) = [val |-> 0, bytes |-> <<>>]
  BY <1>1, <1>2, FreshIsZero, NoStringIsReadBack DEF ValueOf
<1> QED BY <1>1, <1>3 DEF Promise!Init, Promise!JournalInit, Named, Promise!Named

\* The storage-backed types are typed cells, for all widths and all strings, however
\* many calls a transaction makes.
THEOREM CellRefinement == Spec => ImplementsTypedStore
<1>1. CellInv /\ [Next]_vars => [Promise!Next]_<<Promise!txVars, kind, op>>
  BY CellStepRefines
<1> QED BY <1>1, CellInitRefines, CellInvariance, PTL
        DEF Spec, ImplementsTypedStore, Promise!Spec
=============================================================================
