-------------------------- MODULE L2PricingProofs --------------------------
(***************************************************************************)
(* Theorems about L2Pricing for every set of resources, every capacity of  *)
(* the vectors, every width of the integers and every input, in            *)
(* transactions of one call.                                               *)
(***************************************************************************)
EXTENDS L2Pricing, WellFoundedInduction, TLAPS

-----------------------------------------------------------------------------
(* Induction over the loops, and the largest weight: that a set of weights *)
(* has a largest one is found from the smallest gap between a weight and   *)
(* the width.                                                              *)

Below == {p \in Nat \X Nat : p[1] < p[2]}

\* Every set of natural numbers that is not empty has a least one.
LEMMA BelowIsWellFounded == IsWellFoundedOn(Below, Nat)
BY NatLessThanWellFounded DEF OpToRel, Below

\* A set that has zero and the successor of each of its numbers has them all.
LEMMA NaturalInduction ==
  ASSUME NEW T, 0 \in T, \A n \in Nat : n \in T => n + 1 \in T
  PROVE  Nat \subseteq T
<1> DEFINE Bad == Nat \ T
<1> SUFFICES ASSUME Bad # {} PROVE FALSE
  OBVIOUS
<1>1. PICK m \in Bad : \A y \in Bad : <<y, m>> \notin Below
  <2>1. Bad \subseteq Nat
    OBVIOUS
  <2> HIDE DEF Bad
  <2> QED BY <2>1, BelowIsWellFounded, WFMin
<1>2. m \in Nat /\ m # 0 /\ m - 1 \in Nat
  OBVIOUS
<1>3. <<m - 1, m>> \in Below
  BY <1>2 DEF Below
<1> QED BY <1>1, <1>2, <1>3

\* The maximum that set_resource_weights finds is a weight and no smaller than
\* any other.
LEMMA LargestWeightIsLargest ==
  ASSUME NEW weight \in [Kinds -> U64]
  PROVE  /\ LargestWeight(weight) \in {weight[k] : k \in Kinds}
         /\ \A k \in Kinds : weight[k] <= LargestWeight(weight)
<1> DEFINE Gaps == {MaxU64 - weight[k] : k \in Kinds}
<1>1. Gaps \subseteq Nat /\ Gaps # {}
  BY KindsAssumption, BoundAssumption DEF U64
<1>2. PICK g \in Gaps : \A h \in Gaps : <<h, g>> \notin Below
  BY <1>1, BelowIsWellFounded, WFMin
<1>3. PICK k \in Kinds : g = MaxU64 - weight[k]
  OBVIOUS
<1>4. ASSUME NEW l \in Kinds PROVE weight[l] <= weight[k]
  <2>1. MaxU64 - weight[l] \in Gaps
    OBVIOUS
  <2>2. ~(MaxU64 - weight[l] < g)
    BY <2>1, <1>1, <1>2 DEF Below
  <2> QED BY <2>2, <1>3, BoundAssumption DEF U64
<1>5. \E n \in {weight[l] : l \in Kinds} : \A l \in Kinds : weight[l] <= n
  BY <1>4
<1> QED BY <1>5 DEF LargestWeight

\* A multi-gas constraint that is written in full weighs right.
LEMMA MultiIsRight ==
  ASSUME NEW target \in U64, NEW window \in U32, NEW backlog \in U64,
         NEW weight \in [Kinds -> U64]
  PROVE  /\ Multi(target, window, backlog, weight) \in MultiGasConstraint
         /\ WeighsRight(Multi(target, window, backlog, weight))
<1>1. LargestWeight(weight) \in U64
  BY LargestWeightIsLargest
<1>2. Multi(target, window, backlog, weight) \in MultiGasConstraint
  BY <1>1 DEF Multi, MultiGasConstraint
<1>3. WeighsRight(Multi(target, window, backlog, weight))
  BY LargestWeightIsLargest DEF Multi, WeighsRight
<1> QED BY <1>2, <1>3

\* So does one that comes from a single-gas constraint, whatever its window.
LEMMA FromSingleIsRight ==
  ASSUME NEW c \in GasConstraint
  PROVE  FromSingle(c) \in MultiGasConstraint /\ WeighsRight(FromSingle(c))
<1> DEFINE window == IF c.window > MaxU32 THEN MaxU32 ELSE c.window
           weight == [k \in Kinds |-> IF k \in SingleKinds THEN 1 ELSE 0]
<1>1. c.target \in U64 /\ c.window \in U64 /\ c.backlog \in U64
  BY DEF GasConstraint
<1>2. window \in U32
  BY <1>1, MaxU32Assumption, BoundAssumption DEF U32, U64
<1>3. weight \in [Kinds -> U64]
  BY BoundAssumption DEF U64
<1>4. FromSingle(c) = Multi(c.target, window, c.backlog, weight)
  BY DEF FromSingle
<1> HIDE DEF window, weight
<1> QED BY <1>1, <1>2, <1>3, <1>4, MultiIsRight

\* And so does cleared storage.
LEMMA BlanksAreRight ==
  /\ NoConstraint \in GasConstraint
  /\ NoMultiConstraint \in MultiGasConstraint
  /\ WeighsRight(NoMultiConstraint)
<1>1. 0 \in U64 /\ 0 \in U32
  BY BoundAssumption, MaxU32Assumption DEF U64, U32
<1>2. NoConstraint \in GasConstraint
  BY <1>1 DEF NoConstraint, GasConstraint
<1>3. [k \in Kinds |-> 0] \in [Kinds -> U64]
  BY <1>1
<1>4. NoMultiConstraint \in MultiGasConstraint
  BY <1>1, <1>3 DEF NoMultiConstraint, MultiGasConstraint
<1>5. WeighsRight(NoMultiConstraint)
  BY KindsAssumption DEF NoMultiConstraint, WeighsRight
<1> QED BY <1>2, <1>4, <1>5

-----------------------------------------------------------------------------
(* The vectors. *)

\* A push keeps a vector that is blank from the committed length on; the new
\* element is all that changes.
LEMMA PushKeeps ==
  ASSUME NEW C, NEW r \in Vector(C), NEW w \in Vector(C), NEW c \in C, NEW blank,
         r.length < Cap, \A i \in Index : i >= r.length => w.at[i] = blank
  PROVE  /\ Push(r, w, c) \in Vector(C)
         /\ RestIsBlank(Push(r, w, c), blank)
         /\ Push(r, w, c).length = r.length + 1
         /\ Push(r, w, c).at[r.length] = c
         /\ \A i \in Index : Push(r, w, c).at[i] \in {c, w.at[i]}
<1> DEFINE p == Push(r, w, c)
<1>1. r.length \in 0..Cap /\ w.at \in [Index -> C] /\ w.length \in 0..Cap
  BY DEF Vector
<1>2. r.length \in Index /\ r.length + 1 \in 0..Cap
  BY <1>1, BoundAssumption DEF Index
<1>3. p.length = r.length + 1 /\ p.at = [w.at EXCEPT ![r.length] = c]
  BY DEF Push, Vector
<1>4. p \in Vector(C)
  BY <1>1, <1>2 DEF Push, Vector
<1>5. RestIsBlank(p, blank)
  BY <1>1, <1>2, <1>3 DEF RestIsBlank, Index
<1> QED BY <1>1, <1>2, <1>3, <1>4, <1>5

\* Vectors with the same length and the same elements are equal.
LEMMA VectorsAreEqual ==
  ASSUME NEW C, NEW v \in Vector(C), NEW w \in Vector(C),
         v.length = w.length, v.at = w.at
  PROVE  v = w
BY DEF Vector

\* The loop of pops comes to one pop, as each one reads the same length.
LEMMA PopsAreOne ==
  ASSUME NEW C, NEW r \in Vector(C), NEW w \in Vector(C), NEW blank \in C
  PROVE  PopAll(r, w, blank) = IF r.length = 0 THEN w ELSE PopClear(r, w, blank)
<1> DEFINE n == r.length
           Step(f, i) == IF i = 0 THEN w ELSE PopClear(r, f[i - 1], blank)
           Last(i) == IF i = 0 THEN w ELSE PopClear(r, w, blank)
           g == [i \in 0..n |-> Last(i)]
           f == CHOOSE h : h = [i \in 0..n |-> Step(h, i)]
<1>1. n \in 0..Cap /\ Cap \in Nat
  BY BoundAssumption DEF Vector
<1>2. PopAll(r, w, blank) = f[n]
  BY Zenon DEF PopAll
<1>3. ASSUME n # 0 PROVE PopClear(r, PopClear(r, w, blank), blank) = PopClear(r, w, blank)
  <2>1. n - 1 \in Index
    BY <1>1, <1>3 DEF Index
  <2>2. n - 1 \in 0..Cap
    BY <1>1, <1>3
  <2>3. ASSUME NEW v \in Vector(C)
        PROVE  /\ PopClear(r, v, blank) \in Vector(C)
               /\ PopClear(r, v, blank).length = n - 1
               /\ PopClear(r, v, blank).at = [v.at EXCEPT ![n - 1] = blank]
    BY <2>1, <2>2 DEF PopClear, Vector
  <2> DEFINE x == PopClear(r, w, blank)
             y == PopClear(r, x, blank)
  <2>4. /\ x \in Vector(C) /\ x.length = n - 1
        /\ x.at = [w.at EXCEPT ![n - 1] = blank]
    BY <2>3
  <2> HIDE DEF x
  <2>5. /\ y \in Vector(C) /\ y.length = n - 1
        /\ y.at = [x.at EXCEPT ![n - 1] = blank]
    BY <2>3, <2>4
  <2>6. w.at \in [Index -> C]
    BY DEF Vector
  <2> HIDE DEF y
  <2>7. y.at = x.at
    BY <2>1, <2>4, <2>5, <2>6
  <2>8. y = x
    BY <2>4, <2>5, <2>7, VectorsAreEqual
  <2> QED BY <2>8 DEF x, y
<1>4. ASSUME NEW i \in 0..n, i # 0
      PROVE  PopClear(r, Last(i - 1), blank) = PopClear(r, w, blank)
  <2>1. n # 0
    BY <1>1, <1>4
  <2> QED BY <1>3, <2>1
<1> HIDE DEF n
<1>5. g = [i \in 0..n |-> Step(g, i)]
  <2> SUFFICES ASSUME NEW i \in 0..n PROVE Last(i) = Step(g, i)
    OBVIOUS
  <2>1. CASE i = 0
    BY <2>1
  <2>2. CASE i # 0
    <3>1. i - 1 \in 0..n
      BY <1>1, <2>2
    <3>2. g[i - 1] = Last(i - 1)
      BY <3>1
    <3> HIDE DEF g
    <3> QED BY <1>4, <2>2, <3>2
  <2> QED BY <2>1, <2>2
<1>6. f = [i \in 0..n |-> Step(f, i)]
  <2> HIDE DEF g, Step
  <2> QED BY <1>5
<1> HIDE DEF f, g
<1> DEFINE T == {i \in Nat : i <= n => f[i] = Last(i)}
<1>7. 0 \in T
  BY <1>1, <1>6
<1>8. ASSUME NEW i \in Nat, i \in T PROVE i + 1 \in T
  <2> SUFFICES ASSUME i + 1 <= n PROVE f[i + 1] = Last(i + 1)
    OBVIOUS
  <2>1. i + 1 \in 0..n /\ i + 1 # 0 /\ (i + 1) - 1 = i /\ f[i] = Last(i)
    BY <1>1, <1>8
  <2>2. f[i + 1] = PopClear(r, f[(i + 1) - 1], blank)
    BY <1>6, <2>1
  <2>3. f[(i + 1) - 1] = Last((i + 1) - 1)
    BY <2>1
  <2>4. PopClear(r, Last((i + 1) - 1), blank) = PopClear(r, w, blank)
    <3> HIDE DEF Last
    <3> QED BY <1>4, <2>1
  <2> HIDE DEF T
  <2> QED BY <2>1, <2>2, <2>3, <2>4
<1>9. n \in T
  <2>1. Nat \subseteq T
    <3> HIDE DEF T
    <3> QED BY <1>7, <1>8, NaturalInduction
  <2> QED BY <1>1, <2>1
<1>10. f[n] = Last(n)
  BY <1>1, <1>9
<1> QED BY <1>2, <1>10 DEF n

\* A clear keeps a vector blank from its new length on; only the last element
\* goes.
LEMMA PopAllKeeps ==
  ASSUME NEW C, NEW s \in Vector(C), NEW blank \in C, RestIsBlank(s, blank)
  PROVE  /\ PopAll(s, s, blank) \in Vector(C)
         /\ RestIsBlank(PopAll(s, s, blank), blank)
         /\ \A i \in Index : i >= s.length => PopAll(s, s, blank).at[i] = blank
         /\ \A i \in Index : PopAll(s, s, blank).at[i] \in {blank, s.at[i]}
         /\ s.length = 0 => PopAll(s, s, blank) = s
         /\ s.length # 0 => /\ PopAll(s, s, blank).length = s.length - 1
                            /\ PopAll(s, s, blank).at[s.length - 1] = blank
<1> DEFINE p == PopAll(s, s, blank)
<1>1. s.length \in 0..Cap /\ s.at \in [Index -> C]
  BY DEF Vector
<1>2. CASE s.length = 0
  <2>1. p = s
    BY <1>2, PopsAreOne
  <2> HIDE DEF p
  <2>2. p = s /\ \A i \in Index : i >= s.length => s.at[i] = blank
    BY <2>1 DEF RestIsBlank
  <2> QED BY <1>2, <2>2 DEF p
<1>3. CASE s.length # 0
  <2>1. s.length - 1 \in Index /\ s.length - 1 \in 0..Cap
    BY <1>1, <1>3, BoundAssumption DEF Index
  <2>2. p = [s EXCEPT !.length = s.length - 1, !.at[s.length - 1] = blank]
    <3>1. p = PopClear(s, s, blank)
      BY <1>3, PopsAreOne
    <3> QED BY Zenon, <3>1 DEF PopClear
  <2>3. /\ p.length = s.length - 1
        /\ p.at = [s.at EXCEPT ![s.length - 1] = blank]
    BY <2>2 DEF Vector
  <2>4. p \in Vector(C)
    BY <1>1, <2>1, <2>2 DEF Vector
  <2> HIDE DEF p
  <2>5. \A i \in Index : i >= s.length => s.at[i] = blank
    BY DEF RestIsBlank
  <2>6. RestIsBlank(p, blank)
    <3> SUFFICES ASSUME NEW i \in Index, i >= s.length - 1 PROVE p.at[i] = blank
      BY <2>3 DEF RestIsBlank
    <3>1. i = s.length - 1 \/ i >= s.length
      BY <1>1, BoundAssumption DEF Index
    <3> QED BY <1>1, <2>1, <2>3, <2>5, <3>1
  <2>7. \A i \in Index : i >= s.length => p.at[i] = blank
    BY <1>1, <2>1, <2>3, <2>5 DEF Index
  <2>8. \A i \in Index : p.at[i] \in {blank, s.at[i]}
    BY <1>1, <2>1, <2>3
  <2>9. p.at[s.length - 1] = blank
    BY <1>1, <2>1, <2>3
  <2> QED BY <1>3, <2>3, <2>4, <2>6, <2>7, <2>8, <2>9 DEF p
<1> QED BY <1>2, <1>3

\* So does a change of an element in use.
LEMMA SetAtKeeps ==
  ASSUME NEW C, NEW s \in Vector(C), NEW i \in Index, i < s.length, NEW c \in C,
         NEW blank, RestIsBlank(s, blank)
  PROVE  /\ [s EXCEPT !.at[i] = c] \in Vector(C)
         /\ RestIsBlank([s EXCEPT !.at[i] = c], blank)
         /\ \A j \in Index : [s EXCEPT !.at[i] = c].at[j] \in {c, s.at[j]}
<1> DEFINE p == [s EXCEPT !.at[i] = c]
<1>1. s.length \in 0..Cap /\ s.at \in [Index -> C]
  BY DEF Vector
<1>2. p.length = s.length /\ p.at = [s.at EXCEPT ![i] = c]
  BY DEF Vector
<1>3. p \in Vector(C)
  BY <1>1 DEF Vector
<1> HIDE DEF p
<1>4. RestIsBlank(p, blank)
  BY <1>1, <1>2 DEF RestIsBlank, Index
<1>5. \A j \in Index : p.at[j] \in {c, s.at[j]}
  BY <1>1, <1>2
<1> QED BY <1>3, <1>4, <1>5 DEF p

-----------------------------------------------------------------------------
(* The storage. *)

StorageInOrder(s) ==
  /\ s \in PricingStorage
  /\ RestIsBlank(s.single, NoConstraint)
  /\ RestIsBlank(s.multi, NoMultiConstraint)
  /\ \A i \in Index : WeighsRight(s.multi.at[i])

\* A vector of single-gas constraints in order leaves the storage in order.
LEMMA PutSingle ==
  ASSUME NEW s, StorageInOrder(s), NEW v \in Vector(GasConstraint),
         RestIsBlank(v, NoConstraint)
  PROVE  StorageInOrder([s EXCEPT !.single = v])
<1> DEFINE t == [s EXCEPT !.single = v]
<1>1. t \in PricingStorage
  BY DEF StorageInOrder, PricingStorage
<1>2. t.single = v /\ t.multi = s.multi
  BY DEF StorageInOrder, PricingStorage
<1> HIDE DEF t
<1>3. StorageInOrder(t)
  BY <1>1, <1>2 DEF StorageInOrder
<1> QED BY <1>3 DEF t

\* So does one of multi-gas constraints.
LEMMA PutMulti ==
  ASSUME NEW s, StorageInOrder(s), NEW v \in Vector(MultiGasConstraint),
         RestIsBlank(v, NoMultiConstraint), \A i \in Index : WeighsRight(v.at[i])
  PROVE  StorageInOrder([s EXCEPT !.multi = v])
<1> DEFINE t == [s EXCEPT !.multi = v]
<1>1. t \in PricingStorage
  BY DEF StorageInOrder, PricingStorage
<1>2. t.single = s.single /\ t.multi = v
  BY DEF StorageInOrder, PricingStorage
<1> HIDE DEF t
<1>3. StorageInOrder(t)
  BY <1>1, <1>2 DEF StorageInOrder
<1> QED BY <1>3 DEF t

\* The initial storage is in order.
LEMMA InitInOrder == StorageInOrder(PricingInit)
<1>1. InitialParams \in ParamStorage
  BY ParamsAssumption DEF ParamStorage
<1>2. /\ EmptyVector(NoConstraint) \in Vector(GasConstraint)
      /\ EmptyVector(NoMultiConstraint) \in Vector(MultiGasConstraint)
  BY BlanksAreRight, BoundAssumption DEF EmptyVector, Vector
<1>3. /\ RestIsBlank(EmptyVector(NoConstraint), NoConstraint)
      /\ RestIsBlank(EmptyVector(NoMultiConstraint), NoMultiConstraint)
      /\ \A i \in Index : WeighsRight(EmptyVector(NoMultiConstraint).at[i])
  BY BlanksAreRight DEF EmptyVector, RestIsBlank
<1>4. InitialFees \in BlockFees
  BY FeesAssumption
<1>5. PricingInit \in PricingStorage
  BY <1>1, <1>2, <1>4 DEF PricingInit, PricingStorage
<1>6. /\ PricingInit.single = EmptyVector(NoConstraint)
      /\ PricingInit.multi = EmptyVector(NoMultiConstraint)
  BY DEF PricingInit
<1> QED BY <1>3, <1>5, <1>6 DEF StorageInOrder

\* The backlog that a migration computes is a u64, and exact.
LEMMA LegacyBacklogIsRight ==
  ASSUME NEW p \in ParamStorage
  PROVE  LET tolerated == p["backlog_tolerance"] * p["speed_limit_per_second"]
         IN /\ LegacyBacklog(p) \in U64
            /\ LegacyBacklog(p) = IF tolerated < p["gas_backlog"]
                                  THEN p["gas_backlog"] - tolerated ELSE 0
<1> DEFINE tolerated == p["backlog_tolerance"] * p["speed_limit_per_second"]
           backlog == p["gas_backlog"]
<1>1. /\ p["backlog_tolerance"] \in Nat /\ p["speed_limit_per_second"] \in Nat
      /\ backlog \in 0..MaxU64
  BY BoundAssumption DEF ParamStorage, LegacyParams, U64
<1>2. tolerated \in Nat
  BY <1>1
<1>3. LegacyBacklog(p) =
        LET cut == IF tolerated > MaxU64 THEN MaxU64 ELSE tolerated
        IN IF cut > backlog THEN 0 ELSE backlog - cut
  BY DEF LegacyBacklog
<1> HIDE DEF tolerated, backlog
<1>4. /\ LegacyBacklog(p) \in U64
      /\ LegacyBacklog(p) = IF tolerated < backlog THEN backlog - tolerated ELSE 0
  BY <1>1, <1>2, <1>3, BoundAssumption DEF U64
<1> QED BY <1>4 DEF tolerated, backlog

\* The migration to a single-gas constraint leaves the storage in order.
LEMMA FromLegacyKeeps ==
  ASSUME NEW s, StorageInOrder(s), s.single.length < Cap
  PROVE  /\ FromLegacy(s, s) \in Vector(GasConstraint)
         /\ RestIsBlank(FromLegacy(s, s), NoConstraint)
         /\ FromLegacy(s, s).at[s.single.length].backlog = LegacyBacklog(s.param)
<1> DEFINE cleared == PopAll(s.single, s.single, NoConstraint)
           c == [target |-> s.param["speed_limit_per_second"],
                 window |-> s.param["pricing_inertia"],
                 backlog |-> LegacyBacklog(s.param)]
<1>1. s.single \in Vector(GasConstraint) /\ s.param \in ParamStorage
  BY DEF StorageInOrder, PricingStorage
<1>2. c \in GasConstraint
  BY <1>1, LegacyBacklogIsRight DEF ParamStorage, LegacyParams, GasConstraint
<1>3. /\ cleared \in Vector(GasConstraint)
      /\ \A i \in Index : i >= s.single.length => cleared.at[i] = NoConstraint
  BY <1>1, BlanksAreRight, PopAllKeeps DEF StorageInOrder
<1>4. FromLegacy(s, s) = Push(s.single, cleared, c)
  BY DEF FromLegacy
<1>5. c.backlog = LegacyBacklog(s.param)
  OBVIOUS
<1> HIDE DEF cleared, c
<1>6. /\ FromLegacy(s, s) \in Vector(GasConstraint)
      /\ RestIsBlank(FromLegacy(s, s), NoConstraint)
      /\ FromLegacy(s, s).at[s.single.length] = c
  BY <1>1, <1>2, <1>3, <1>4, PushKeeps
<1> QED BY <1>5, <1>6

\* The loop of pushes comes to one, of the last constraint, as each one reads the
\* same length.
LEMMA PushesAreOne ==
  ASSUME NEW s, StorageInOrder(s), s.multi.length < Cap
  PROVE  FromSingles(s, s) =
           LET cleared == PopAll(s.multi, s.multi, NoMultiConstraint)
           IN IF s.single.length = 0 THEN cleared
              ELSE Push(s.multi, cleared,
                        FromSingle(s.single.at[s.single.length - 1]))
<1> DEFINE r == s.multi
           n == s.single.length
           w == PopAll(r, r, NoMultiConstraint)
           c(i) == FromSingle(s.single.at[i - 1])
           Step(f, i) == IF i = 0 THEN w ELSE Push(r, f[i - 1], c(i))
           Last(i) == IF i = 0 THEN w ELSE Push(r, w, c(i))
           g == [i \in 0..n |-> Last(i)]
           f == CHOOSE h : h = [i \in 0..n |-> Step(h, i)]
<1>1. /\ s.single \in Vector(GasConstraint) /\ r \in Vector(MultiGasConstraint)
      /\ RestIsBlank(r, NoMultiConstraint)
  BY DEF StorageInOrder, PricingStorage
<1>2. n \in 0..Cap /\ Cap \in Nat /\ r.length \in Index
  BY <1>1, BoundAssumption DEF Vector, Index
<1>3. w \in Vector(MultiGasConstraint)
  BY <1>1, BlanksAreRight, PopAllKeeps
<1>4. FromSingles(s, s) = f[n]
  BY Zenon DEF FromSingles
<1> HIDE DEF w
<1> DEFINE C == MultiGasConstraint
<1>5. ASSUME NEW x \in C, NEW y \in C PROVE Push(r, Push(r, w, x), y) = Push(r, w, y)
  <2> HIDE DEF r, C
  <2>1. r.length + 1 \in 0..Cap
    BY <1>2 DEF Index
  <2>2. ASSUME NEW v \in Vector(C), NEW z \in C
        PROVE  /\ Push(r, v, z) \in Vector(C)
               /\ Push(r, v, z).length = r.length + 1
               /\ Push(r, v, z).at = [v.at EXCEPT ![r.length] = z]
    BY <1>2, <2>1 DEF Push, Vector
  <2> DEFINE p == Push(r, w, x)
             q == Push(r, p, y)
             o == Push(r, w, y)
  <2>3. w \in Vector(C) /\ w.at \in [Index -> C]
    BY <1>3 DEF Vector, C
  <2>4. p \in Vector(C) /\ p.at = [w.at EXCEPT ![r.length] = x]
    BY <2>2, <2>3
  <2>5. /\ o \in Vector(C) /\ o.length = r.length + 1
        /\ o.at = [w.at EXCEPT ![r.length] = y]
    BY <2>2, <2>3
  <2> HIDE DEF p, o
  <2>6. /\ q \in Vector(C) /\ q.length = r.length + 1
        /\ q.at = [p.at EXCEPT ![r.length] = y]
    BY <2>2, <2>4
  <2> HIDE DEF q
  <2>7. q.at = o.at
    BY <1>2, <2>3, <2>4, <2>5, <2>6
  <2>8. q = o
    BY <2>5, <2>6, <2>7, VectorsAreEqual
  <2> QED BY <2>8 DEF p, q, o
<1>6. ASSUME NEW i \in 0..n, i # 0 PROVE Push(r, Last(i - 1), c(i)) = Push(r, w, c(i))
  <2>1. ASSUME NEW j \in 1..n PROVE c(j) \in C
    <3>1. j - 1 \in Index
      BY <1>2 DEF Index
    <3>2. s.single.at[j - 1] \in GasConstraint
      BY <1>1, <3>1 DEF Vector
    <3> QED BY <3>2, FromSingleIsRight
  <2> HIDE DEF c, r, n, C
  <2>2. i \in 1..n /\ (i - 1 = 0 \/ i - 1 \in 1..n)
    BY <1>2, <1>6
  <2> QED BY <1>5, <2>1, <2>2
<1> HIDE DEF r, n, c
<1>7. g = [i \in 0..n |-> Step(g, i)]
  <2> SUFFICES ASSUME NEW i \in 0..n PROVE Last(i) = Step(g, i)
    OBVIOUS
  <2>1. CASE i = 0
    BY <2>1
  <2>2. CASE i # 0
    <3>1. i - 1 \in 0..n
      BY <1>2, <2>2
    <3>2. g[i - 1] = Last(i - 1)
      BY <3>1
    <3> HIDE DEF g
    <3> QED BY <1>6, <2>2, <3>2
  <2> QED BY <2>1, <2>2
<1>8. f = [i \in 0..n |-> Step(f, i)]
  <2> HIDE DEF g, Step
  <2> QED BY <1>7
<1> HIDE DEF f, g
<1> DEFINE T == {i \in Nat : i <= n => f[i] = Last(i)}
<1>9. 0 \in T
  BY <1>2, <1>8
<1>10. ASSUME NEW i \in Nat, i \in T PROVE i + 1 \in T
  <2> SUFFICES ASSUME i + 1 <= n PROVE f[i + 1] = Last(i + 1)
    OBVIOUS
  <2>1. i + 1 \in 0..n /\ i + 1 # 0 /\ (i + 1) - 1 = i /\ f[i] = Last(i)
    BY <1>2, <1>10
  <2>2. f[i + 1] = Push(r, f[(i + 1) - 1], c(i + 1))
    BY <1>8, <2>1
  <2>3. f[(i + 1) - 1] = Last((i + 1) - 1)
    BY <2>1
  <2>4. Push(r, Last((i + 1) - 1), c(i + 1)) = Push(r, w, c(i + 1))
    <3> HIDE DEF Last
    <3> QED BY <1>6, <2>1
  <2> HIDE DEF T
  <2> QED BY <2>1, <2>2, <2>3, <2>4
<1>11. n \in T
  <2>1. Nat \subseteq T
    <3> HIDE DEF T
    <3> QED BY <1>9, <1>10, NaturalInduction
  <2> QED BY <1>2, <2>1
<1>12. f[n] = Last(n)
  BY <1>2, <1>11
<1> QED BY <1>4, <1>12 DEF r, n, c, w

\* So does the migration to multi-gas constraints.  With nothing to migrate it
\* leaves what the clear leaves; else it ends with the last of the single-gas
\* constraints, and before it is a blank where the last constraint was.
LEMMA FromSinglesKeeps ==
  ASSUME NEW s, StorageInOrder(s), s.multi.length < Cap
  PROVE  /\ FromSingles(s, s) \in Vector(MultiGasConstraint)
         /\ RestIsBlank(FromSingles(s, s), NoMultiConstraint)
         /\ \A i \in Index : WeighsRight(FromSingles(s, s).at[i])
         /\ s.single.length = 0 =>
              FromSingles(s, s).length
                = IF s.multi.length = 0 THEN 0 ELSE s.multi.length - 1
         /\ s.single.length > 0 =>
              /\ FromSingles(s, s).length = s.multi.length + 1
              /\ FromSingles(s, s).at[s.multi.length]
                   = FromSingle(s.single.at[s.single.length - 1])
              /\ s.multi.length # 0 =>
                   FromSingles(s, s).at[s.multi.length - 1] = NoMultiConstraint
<1> DEFINE cleared == PopAll(s.multi, s.multi, NoMultiConstraint)
           c == FromSingle(s.single.at[s.single.length - 1])
<1>1. s.single \in Vector(GasConstraint) /\ s.multi \in Vector(MultiGasConstraint)
  BY DEF StorageInOrder, PricingStorage
<1>2. /\ cleared \in Vector(MultiGasConstraint)
      /\ RestIsBlank(cleared, NoMultiConstraint)
      /\ \A i \in Index : i >= s.multi.length => cleared.at[i] = NoMultiConstraint
      /\ \A i \in Index : cleared.at[i] \in {NoMultiConstraint, s.multi.at[i]}
      /\ s.multi.length = 0 => cleared = s.multi
      /\ s.multi.length # 0 => /\ cleared.length = s.multi.length - 1
                               /\ cleared.at[s.multi.length - 1] = NoMultiConstraint
  BY <1>1, BlanksAreRight, PopAllKeeps DEF StorageInOrder
<1>3. \A i \in Index : WeighsRight(cleared.at[i])
  BY <1>2, BlanksAreRight DEF StorageInOrder
<1>4. s.single.length \in 0..Cap
  BY <1>1 DEF Vector
<1>5. CASE s.single.length = 0
  <2>1. FromSingles(s, s) = cleared
    BY <1>5, PushesAreOne
  <2> HIDE DEF cleared
  <2> QED BY <1>2, <1>3, <1>5, <2>1
<1>6. CASE s.single.length > 0
  <2>1. s.single.at[s.single.length - 1] \in GasConstraint
    BY <1>1, <1>4, <1>6, BoundAssumption DEF Vector, Index
  <2>2. c \in MultiGasConstraint /\ WeighsRight(c)
    BY <2>1, FromSingleIsRight
  <2>3. FromSingles(s, s) = Push(s.multi, cleared, c)
    BY <1>4, <1>6, PushesAreOne
  <2> HIDE DEF cleared, c
  <2>4. /\ FromSingles(s, s) \in Vector(MultiGasConstraint)
        /\ RestIsBlank(FromSingles(s, s), NoMultiConstraint)
        /\ FromSingles(s, s).length = s.multi.length + 1
        /\ FromSingles(s, s).at[s.multi.length] = c
        /\ \A i \in Index : FromSingles(s, s).at[i] \in {c, cleared.at[i]}
    <3>1. /\ s.multi \in Vector(MultiGasConstraint)
          /\ cleared \in Vector(MultiGasConstraint) /\ c \in MultiGasConstraint
      BY <1>1, <1>2, <2>2
    <3>2. \A i \in Index : i >= s.multi.length => cleared.at[i] = NoMultiConstraint
      BY <1>2
    <3> DEFINE p == Push(s.multi, cleared, c)
    <3>3. /\ p \in Vector(MultiGasConstraint)
          /\ RestIsBlank(p, NoMultiConstraint)
          /\ p.length = s.multi.length + 1 /\ p.at[s.multi.length] = c
          /\ \A i \in Index : p.at[i] \in {c, cleared.at[i]}
      <4>1. s.multi.length < Cap
        OBVIOUS
      <4>2. \A r, w \in Vector(MultiGasConstraint), x \in MultiGasConstraint : \A b :
              r.length < Cap /\ (\A i \in Index : i >= r.length => w.at[i] = b) =>
                /\ Push(r, w, x) \in Vector(MultiGasConstraint)
                /\ RestIsBlank(Push(r, w, x), b)
                /\ Push(r, w, x).length = r.length + 1
                /\ Push(r, w, x).at[r.length] = x
                /\ \A i \in Index : Push(r, w, x).at[i] \in {x, w.at[i]}
        BY PushKeeps
      <4> QED BY <3>1, <3>2, <4>1, <4>2
    <3> QED BY Zenon, <2>3, <3>3
  <2>5. \A i \in Index : WeighsRight(FromSingles(s, s).at[i])
    BY <1>3, <2>2, <2>4
  <2>6. ASSUME s.multi.length # 0
        PROVE  FromSingles(s, s).at[s.multi.length - 1] = NoMultiConstraint
    <3>1. FromSingles(s, s).at = [cleared.at EXCEPT ![s.multi.length] = c]
      BY <1>2, <2>3 DEF Push, Vector
    <3>2. s.multi.length \in 0..Cap /\ Cap \in Nat
      BY <1>1, BoundAssumption DEF Vector
    <3>3. /\ s.multi.length - 1 \in Index /\ s.multi.length - 1 # s.multi.length
      BY <2>6, <3>2 DEF Index
    <3>4. cleared.at \in [Index -> MultiGasConstraint]
      BY <1>2 DEF Vector
    <3> QED BY <1>2, <2>6, <3>1, <3>3, <3>4
  <2> QED BY <1>6, <2>4, <2>5, <2>6 DEF c
<1> QED BY <1>4, <1>5, <1>6

\* A constraint that was migrated is not a blank: it weighs a resource.
LEMMA MigratedIsNotBlank ==
  ASSUME NEW c PROVE FromSingle(c) # NoMultiConstraint
<1>1. PICK k \in Kinds : k \in SingleKinds
  BY KindsAssumption
<1>2. FromSingle(c).weight[k] = 1 /\ NoMultiConstraint.weight[k] = 0
  BY <1>1 DEF FromSingle, Multi, NoMultiConstraint
<1> QED BY <1>2

-----------------------------------------------------------------------------
(* The invariant. *)

\* Both views of the storage are in order, and they are the same when a
\* transaction starts.
IInv ==
  /\ StorageInOrder(db)
  /\ StorageInOrder(jrn)
  /\ calls \in 0..MaxCalls
  /\ calls = 0 => jrn = db

\* With one call in a transaction, a call reads the storage that it writes.
LEMMA OneStorage ==
  ASSUME MaxCalls = 1, IInv, calls < MaxCalls
  PROVE  jrn = db /\ StorageInOrder(db)
BY DEF IInv

\* A call that leaves the storage in order keeps the invariant.
LEMMA CallKeeps ==
  ASSUME MaxCalls = 1, IInv, NEW s, StorageInOrder(s), Call(s)
  PROVE  IInv'
BY DEF IInv, Call

\* Calls that write one single-gas constraint in use.
LEMMA SingleSetterKeeps ==
  ASSUME MaxCalls = 1, IInv, NEW i \in Index, i < db.single.length,
         NEW c \in GasConstraint, Call([jrn EXCEPT !.single.at[i] = c])
  PROVE  IInv'
<1>1. jrn = db /\ StorageInOrder(db)
  BY OneStorage DEF Call
<1>2. db.single \in Vector(GasConstraint) /\ RestIsBlank(db.single, NoConstraint)
  BY <1>1 DEF StorageInOrder, PricingStorage
<1> DEFINE v == [db.single EXCEPT !.at[i] = c]
<1>3. v \in Vector(GasConstraint) /\ RestIsBlank(v, NoConstraint)
  BY <1>2, SetAtKeeps
<1>4. Call([db EXCEPT !.single = v])
  BY <1>1
<1> HIDE DEF v
<1>5. StorageInOrder([db EXCEPT !.single = v])
  BY <1>1, <1>3, PutSingle
<1> QED BY <1>4, <1>5, CallKeeps

\* Calls that write one multi-gas constraint in use.
LEMMA MultiSetterKeeps ==
  ASSUME MaxCalls = 1, IInv, NEW i \in Index, i < db.multi.length,
         NEW c \in MultiGasConstraint, WeighsRight(c),
         Call([jrn EXCEPT !.multi.at[i] = c])
  PROVE  IInv'
<1>1. jrn = db /\ StorageInOrder(db)
  BY OneStorage DEF Call
<1>2. /\ db.multi \in Vector(MultiGasConstraint)
      /\ RestIsBlank(db.multi, NoMultiConstraint)
      /\ \A j \in Index : WeighsRight(db.multi.at[j])
  BY <1>1 DEF StorageInOrder, PricingStorage
<1> DEFINE v == [db.multi EXCEPT !.at[i] = c]
<1>3. /\ v \in Vector(MultiGasConstraint)
      /\ RestIsBlank(v, NoMultiConstraint)
      /\ \A j \in Index : v.at[j] \in {c, db.multi.at[j]}
  BY <1>2, SetAtKeeps
<1>4. Call([db EXCEPT !.multi = v])
  BY <1>1
<1> HIDE DEF v
<1>5. \A j \in Index : WeighsRight(v.at[j])
  BY <1>2, <1>3
<1>6. StorageInOrder([db EXCEPT !.multi = v])
  BY <1>1, <1>3, <1>5, PutMulti
<1> QED BY <1>4, <1>6, CallKeeps

\* Every setter of a single-gas constraint keeps the invariant.
LEMMA SingleSettersKeep ==
  ASSUME MaxCalls = 1, IInv, NEW i \in Index, NEW v \in U64,
         SetTarget(i, v) \/ SetAdjustmentWindow(i, v) \/ SetBacklog(i, v)
  PROVE  IInv'
<1> DEFINE old == db.single.at[i]
           c1 == [old EXCEPT !.target = v]
           c2 == [old EXCEPT !.window = v]
           c3 == [old EXCEPT !.backlog = v]
<1>1. i < db.single.length /\ calls < MaxCalls
  BY DEF SetTarget, SetAdjustmentWindow, SetBacklog, Call
<1>2. jrn = db /\ StorageInOrder(db)
  BY <1>1, OneStorage
<1>3. old \in GasConstraint
  BY <1>2 DEF StorageInOrder, PricingStorage, Vector
<1>4. {c1, c2, c3} \subseteq GasConstraint
  BY <1>3 DEF GasConstraint
<1>5. \/ Call([jrn EXCEPT !.single.at[i] = c1])
      \/ Call([jrn EXCEPT !.single.at[i] = c2])
      \/ Call([jrn EXCEPT !.single.at[i] = c3])
  BY <1>2 DEF SetTarget, SetAdjustmentWindow, SetBacklog
<1> HIDE DEF c1, c2, c3
<1> QED BY <1>1, <1>4, <1>5, SingleSetterKeeps

\* Every setter of a multi-gas constraint keeps the invariant.
LEMMA MultiSettersKeep ==
  ASSUME MaxCalls = 1, IInv, NEW i \in Index,
         \/ \E v \in U64 : SetMultiTarget(i, v) \/ SetMultiBacklog(i, v)
         \/ \E v \in U32 : SetMultiAdjustmentWindow(i, v)
         \/ \E weight \in [Kinds -> U64] : SetResourceWeights(i, weight)
  PROVE  IInv'
<1> DEFINE old == db.multi.at[i]
<1>1. i < db.multi.length /\ calls < MaxCalls
  BY DEF SetMultiTarget, SetMultiAdjustmentWindow, SetMultiBacklog,
         SetResourceWeights, Call
<1>2. jrn = db /\ StorageInOrder(db)
  BY <1>1, OneStorage
<1>3. old \in MultiGasConstraint /\ WeighsRight(old)
  BY <1>2 DEF StorageInOrder, PricingStorage, Vector
<1>4. ASSUME NEW v \in U64, SetMultiTarget(i, v) PROVE IInv'
  <2> DEFINE c == [old EXCEPT !.target = v]
  <2>1. c \in MultiGasConstraint /\ WeighsRight(c)
    BY <1>3 DEF MultiGasConstraint, WeighsRight
  <2>2. Call([jrn EXCEPT !.multi.at[i] = c])
    BY <1>2, <1>4 DEF SetMultiTarget
  <2> HIDE DEF c
  <2> QED BY <1>1, <2>1, <2>2, MultiSetterKeeps
<1>5. ASSUME NEW v \in U64, SetMultiBacklog(i, v) PROVE IInv'
  <2> DEFINE c == [old EXCEPT !.backlog = v]
  <2>1. c \in MultiGasConstraint /\ WeighsRight(c)
    BY <1>3 DEF MultiGasConstraint, WeighsRight
  <2>2. Call([jrn EXCEPT !.multi.at[i] = c])
    BY <1>2, <1>5 DEF SetMultiBacklog
  <2> HIDE DEF c
  <2> QED BY <1>1, <2>1, <2>2, MultiSetterKeeps
<1>6. ASSUME NEW v \in U32, SetMultiAdjustmentWindow(i, v) PROVE IInv'
  <2> DEFINE c == [old EXCEPT !.window = v]
  <2>1. c \in MultiGasConstraint /\ WeighsRight(c)
    BY <1>3 DEF MultiGasConstraint, WeighsRight
  <2>2. Call([jrn EXCEPT !.multi.at[i] = c])
    BY <1>2, <1>6 DEF SetMultiAdjustmentWindow
  <2> HIDE DEF c
  <2> QED BY <1>1, <2>1, <2>2, MultiSetterKeeps
<1>7. ASSUME NEW weight \in [Kinds -> U64], SetResourceWeights(i, weight) PROVE IInv'
  <2> DEFINE c == [old EXCEPT !.weight = weight, !.maxWeight = LargestWeight(weight)]
  <2>1. LargestWeight(weight) \in U64
    BY LargestWeightIsLargest
  <2>2. c \in MultiGasConstraint
    BY <1>3, <2>1 DEF MultiGasConstraint
  <2>3. c.weight = weight /\ c.maxWeight = LargestWeight(weight)
    BY <1>3 DEF MultiGasConstraint
  <2>4. Call([jrn EXCEPT !.multi.at[i] = c])
    BY <1>2, <1>7 DEF SetResourceWeights
  <2> HIDE DEF c
  <2>5. WeighsRight(c)
    BY <2>3, LargestWeightIsLargest DEF WeighsRight
  <2> QED BY <1>1, <2>2, <2>4, <2>5, MultiSetterKeeps
<1> QED BY <1>4, <1>5, <1>6, <1>7

\* Every call that changes the single-gas constraints as a vector.
LEMMA SingleCallsKeep ==
  ASSUME MaxCalls = 1, IInv,
         \/ \E target \in Targets, window \in Windows, backlog \in Backlogs :
              AddGasConstraint(target, window, backlog)
         \/ ClearGasConstraints
         \/ SetGasConstraintsFromLegacy
  PROVE  IInv'
<1>1. calls < MaxCalls
  BY DEF AddGasConstraint, ClearGasConstraints, SetGasConstraintsFromLegacy, Call
<1>2. jrn = db /\ StorageInOrder(db)
  BY <1>1, OneStorage
<1>3. db.single \in Vector(GasConstraint) /\ RestIsBlank(db.single, NoConstraint)
  BY <1>2 DEF StorageInOrder, PricingStorage
<1>4. ASSUME NEW v \in Vector(GasConstraint), RestIsBlank(v, NoConstraint),
             Call([db EXCEPT !.single = v])
      PROVE  IInv'
  BY <1>2, <1>4, PutSingle, CallKeeps
<1>5. ASSUME NEW target \in Targets, NEW window \in Windows,
             NEW backlog \in Backlogs, AddGasConstraint(target, window, backlog)
      PROVE  IInv'
  <2> DEFINE c == [target |-> target, window |-> window, backlog |-> backlog]
             v == Push(db.single, db.single, c)
  <2>1. c \in GasConstraint
    BY ConstraintAssumption DEF GasConstraint
  <2>2. db.single.length < Cap /\ Call([db EXCEPT !.single = v])
    BY <1>2, <1>5 DEF AddGasConstraint
  <2> HIDE DEF c
  <2>3. \A i \in Index : i >= db.single.length => db.single.at[i] = NoConstraint
    BY <1>3 DEF RestIsBlank
  <2>4. v \in Vector(GasConstraint) /\ RestIsBlank(v, NoConstraint)
    BY <1>3, <2>1, <2>2, <2>3, PushKeeps
  <2> HIDE DEF v
  <2> QED BY <1>4, <2>2, <2>4
<1>6. ASSUME ClearGasConstraints PROVE IInv'
  <2> DEFINE v == PopAll(db.single, db.single, NoConstraint)
  <2>1. Call([db EXCEPT !.single = v])
    BY <1>2, <1>6 DEF ClearGasConstraints
  <2>2. v \in Vector(GasConstraint) /\ RestIsBlank(v, NoConstraint)
    BY <1>3, BlanksAreRight, PopAllKeeps
  <2> HIDE DEF v
  <2> QED BY <1>4, <2>1, <2>2
<1>7. ASSUME SetGasConstraintsFromLegacy PROVE IInv'
  <2>1. db.single.length < Cap /\ Call([db EXCEPT !.single = FromLegacy(db, db)])
    BY <1>2, <1>7 DEF SetGasConstraintsFromLegacy
  <2> QED BY <1>2, <1>4, <2>1, FromLegacyKeeps
<1> QED BY <1>5, <1>6, <1>7

\* Every call that changes the multi-gas constraints as a vector.
LEMMA MultiCallsKeep ==
  ASSUME MaxCalls = 1, IInv,
         \/ \E target \in Targets, window \in MultiWindows, backlog \in Backlogs,
               weight \in Weights :
              AddMultiGasConstraint(target, window, backlog, weight)
         \/ ClearMultiGasConstraints
         \/ SetMultiGasConstraintsFromSingleGasConstraints
  PROVE  IInv'
<1>1. calls < MaxCalls
  BY DEF AddMultiGasConstraint, ClearMultiGasConstraints,
         SetMultiGasConstraintsFromSingleGasConstraints, Call
<1>2. jrn = db /\ StorageInOrder(db)
  BY <1>1, OneStorage
<1>3. /\ db.multi \in Vector(MultiGasConstraint)
      /\ RestIsBlank(db.multi, NoMultiConstraint)
      /\ \A i \in Index : WeighsRight(db.multi.at[i])
  BY <1>2 DEF StorageInOrder, PricingStorage
<1>4. ASSUME NEW v \in Vector(MultiGasConstraint),
             RestIsBlank(v, NoMultiConstraint), \A i \in Index : WeighsRight(v.at[i]),
             Call([db EXCEPT !.multi = v])
      PROVE  IInv'
  BY <1>2, <1>4, PutMulti, CallKeeps
<1>5. ASSUME NEW target \in Targets, NEW window \in MultiWindows,
             NEW backlog \in Backlogs, NEW weight \in Weights,
             AddMultiGasConstraint(target, window, backlog, weight)
      PROVE  IInv'
  <2> DEFINE c == Multi(target, window, backlog, weight)
             v == Push(db.multi, db.multi, c)
  <2>1. c \in MultiGasConstraint /\ WeighsRight(c)
    BY ConstraintAssumption, MultiIsRight
  <2>2. db.multi.length < Cap /\ Call([db EXCEPT !.multi = v])
    BY <1>2, <1>5 DEF AddMultiGasConstraint
  <2> HIDE DEF c
  <2>3. \A i \in Index : i >= db.multi.length => db.multi.at[i] = NoMultiConstraint
    BY <1>3 DEF RestIsBlank
  <2>4. /\ v \in Vector(MultiGasConstraint)
        /\ RestIsBlank(v, NoMultiConstraint)
        /\ \A i \in Index : v.at[i] \in {c, db.multi.at[i]}
    <3>1. db.multi \in Vector(MultiGasConstraint) /\ c \in MultiGasConstraint
      BY <1>3, <2>1
    <3>2. db.multi.length < Cap
      BY <2>2
    <3> QED BY <2>3, <3>1, <3>2, PushKeeps
  <2> HIDE DEF v
  <2>5. \A i \in Index : WeighsRight(v.at[i])
    BY <1>3, <2>1, <2>4
  <2> QED BY <1>4, <2>2, <2>4, <2>5
<1>6. ASSUME ClearMultiGasConstraints PROVE IInv'
  <2> DEFINE v == PopAll(db.multi, db.multi, NoMultiConstraint)
  <2>1. Call([db EXCEPT !.multi = v])
    BY <1>2, <1>6 DEF ClearMultiGasConstraints
  <2>2. /\ v \in Vector(MultiGasConstraint)
        /\ RestIsBlank(v, NoMultiConstraint)
        /\ \A i \in Index : v.at[i] \in {NoMultiConstraint, db.multi.at[i]}
    BY <1>3, BlanksAreRight, PopAllKeeps
  <2> HIDE DEF v
  <2>3. \A i \in Index : WeighsRight(v.at[i])
    BY <1>3, <2>2, BlanksAreRight
  <2> QED BY <1>4, <2>1, <2>2, <2>3
<1>7. ASSUME SetMultiGasConstraintsFromSingleGasConstraints PROVE IInv'
  <2>1. db.multi.length < Cap /\ Call([db EXCEPT !.multi = FromSingles(db, db)])
    BY <1>2, <1>7 DEF SetMultiGasConstraintsFromSingleGasConstraints
  <2> QED BY <1>2, <1>4, <2>1, FromSinglesKeeps
<1> QED BY <1>5, <1>6, <1>7

\* A parameter is set: what migrations read stays a u64.
LEMMA SetParamKeeps ==
  ASSUME MaxCalls = 1, IInv, NEW p \in Params, NEW v \in Values[p], SetParam(p, v)
  PROVE  IInv'
<1>1. calls < MaxCalls
  BY DEF SetParam, Call
<1>2. jrn = db /\ StorageInOrder(db)
  BY <1>1, OneStorage
<1> DEFINE s == [db EXCEPT !.param[p] = v]
<1>3. Call(s)
  BY <1>2 DEF SetParam
<1>4. db.param \in ParamStorage /\ db \in PricingStorage
  BY <1>2 DEF StorageInOrder, PricingStorage
<1>5. [db.param EXCEPT ![p] = v] \in ParamStorage
  BY <1>4, ParamsAssumption DEF ParamStorage
<1>6. s \in PricingStorage
  BY <1>4, <1>5 DEF PricingStorage
<1>7. s.single = db.single /\ s.multi = db.multi
  BY <1>4 DEF PricingStorage
<1> HIDE DEF s
<1>8. StorageInOrder(s)
  BY <1>2, <1>6, <1>7 DEF StorageInOrder
<1> QED BY <1>3, <1>8, CallKeeps

\* Fees are set for the next block, or become those of the current one.
LEMMA FeesKeep ==
  ASSUME MaxCalls = 1, IInv,
         \/ \E k \in Kinds : \E fee \in Fees[k] : SetNextBlockFee(k, fee)
         \/ CommitNextToCurrent
  PROVE  IInv'
<1>1. calls < MaxCalls
  BY DEF SetNextBlockFee, CommitNextToCurrent, Call
<1>2. jrn = db /\ StorageInOrder(db)
  BY <1>1, OneStorage
<1>3. /\ db \in PricingStorage
      /\ db.nextFees \in BlockFees /\ db.currentFees \in BlockFees
  BY <1>2 DEF StorageInOrder, PricingStorage
<1>4. ASSUME NEW k \in Kinds, NEW fee \in Fees[k], SetNextBlockFee(k, fee)
      PROVE  IInv'
  <2> DEFINE s == [db EXCEPT !.nextFees[k] = fee]
  <2>1. Call(s)
    BY <1>2, <1>4 DEF SetNextBlockFee
  <2>2. [db.nextFees EXCEPT ![k] = fee] \in BlockFees
    BY <1>3 DEF BlockFees
  <2>3. s \in PricingStorage
    BY <1>3, <2>2 DEF PricingStorage
  <2>4. s.single = db.single /\ s.multi = db.multi
    BY <1>3 DEF PricingStorage
  <2> HIDE DEF s
  <2>5. StorageInOrder(s)
    BY <1>2, <2>3, <2>4 DEF StorageInOrder
  <2> QED BY <2>1, <2>5, CallKeeps
<1>5. ASSUME CommitNextToCurrent PROVE IInv'
  <2> DEFINE s == [db EXCEPT !.currentFees = db.nextFees]
  <2>1. Call(s)
    BY <1>2, <1>5 DEF CommitNextToCurrent
  <2>2. s \in PricingStorage
    BY <1>3 DEF PricingStorage
  <2>3. s.single = db.single /\ s.multi = db.multi
    BY <1>3 DEF PricingStorage
  <2> HIDE DEF s
  <2>4. StorageInOrder(s)
    BY <1>2, <2>2, <2>3 DEF StorageInOrder
  <2> QED BY <2>1, <2>4, CallKeeps
<1> QED BY <1>4, <1>5

\* The initial states have the invariant.
LEMMA InitInvariant == Init => IInv
BY InitInOrder, MaxCallsAssumption DEF Init, JournalInit, IInv

\* Every step keeps the invariant.
LEMMA StepInvariant ==
  ASSUME MaxCalls = 1, IInv, [Next]_txVars
  PROVE  IInv'
<1>1. ASSUME NEW p \in Params, NEW v \in Values[p], SetParam(p, v) PROVE IInv'
  BY <1>1, SetParamKeeps
<1>2. ASSUME \/ \E target \in Targets, window \in Windows, backlog \in Backlogs :
                  AddGasConstraint(target, window, backlog)
             \/ ClearGasConstraints
             \/ SetGasConstraintsFromLegacy
      PROVE  IInv'
  BY <1>2, SingleCallsKeep
<1>3. ASSUME \/ \E target \in Targets, window \in MultiWindows,
                   backlog \in Backlogs, weight \in Weights :
                  AddMultiGasConstraint(target, window, backlog, weight)
             \/ ClearMultiGasConstraints
             \/ SetMultiGasConstraintsFromSingleGasConstraints
      PROVE  IInv'
  BY <1>3, MultiCallsKeep
<1>4. ASSUME NEW i \in Index,
             \/ \E v \in Targets : SetTarget(i, v)
             \/ \E v \in Windows : SetAdjustmentWindow(i, v)
             \/ \E v \in Backlogs : SetBacklog(i, v)
      PROVE  IInv'
  BY <1>4, SingleSettersKeep, ConstraintAssumption
<1>5. ASSUME NEW i \in Index,
             \/ \E v \in Targets : SetMultiTarget(i, v)
             \/ \E v \in MultiWindows : SetMultiAdjustmentWindow(i, v)
             \/ \E v \in Backlogs : SetMultiBacklog(i, v)
             \/ \E weight \in Weights : SetResourceWeights(i, weight)
      PROVE  IInv'
  BY <1>5, MultiSettersKeep, ConstraintAssumption
<1>6. ASSUME \/ \E k \in Kinds : \E fee \in Fees[k] : SetNextBlockFee(k, fee)
             \/ CommitNextToCurrent
      PROVE  IInv'
  BY <1>6, FeesKeep
<1>7. ASSUME Commit PROVE IInv'
  BY <1>7, MaxCallsAssumption DEF Commit, IInv
<1>8. ASSUME Revert PROVE IInv'
  BY <1>8, MaxCallsAssumption DEF Revert, IInv
<1>9. ASSUME UNCHANGED txVars PROVE IInv'
  BY <1>9 DEF txVars, IInv
<1> QED BY <1>1, <1>2, <1>3, <1>4, <1>5, <1>6, <1>7, <1>8, <1>9 DEF Next

\* The invariant holds in every reachable state.
THEOREM Invariance == ASSUME MaxCalls = 1 PROVE Spec => []IInv
<1>1. Init => IInv
  BY InitInvariant
<1>2. IInv /\ [Next]_txVars => IInv'
  BY StepInvariant
<1> QED BY <1>1, <1>2, PTL DEF Spec

-----------------------------------------------------------------------------
(* The theorems. *)

\* Every value of the L2 pricing stays in the width of its integer, the windows
\* that a migration cuts to u32 too.
THEOREM TypeCorrect == ASSUME MaxCalls = 1 PROVE Spec => []TypeOK
<1>1. IInv => TypeOK
  BY DEF IInv, TypeOK, StorageInOrder
<1> QED BY <1>1, Invariance, PTL

\* Storage beyond the end of both vectors is clear after every transaction.
THEOREM RestStaysClear == ASSUME MaxCalls = 1 PROVE Spec => []NothingIsLeft
<1>1. IInv => NothingIsLeft
  BY DEF IInv, NothingIsLeft, StorageInOrder
<1> QED BY <1>1, Invariance, PTL

\* The stored largest weight of a constraint is that of its weights.
THEOREM MaximaAreRight == ASSUME MaxCalls = 1 PROVE Spec => []MaxWeightIsLargest
<1>1. IInv => MaxWeightIsLargest
  BY DEF IInv, MaxWeightIsLargest, StorageInOrder
<1> QED BY <1>1, Invariance, PTL

\* A migration keeps the backlog beyond the tolerated one exactly.
THEOREM LegacyBacklogsAreExact ==
  ASSUME MaxCalls = 1 PROVE Spec => LegacyBacklogIsExact
<1> DEFINE Step ==
      SetGasConstraintsFromLegacy =>
        LET p == db.param
            tolerated == p["backlog_tolerance"] * p["speed_limit_per_second"]
        IN jrn'.single.at[db.single.length].backlog =
             (IF tolerated < p["gas_backlog"] THEN p["gas_backlog"] - tolerated
              ELSE 0)
<1>1. ASSUME IInv, SetGasConstraintsFromLegacy
      PROVE  LET p == db.param
                 tolerated == p["backlog_tolerance"] * p["speed_limit_per_second"]
             IN jrn'.single.at[db.single.length].backlog =
                  (IF tolerated < p["gas_backlog"] THEN p["gas_backlog"] - tolerated
                   ELSE 0)
  <2>1. /\ db.single.length < Cap /\ calls < MaxCalls
        /\ jrn' = [jrn EXCEPT !.single = FromLegacy(db, jrn)]
    BY <1>1 DEF SetGasConstraintsFromLegacy, Call
  <2>2. jrn = db /\ StorageInOrder(db)
    BY <1>1, <2>1, OneStorage
  <2>3. db \in PricingStorage /\ db.param \in ParamStorage
    BY <2>2 DEF StorageInOrder, PricingStorage
  <2>4. jrn'.single = FromLegacy(db, db)
    BY <2>1, <2>2, <2>3 DEF PricingStorage
  <2>5. jrn'.single.at[db.single.length].backlog = LegacyBacklog(db.param)
    BY <2>1, <2>2, <2>4, FromLegacyKeeps
  <2> QED BY <2>3, <2>5, LegacyBacklogIsRight
<1>2. IInv /\ [Next]_txVars => [Step]_txVars
  BY <1>1
<1> QED BY <1>2, Invariance, PTL DEF Spec, LegacyBacklogIsExact

\* A migration ends with the last single-gas constraint, and is whole exactly when
\* there is at most one constraint in both vectors.
THEOREM MigrationsAreOfOne == ASSUME MaxCalls = 1 PROVE Spec => MigratesAtMostOne
<1> DEFINE Step ==
      SetMultiGasConstraintsFromSingleGasConstraints =>
        /\ db.single.length > 0 =>
             Contents(jrn'.multi)[jrn'.multi.length]
               = Migrated(db)[db.single.length]
        /\ Contents(jrn'.multi) = Migrated(db)
             <=> db.single.length + db.multi.length <= 1
<1>1. ASSUME IInv, SetMultiGasConstraintsFromSingleGasConstraints
      PROVE  /\ db.single.length > 0 =>
                  Contents(jrn'.multi)[jrn'.multi.length]
                    = Migrated(db)[db.single.length]
             /\ Contents(jrn'.multi) = Migrated(db)
                  <=> db.single.length + db.multi.length <= 1
  <2> DEFINE n == db.single.length
             m == db.multi.length
             v == jrn'.multi
  <2>1. /\ db.multi.length < Cap /\ calls < MaxCalls
        /\ jrn' = [jrn EXCEPT !.multi = FromSingles(db, jrn)]
    BY <1>1 DEF SetMultiGasConstraintsFromSingleGasConstraints, Call
  <2>2. jrn = db /\ StorageInOrder(db)
    BY <1>1, <2>1, OneStorage
  <2>3. db \in PricingStorage /\ m \in Nat /\ n \in Nat
    BY <2>2 DEF StorageInOrder, PricingStorage, Vector
  <2>4. v = FromSingles(db, db)
    BY <2>1, <2>2, <2>3 DEF PricingStorage
  <2>5. /\ n = 0 => v.length = IF m = 0 THEN 0 ELSE m - 1
        /\ n > 0 => /\ v.length = m + 1
                    /\ v.at[m] = FromSingle(db.single.at[n - 1])
                    /\ m # 0 => v.at[m - 1] = NoMultiConstraint
    BY <2>1, <2>2, <2>4, FromSinglesKeeps
  <2>6. /\ Migrated(db) = [i \in 1..n |-> FromSingle(db.single.at[i - 1])]
        /\ Contents(v) = [i \in 1..v.length |-> v.at[i - 1]]
    BY DEF Migrated, Contents
  <2> HIDE DEF n, m, v
  <2>7. ASSUME n > 0 PROVE Contents(v)[v.length] = Migrated(db)[n]
    <3>1. n \in 1..n /\ v.length \in 1..v.length /\ v.length - 1 = m
      BY <2>3, <2>5, <2>7
    <3>2. Migrated(db)[n] = FromSingle(db.single.at[n - 1])
      BY <2>6, <3>1
    <3>3. Contents(v)[v.length] = v.at[v.length - 1]
      BY <2>6, <3>1
    <3> QED BY <2>5, <2>7, <3>1, <3>2, <3>3
  <2>8. v.length \in Nat
    BY <2>3, <2>5
  <2>9. ASSUME n + m <= 1 PROVE Contents(v) = Migrated(db)
    <3>1. CASE n = 0
      <4>1. v.length = 0
        BY <2>3, <2>5, <2>9, <3>1
      <4> QED BY <2>6, <3>1, <4>1
    <3>2. CASE n # 0
      <4>1. n = 1 /\ m = 0
        BY <2>3, <2>9, <3>2
      <4>2. v.length = 1 /\ v.at[0] = FromSingle(db.single.at[0])
        BY <2>5, <4>1
      <4>3. \A i \in 1..1 : i - 1 = 0
        OBVIOUS
      <4> QED BY <2>6, <4>1, <4>2, <4>3
    <3> QED BY <3>1, <3>2
  <2>10. ASSUME Contents(v) = Migrated(db) PROVE n + m <= 1
    <3> SUFFICES ASSUME n + m > 1 PROVE FALSE
      BY <2>3
    <3>1. v.length = n
      <4>1. DOMAIN Contents(v) = 1..v.length /\ DOMAIN Migrated(db) = 1..n
        BY <2>6
      <4>2. 1..v.length = 1..n
        BY <2>10, <4>1
      <4> QED BY <2>3, <2>8, <4>2
    <3>2. n = m + 1 /\ n > 0 /\ m # 0
      BY <2>3, <2>5, <3>1
    <3>3. m \in 1..n /\ m \in 1..v.length
      BY <2>3, <3>1, <3>2
    <3>4. v.at[m - 1] = FromSingle(db.single.at[m - 1])
      BY <2>6, <2>10, <3>3
    <3> QED BY <2>5, <3>2, <3>4, MigratedIsNotBlank
  <2> QED BY <2>7, <2>9, <2>10 DEF n, m, v
<1>2. IInv /\ [Next]_txVars => [Step]_txVars
  BY <1>1
<1> QED BY <1>2, Invariance, PTL DEF Spec, MigratesAtMostOne
=============================================================================
