---------------------------- MODULE BurnerProofs ----------------------------
(***************************************************************************)
(* Theorems about Burner, for every number of kinds, every width of the    *)
(* amounts and every set of arguments.                                     *)
(*                                                                         *)
(* The methods never look at the sum of the parts: they move the total by  *)
(* what they move a part by, or saturate both.  That a part is no larger   *)
(* than the total, which the checks of the code rely on, follows from the  *)
(* total being the sum.                                                    *)
(***************************************************************************)
EXTENDS Burner, WellFoundedInduction, TLAPS

-----------------------------------------------------------------------------
(* The sum of the parts.                                                   *)

\* A set that has zero and the successor of each of its numbers has them all.
LEMMA NaturalInduction ==
  ASSUME NEW T, 0 \in T, \A n \in Nat : n \in T => n + 1 \in T
  PROVE  Nat \subseteq T
<1> DEFINE Bad == Nat \ T
           Below == {p \in Nat \X Nat : p[1] < p[2]}
<1> SUFFICES ASSUME Bad # {} PROVE FALSE
  OBVIOUS
<1>1. IsWellFoundedOn(Below, Nat)
  BY NatLessThanWellFounded DEF OpToRel
<1>2. PICK m \in Bad : \A y \in Bad : <<y, m>> \notin Below
  <2>1. Bad \subseteq Nat
    OBVIOUS
  <2> HIDE DEF Below, Bad
  <2> QED BY <1>1, <2>1, WFMin
<1>3. m \in Nat /\ m # 0 /\ m - 1 \in Nat
  OBVIOUS
<1>4. <<m - 1, m>> \in Below
  BY <1>3
<1> QED BY <1>2, <1>3, <1>4

\* One part on top of the sum of the parts before it.
SumStep(gas, u, n) == IF n = 0 THEN 0 ELSE u[n - 1] + gas[n - 1]

\* u has the sums of the first parts of gas.
HasSums(u, gas) ==
  /\ PartsSum(gas) = u[Count]
  /\ \A n \in 0..Count : u[n] = SumStep(gas, u, n)

\* The recursion of the sum has a solution.
LEMMA SumsExist ==
  ASSUME NEW gas
  PROVE  \E u : u = [n \in 0..Count |-> SumStep(gas, u, n)]
<1> DEFINE UpTo(k, u) == \A n \in 0..Count : n <= k => u[n] = SumStep(gas, u, n)
           T == {k \in Nat : \E u : UpTo(k, u)}
<1>1. 0 \in T
  <2> DEFINE u == [n \in 0..Count |-> 0]
  <2>1. UpTo(0, u)
    BY DEF SumStep
  <2> QED BY <2>1
<1>2. ASSUME NEW k \in Nat, k \in T PROVE k + 1 \in T
  <2>1. PICK u : UpTo(k, u)
    BY <1>2
  <2> DEFINE w == [n \in 0..Count |-> SumStep(gas, u, n)]
  <2>2. UpTo(k + 1, w)
    <3> SUFFICES ASSUME NEW n \in 0..Count, n <= k + 1
                 PROVE  SumStep(gas, u, n) = SumStep(gas, w, n)
      OBVIOUS
    <3>1. CASE n = 0
      BY <3>1 DEF SumStep
    <3>2. CASE n # 0
      <4>1. n - 1 \in 0..Count /\ n - 1 <= k
        BY <3>2, CountAssumption
      <4>2. w[n - 1] = u[n - 1]
        BY <2>1, <4>1
      <4> QED BY <3>2, <4>2 DEF SumStep
    <3> QED BY <3>1, <3>2
  <2>3. \E f : UpTo(k + 1, f)
    <3> HIDE DEF w, UpTo
    <3> QED BY <2>2
  <2> QED BY <2>3
<1>3. Count \in T
  <2> HIDE DEF T
  <2> QED BY <1>1, <1>2, NaturalInduction, CountAssumption
<1>4. PICK u : UpTo(Count, u)
  BY <1>3
<1> DEFINE w == [n \in 0..Count |-> SumStep(gas, u, n)]
<1>5. \A n \in 0..Count : w[n] = u[n]
  BY <1>4, CountAssumption
<1>6. ASSUME NEW n \in 0..Count PROVE SumStep(gas, u, n) = SumStep(gas, w, n)
  <2>1. CASE n = 0
    BY <2>1 DEF SumStep
  <2>2. CASE n # 0
    <3>1. n - 1 \in 0..Count
      BY <2>2, CountAssumption
    <3>2. w[n - 1] = u[n - 1]
      BY <1>5, <3>1
    <3> HIDE DEF w
    <3> QED BY <2>2, <3>2 DEF SumStep
  <2> QED BY <2>1, <2>2
<1>7. w = [n \in 0..Count |-> SumStep(gas, w, n)]
  BY <1>6
<1> HIDE DEF w
<1> QED BY <1>7

\* What PartsSum computes.
LEMMA SumIsComputed ==
  ASSUME NEW gas
  PROVE  \E u : HasSums(u, gas)
<1> DEFINE u == CHOOSE f : f = [n \in 0..Count |-> SumStep(gas, f, n)]
<1>1. PartsSum(gas) = u[Count]
  BY Zenon DEF PartsSum, SumStep
<1>2. u = [n \in 0..Count |-> SumStep(gas, u, n)]
  BY SumsExist
<1> HIDE DEF u
<1>3. HasSums(u, gas)
  BY <1>1, <1>2 DEF HasSums
<1> QED BY <1>3

\* The part that comes next: the parts are those of the kinds.
LEMMA NextPart ==
  ASSUME NEW gas, NEW u, HasSums(u, gas), NEW n \in Nat, n + 1 <= Count
  PROVE  /\ u[n + 1] = u[n] + gas[n]
         /\ n \in Kind /\ n \in 0..Count
<1>1. n + 1 \in 0..Count /\ n + 1 # 0 /\ (n + 1) - 1 = n /\ n \in 0..Count
  BY CountAssumption
<1>2. n \in Kind
  BY CountAssumption DEF Kind
<1> QED BY <1>1, <1>2 DEF HasSums, SumStep

\* Without parts there is no sum.
LEMMA FirstSum ==
  ASSUME NEW gas, NEW u, HasSums(u, gas)
  PROVE  u[0] = 0
BY CountAssumption DEF HasSums, SumStep

\* A sum of amounts is a natural number, and no part is larger.
LEMMA PartIsWithinSum ==
  ASSUME NEW gas \in [Kind -> Nat]
  PROVE  /\ PartsSum(gas) \in Nat
         /\ \A k \in Kind : gas[k] <= PartsSum(gas)
<1>1. PICK u : HasSums(u, gas)
  BY SumIsComputed
<1> DEFINE T == {n \in Nat : n <= Count =>
                   u[n] \in Nat /\ \A k \in Kind : k < n => gas[k] <= u[n]}
<1>2. 0 \in T
  BY <1>1, FirstSum DEF Kind
<1>3. ASSUME NEW n \in Nat, n \in T PROVE n + 1 \in T
  <2> SUFFICES ASSUME n + 1 <= Count
               PROVE  /\ u[n + 1] \in Nat
                      /\ \A k \in Kind : k < n + 1 => gas[k] <= u[n + 1]
    OBVIOUS
  <2>1. u[n + 1] = u[n] + gas[n] /\ n \in Kind
    BY <1>1, NextPart
  <2>2. n <= Count
    BY CountAssumption
  <2>3. u[n] \in Nat /\ \A k \in Kind : k < n => gas[k] <= u[n]
    BY <1>3, <2>2
  <2>4. gas[n] \in Nat
    BY <2>1
  <2>5. u[n + 1] \in Nat /\ u[n] <= u[n + 1] /\ gas[n] <= u[n + 1]
    BY <2>1, <2>3, <2>4
  <2>6. ASSUME NEW k \in Kind, k < n + 1 PROVE gas[k] <= u[n + 1]
    <3>1. CASE k = n
      BY <2>5, <3>1
    <3>2. CASE k # n
      <4>1. k < n
        BY <2>6, <3>2, CountAssumption DEF Kind
      <4>2. gas[k] <= u[n] /\ gas[k] \in Nat
        BY <2>3, <4>1
      <4> QED BY <2>3, <2>5, <4>2
    <3> QED BY <3>1, <3>2
  <2> QED BY <2>5, <2>6
<1>4. Count \in T
  <2> HIDE DEF T
  <2> QED BY <1>2, <1>3, NaturalInduction, CountAssumption
<1>5. \A k \in Kind : k < Count
  BY CountAssumption DEF Kind
<1> QED BY <1>1, <1>4, <1>5, CountAssumption DEF HasSums

\* Setting one part moves the sum by the difference.
LEMMA SumOfChange ==
  ASSUME NEW gas \in [Kind -> Nat], NEW k \in Kind, NEW a \in Nat
  PROVE  PartsSum([gas EXCEPT ![k] = a]) = (PartsSum(gas) - gas[k]) + a
<1> DEFINE new == [gas EXCEPT ![k] = a]
<1>1. PICK u : HasSums(u, gas)
  BY SumIsComputed
<1>2. PICK w : HasSums(w, new)
  BY SumIsComputed
<1> DEFINE change == a - gas[k]
           T == {n \in Nat : n <= Count =>
                   u[n] \in Int /\ w[n] = u[n] + (IF k < n THEN change ELSE 0)}
<1>3. gas[k] \in Nat /\ change \in Int /\ k \in Nat /\ k < Count
  BY CountAssumption DEF Kind
<1>4. \A j \in Kind : new[j] = IF j = k THEN a ELSE gas[j]
  OBVIOUS
<1> HIDE DEF new
<1>5. 0 \in T
  BY <1>1, <1>2, <1>3, FirstSum
<1>6. ASSUME NEW n \in Nat, n \in T PROVE n + 1 \in T
  <2> SUFFICES ASSUME n + 1 <= Count
               PROVE  /\ u[n + 1] \in Int
                      /\ w[n + 1] = u[n + 1] + (IF k < n + 1 THEN change ELSE 0)
    OBVIOUS
  <2>1. u[n + 1] = u[n] + gas[n] /\ w[n + 1] = w[n] + new[n] /\ n \in Kind
    BY <1>1, <1>2, NextPart
  <2>2. n <= Count /\ gas[n] \in Nat
    BY <2>1, CountAssumption
  <2>3. u[n] \in Int /\ w[n] = u[n] + (IF k < n THEN change ELSE 0)
    BY <1>6, <2>2
  <2>4. new[n] = IF n = k THEN a ELSE gas[n]
    BY <1>4, <2>1
  <2>5. CASE n = k
    BY <1>3, <2>1, <2>2, <2>3, <2>4, <2>5
  <2>6. CASE n # k
    BY <1>3, <2>1, <2>2, <2>3, <2>4, <2>6
  <2> QED BY <2>5, <2>6
<1>7. Count \in T
  <2> HIDE DEF T
  <2> QED BY <1>5, <1>6, NaturalInduction, CountAssumption
<1>8. u[Count] \in Int /\ w[Count] = u[Count] + change
  BY <1>3, <1>7, CountAssumption
<1> QED BY <1>1, <1>2, <1>3, <1>8 DEF HasSums, new

\* Adding part by part adds the sums.
LEMMA SumOfSums ==
  ASSUME NEW f \in [Kind -> Nat], NEW g \in [Kind -> Nat]
  PROVE  PartsSum([k \in Kind |-> f[k] + g[k]]) = PartsSum(f) + PartsSum(g)
<1> DEFINE h == [k \in Kind |-> f[k] + g[k]]
<1>1. PICK u : HasSums(u, f)
  BY SumIsComputed
<1>2. PICK v : HasSums(v, g)
  BY SumIsComputed
<1>3. PICK w : HasSums(w, h)
  BY SumIsComputed
<1> DEFINE T == {n \in Nat : n <= Count =>
                   u[n] \in Int /\ v[n] \in Int /\ w[n] = u[n] + v[n]}
<1>4. \A k \in Kind : h[k] = f[k] + g[k]
  OBVIOUS
<1> HIDE DEF h
<1>5. 0 \in T
  BY <1>1, <1>2, <1>3, FirstSum
<1>6. ASSUME NEW n \in Nat, n \in T PROVE n + 1 \in T
  <2> SUFFICES ASSUME n + 1 <= Count
               PROVE  /\ u[n + 1] \in Int /\ v[n + 1] \in Int
                      /\ w[n + 1] = u[n + 1] + v[n + 1]
    OBVIOUS
  <2>1. /\ u[n + 1] = u[n] + f[n] /\ v[n + 1] = v[n] + g[n]
        /\ w[n + 1] = w[n] + h[n] /\ n \in Kind
    BY <1>1, <1>2, <1>3, NextPart
  <2>2. f[n] \in Nat /\ g[n] \in Nat /\ h[n] = f[n] + g[n] /\ n <= Count
    BY <1>4, <2>1, CountAssumption
  <2>3. u[n] \in Int /\ v[n] \in Int /\ w[n] = u[n] + v[n]
    BY <1>6, <2>2
  <2> QED BY <2>1, <2>2, <2>3
<1>7. Count \in T
  <2> HIDE DEF T
  <2> QED BY <1>5, <1>6, NaturalInduction, CountAssumption
<1>8. w[Count] = u[Count] + v[Count]
  BY <1>7, CountAssumption
<1> QED BY <1>1, <1>2, <1>3, <1>8 DEF HasSums, h

\* Nothing adds up to nothing.
LEMMA SumOfNothing == PartsSum([k \in Kind |-> 0]) = 0
<1> DEFINE z == [k \in Kind |-> 0]
<1>1. PICK u : HasSums(u, z)
  BY SumIsComputed
<1> DEFINE T == {n \in Nat : n <= Count => u[n] = 0}
<1>2. \A k \in Kind : z[k] = 0
  OBVIOUS
<1> HIDE DEF z
<1>3. 0 \in T
  BY <1>1, FirstSum
<1>4. ASSUME NEW n \in Nat, n \in T PROVE n + 1 \in T
  <2> SUFFICES ASSUME n + 1 <= Count PROVE u[n + 1] = 0
    OBVIOUS
  <2>1. u[n + 1] = u[n] + z[n] /\ n \in Kind /\ n <= Count
    BY <1>1, NextPart, CountAssumption
  <2> QED BY <1>2, <1>4, <2>1
<1>5. Count \in T
  <2> HIDE DEF T
  <2> QED BY <1>3, <1>4, NaturalInduction, CountAssumption
<1> QED BY <1>1, <1>5, CountAssumption DEF HasSums, z

-----------------------------------------------------------------------------
(* Values.                                                                 *)

\* The values that are passed have not lost gas: constructors make them so.
GivenAreSums == \A x \in Given : x.total = PartsSum(x.gas)

\* A value whose total is the sum of its parts.
IsSum(g) == g \in Gas /\ g.total = PartsSum(g.gas)

\* The fields of a value, and that no part of a sum is larger than the total.
LEMMA Fields ==
  ASSUME NEW g \in Gas
  PROVE  /\ g.gas \in [Kind -> Amount] /\ g.gas \in [Kind -> Nat]
         /\ \A k \in Kind : g.gas[k] \in Nat /\ g.gas[k] \in Amount
         /\ g.total \in Nat /\ g.total <= MaxGas
         /\ g.refund \in Nat /\ g.refund <= MaxGas
         /\ PartsSum(g.gas) \in Nat
         /\ IsSum(g) => \A k \in Kind : g.gas[k] <= g.total
<1>1. /\ g.gas \in [Kind -> Amount] /\ g.total \in Amount /\ g.refund \in Amount
      /\ Amount \subseteq Nat
  BY MaxGasAssumption DEF Gas, Amount
<1>2. g.gas \in [Kind -> Nat]
  BY <1>1
<1>3. PartsSum(g.gas) \in Nat /\ \A k \in Kind : g.gas[k] <= PartsSum(g.gas)
  BY <1>2, PartIsWithinSum
<1> QED BY <1>1, <1>2, <1>3, MaxGasAssumption DEF Amount, IsSum

\* A saturating sum is an amount, and the sum if that fits.
LEMMA SatAddIsCut ==
  ASSUME NEW a \in Nat, NEW b \in Nat
  PROVE  /\ SatAdd(a, b) \in Amount
         /\ a + b <= MaxGas => SatAdd(a, b) = a + b
         /\ SatAdd(a, b) = Cut(a + b)
BY MaxGasAssumption DEF SatAdd, Overflows, Amount, Cut

\* A saturating difference is an amount no larger than what is taken from.
LEMMA SatSubIsCut ==
  ASSUME NEW a \in Amount, NEW b \in Nat
  PROVE  SatSub(a, b) \in Amount
BY MaxGasAssumption DEF SatSub, Amount

\* A value that is put together anew has the sum of its parts for a total,
\* unless that is too large.
LEMMA RecomputeType ==
  ASSUME NEW g, NEW gas \in [Kind -> Amount], NEW total \in Amount,
         NEW refund \in Amount,
         g = [gas |-> gas, total |-> total, refund |-> refund]
  PROVE  /\ Recompute(g) \in Gas
         /\ PartsSum(gas) <= MaxGas => IsSum(Recompute(g))
         /\ Recompute(g).gas = gas /\ Recompute(g).refund = refund
<1> DEFINE sum == PartsSum(gas)
           cut == IF sum > MaxGas THEN MaxGas ELSE sum
<1>1. gas \in [Kind -> Nat]
  BY MaxGasAssumption DEF Amount
<1>2. sum \in Nat
  BY <1>1, PartIsWithinSum
<1>3. Recompute(g) = [gas |-> gas, total |-> cut, refund |-> refund]
  BY DEF Recompute
<1> HIDE DEF sum
<1>4. cut \in Amount /\ (sum <= MaxGas => cut = sum)
  BY <1>2, MaxGasAssumption DEF Amount
<1> HIDE DEF cut
<1> QED BY <1>3, <1>4 DEF Gas, IsSum, sum

\* The value without gas.
LEMMA ZeroIsSum == IsSum(ZeroGas) /\ ZeroGas.gas = [k \in Kind |-> 0]
<1>1. 0 \in Amount
  BY MaxGasAssumption DEF Amount
<1>2. ZeroGas \in Gas /\ ZeroGas.gas = [k \in Kind |-> 0] /\ ZeroGas.total = 0
  BY <1>1 DEF ZeroGas, Gas
<1> QED BY <1>2, SumOfNothing DEF IsSum

\* MultiGas::new: the amount is the total.
LEMMA NewIsSum ==
  ASSUME NEW id \in Kind, NEW a \in Amount
  PROVE  IsSum(NewGas(id, a))
<1>1. id \in Kind /\ a \in Nat
  BY MaxGasAssumption DEF Amount
<1> DEFINE zeros == [k \in Kind |-> 0]
           gas == [zeros EXCEPT ![id] = a]
<1>2. zeros \in [Kind -> Nat] /\ zeros[id] = 0 /\ PartsSum(zeros) = 0
  BY <1>1, SumOfNothing
<1> HIDE DEF zeros
<1>3. PartsSum(gas) = (0 - 0) + a
  BY <1>1, <1>2, SumOfChange
<1>4. /\ NewGas(id, a).gas = gas /\ NewGas(id, a).total = a
      /\ NewGas(id, a) \in Gas
  <2>1. 0 \in Amount
    BY MaxGasAssumption DEF Amount
  <2> QED BY <1>1, <2>1 DEF NewGas, ZeroGas, Gas, zeros
<1> HIDE DEF gas
<1> QED BY <1>1, <1>3, <1>4 DEF IsSum

\* A non-empty set of places in a sequence has a last one.
LEMMA LastPlace ==
  ASSUME NEW m \in Nat, NEW at \in SUBSET (1..m), at # {}
  PROVE  \E i \in at : \A j \in at : j <= i
<1> DEFINE HasLast(s) == \E i \in s : \A j \in s : j <= i
           T == {n \in Nat : at \cap 1..n = {} \/ HasLast(at \cap 1..n)}
<1>1. 0 \in T
  OBVIOUS
<1>2. ASSUME NEW n \in Nat, n \in T PROVE n + 1 \in T
  <2>1. CASE n + 1 \in at
    <3>1. n + 1 \in at \cap 1..(n + 1) /\ \A j \in at \cap 1..(n + 1) : j <= n + 1
      BY <2>1
    <3>2. HasLast(at \cap 1..(n + 1))
      BY <3>1
    <3> QED BY <3>2
  <2>2. CASE n + 1 \notin at
    <3>1. at \cap 1..(n + 1) = at \cap 1..n
      BY <2>2
    <3> QED BY <1>2, <3>1
  <2> QED BY <2>1, <2>2
<1>3. m \in T
  <2> HIDE DEF T
  <2> QED BY <1>1, <1>2, NaturalInduction
<1>4. at \cap 1..m = at
  OBVIOUS
<1> QED BY <1>3, <1>4

\* MultiGas::from_pairs: the total is the sum, or the call panics.
LEMMA FromPairsIsSum ==
  ASSUME NEW pairs \in Pairs, ~FromPairsPanics(pairs)
  PROVE  IsSum(FromPairs(pairs))
<1> DEFINE parts == PartsOf(pairs)
<1>0. 0 \in Amount
  BY MaxGasAssumption DEF Amount
<1>1. pairs \in Seq([kind: Kind, amount: Amount])
  BY PairsAssumption, Zenon
<1>2. parts \in [Kind -> Amount]
  <2> SUFFICES ASSUME NEW k \in Kind PROVE parts[k] \in Amount
    BY DEF PartsOf
  <2> DEFINE at == {i \in DOMAIN pairs : pairs[i].kind = k}
             last == CHOOSE i \in at : \A j \in at : j <= i
  <2>1. parts[k] = IF at = {} THEN 0 ELSE pairs[last].amount
    BY DEF PartsOf
  <2>2. at \in SUBSET (1..Len(pairs)) /\ Len(pairs) \in Nat
    BY <1>1
  <2>3. at # {} => last \in at
    <3> HIDE DEF at
    <3> QED BY <2>2, LastPlace
  <2>4. at # {} => pairs[last].amount \in Amount
    <3>1. ASSUME NEW i \in DOMAIN pairs PROVE pairs[i].amount \in Amount
      <4> DEFINE Pair == [kind: Kind, amount: Amount]
      <4>1. pairs \in Seq(Pair) /\ i \in DOMAIN pairs
        BY <1>1
      <4> HIDE DEF Pair
      <4>2. pairs[i] \in Pair
        BY <4>1
      <4> QED BY <4>2 DEF Pair
    <3>2. at \subseteq DOMAIN pairs
      OBVIOUS
    <3> HIDE DEF at, last
    <3> QED BY <2>3, <3>1, <3>2
  <2> HIDE DEF at, last
  <2> QED BY <1>0, <2>1, <2>4
<1> HIDE DEF parts
<1>3. [ZeroGas EXCEPT !.gas = parts] = [gas |-> parts, total |-> 0, refund |-> 0]
  BY DEF ZeroGas
<1>4. PartsSum(parts) <= MaxGas
  <2>1. parts \in [Kind -> Nat]
    BY <1>2, MaxGasAssumption DEF Amount
  <2>2. PartsSum(parts) \in Nat
    BY <2>1, PartIsWithinSum
  <2> QED BY <2>2, MaxGasAssumption DEF FromPairsPanics, parts
<1> QED BY <1>0, <1>2, <1>3, <1>4, RecomputeType DEF FromPairs, parts

\* with(): what is set counts, and what was set before does not.
LEMMA WithIsSum ==
  ASSUME NEW g \in Gas, NEW k \in Kind, NEW a \in Amount
  PROVE  /\ With(g, k, a) \in Gas
         /\ IsSum(g) => IsSum(With(g, k, a))
         /\ IsSum(g) => /\ Base(g, k) = g.total - g.gas[k]
                        /\ PartsSum([g.gas EXCEPT ![k] = a]) = Base(g, k) + a
<1>1. /\ g.gas \in [Kind -> Amount] /\ g.gas \in [Kind -> Nat]
      /\ g.gas[k] \in Nat /\ g.total \in Nat /\ g.total <= MaxGas
      /\ IsSum(g) => g.gas[k] <= g.total
      /\ a \in Nat /\ MaxGas \in Nat
  BY Fields, MaxGasAssumption DEF Amount
<1> DEFINE base == Base(g, k)
           gas == [g.gas EXCEPT ![k] = a]
<1>2. base \in Nat
  BY <1>1 DEF Base, WrapSub
<1>3. IsSum(g) => base = g.total - g.gas[k]
  BY <1>1 DEF Base, WrapSub
<1>4. IsSum(g) => PartsSum(gas) = base + a
  <2>1. PartsSum(gas) = (PartsSum(g.gas) - g.gas[k]) + a
    BY <1>1, SumOfChange
  <2> HIDE DEF gas, base
  <2> QED BY <1>3, <2>1 DEF IsSum
<1>5. CASE WithFails(g, k, a)
  BY <1>3, <1>4, <1>5 DEF With
<1>6. CASE ~WithFails(g, k, a)
  <2>1. base + a \in Amount
    BY <1>1, <1>2, <1>6 DEF WithFails, Overflows, Amount
  <2>2. With(g, k, a) = [g EXCEPT !.gas = gas, !.total = base + a]
    BY <1>6 DEF With, Gas
  <2>3. gas \in [Kind -> Amount]
    BY <1>1
  <2> HIDE DEF gas, base
  <2>4. /\ With(g, k, a) \in Gas /\ With(g, k, a).gas = gas
        /\ With(g, k, a).total = base + a
    BY <2>1, <2>2, <2>3 DEF Gas
  <2> QED BY <1>3, <1>4, <2>4 DEF IsSum, gas, base
<1> QED BY <1>5, <1>6

\* saturating_add: without a total that overflows, nothing saturates.
LEMMA SaturatingAddIsSum ==
  ASSUME NEW g \in Gas, NEW x \in Gas
  PROVE  /\ SaturatingAdd(g, x) \in Gas
         /\ SaturatingAdd(g, x).total = Cut(g.total + x.total)
         /\ SaturatingAdd(g, x).refund = Cut(g.refund + x.refund)
         /\ \A k \in Kind : SaturatingAdd(g, x).gas[k] = Cut(g.gas[k] + x.gas[k])
         /\ IsSum(g) /\ IsSum(x) /\ ~Overflows(g.total, x.total)
              => IsSum(SaturatingAdd(g, x))
<1> DEFINE gas == [k \in Kind |-> SatAdd(g.gas[k], x.gas[k])]
           sums == [k \in Kind |-> g.gas[k] + x.gas[k]]
<1>1. /\ g.gas \in [Kind -> Nat] /\ x.gas \in [Kind -> Nat]
      /\ \A k \in Kind : g.gas[k] \in Nat /\ x.gas[k] \in Nat
      /\ g.total \in Nat /\ x.total \in Nat /\ g.refund \in Nat /\ x.refund \in Nat
      /\ IsSum(g) => \A k \in Kind : g.gas[k] <= g.total
      /\ IsSum(x) => \A k \in Kind : x.gas[k] <= x.total
  BY Fields
<1>2. gas \in [Kind -> Amount]
  BY <1>1, SatAddIsCut
<1>3. /\ SatAdd(g.total, x.total) \in Amount
      /\ SatAdd(g.total, x.total) = Cut(g.total + x.total)
      /\ g.total + x.total <= MaxGas => SatAdd(g.total, x.total) = g.total + x.total
      /\ SatAdd(g.refund, x.refund) \in Amount
      /\ SatAdd(g.refund, x.refund) = Cut(g.refund + x.refund)
  BY <1>1, SatAddIsCut
<1>4. SaturatingAdd(g, x)
        = [gas |-> gas, total |-> SatAdd(g.total, x.total),
           refund |-> SatAdd(g.refund, x.refund)]
  BY DEF SaturatingAdd
<1>5. ASSUME IsSum(g), IsSum(x), ~Overflows(g.total, x.total)
      PROVE  PartsSum(gas) = g.total + x.total /\ g.total + x.total <= MaxGas
  <2>1. g.total + x.total <= MaxGas
    BY <1>1, <1>5, MaxGasAssumption DEF Overflows
  <2>2. ASSUME NEW k \in Kind PROVE SatAdd(g.gas[k], x.gas[k]) = g.gas[k] + x.gas[k]
    <3>1. g.gas[k] + x.gas[k] <= MaxGas
      <4>1. g.gas[k] <= g.total /\ x.gas[k] <= x.total
        BY <1>1, <1>5
      <4> QED BY <1>1, <2>1, <4>1, MaxGasAssumption
    <3> QED BY <1>1, <3>1, SatAddIsCut
  <2>3. gas = sums
    BY <2>2
  <2>4. PartsSum(sums) = PartsSum(g.gas) + PartsSum(x.gas)
    BY <1>1, SumOfSums
  <2> QED BY <1>5, <2>1, <2>3, <2>4 DEF IsSum
<1>6. \A k \in Kind : gas[k] = Cut(g.gas[k] + x.gas[k])
  BY <1>1, SatAddIsCut
<1> HIDE DEF gas
<1> QED BY <1>2, <1>3, <1>4, <1>5, <1>6 DEF IsSum, Gas

\* saturating_increment: the same for one part.
LEMMA IncrementIsSum ==
  ASSUME NEW g \in Gas, NEW k \in Kind, NEW a \in Amount
  PROVE  /\ SaturatingIncrement(g, k, a) \in Gas
         /\ SaturatingIncrement(g, k, a).total = Cut(g.total + a)
         /\ SaturatingIncrement(g, k, a).refund = g.refund
         /\ SaturatingIncrement(g, k, a).gas
              = [g.gas EXCEPT ![k] = Cut(g.gas[k] + a)]
         /\ IsSum(g) /\ ~Overflows(g.total, a) => IsSum(SaturatingIncrement(g, k, a))
<1> DEFINE part == SatAdd(g.gas[k], a)
           gas == [g.gas EXCEPT ![k] = part]
           total == SatAdd(g.total, a)
<1>1. /\ g.gas \in [Kind -> Amount] /\ g.gas \in [Kind -> Nat]
      /\ g.gas[k] \in Nat /\ g.total \in Nat
      /\ IsSum(g) => g.gas[k] <= g.total
      /\ a \in Nat /\ MaxGas \in Nat
  BY Fields, MaxGasAssumption DEF Amount
<1>2. /\ part \in Amount /\ part \in Nat
      /\ g.gas[k] + a <= MaxGas => part = g.gas[k] + a
      /\ total \in Amount /\ total = Cut(g.total + a)
      /\ g.total + a <= MaxGas => total = g.total + a
  <2>1. /\ part \in Amount
        /\ g.gas[k] + a <= MaxGas => part = g.gas[k] + a
        /\ total \in Amount /\ total = Cut(g.total + a)
        /\ g.total + a <= MaxGas => total = g.total + a
    BY <1>1, SatAddIsCut
  <2>2. Amount \subseteq Nat
    BY <1>1 DEF Amount
  <2> QED BY <2>1, <2>2
<1>8. part = Cut(g.gas[k] + a)
  BY <1>1, SatAddIsCut
<1>3. SaturatingIncrement(g, k, a) = [g EXCEPT !.gas = gas, !.total = total]
  BY DEF SaturatingIncrement, Gas
<1>4. gas \in [Kind -> Amount]
  BY <1>1, <1>2
<1> HIDE DEF part
<1>5. PartsSum(gas) = (PartsSum(g.gas) - g.gas[k]) + part
  BY <1>1, <1>2, SumOfChange
<1> HIDE DEF gas, total
<1>6. /\ SaturatingIncrement(g, k, a) \in Gas
      /\ SaturatingIncrement(g, k, a).gas = gas
      /\ SaturatingIncrement(g, k, a).total = total
      /\ SaturatingIncrement(g, k, a).refund = g.refund
  BY <1>2, <1>3, <1>4 DEF Gas
<1>7. ASSUME IsSum(g), ~Overflows(g.total, a) PROVE PartsSum(gas) = total
  <2>1. g.total + a <= MaxGas /\ g.gas[k] <= g.total /\ PartsSum(g.gas) = g.total
    BY <1>1, <1>7 DEF Overflows, IsSum
  <2>2. part = g.gas[k] + a /\ total = g.total + a
    BY <1>1, <1>2, <2>1
  <2> QED BY <1>1, <1>5, <2>1, <2>2
<1>9. gas = [g.gas EXCEPT ![k] = Cut(g.gas[k] + a)]
  BY Zenon, <1>8 DEF gas
<1> QED BY <1>2, <1>6, <1>7, <1>9 DEF IsSum

\* saturating_sub: the total is computed anew, from parts that may be more than
\* a total holds.
LEMMA SaturatingSubIsSum ==
  ASSUME NEW g \in Gas, NEW x \in Gas
  PROVE  /\ SaturatingSub(g, x) \in Gas
         /\ ~(PartsSum(PartsLess(g, x).gas) > MaxGas) => IsSum(SaturatingSub(g, x))
<1> DEFINE gas == [k \in Kind |-> SatSub(g.gas[k], x.gas[k])]
           refund == SatSub(g.refund, x.refund)
<1>1. /\ \A k \in Kind : g.gas[k] \in Amount /\ x.gas[k] \in Nat
      /\ g.refund \in Amount /\ x.refund \in Nat /\ g.total \in Amount
  BY Fields DEF Gas
<1>2. gas \in [Kind -> Amount] /\ refund \in Amount
  BY <1>1, SatSubIsCut
<1>3. PartsLess(g, x) = [gas |-> gas, total |-> g.total, refund |-> refund]
  <2>1. PartsLess(g, x) = [g EXCEPT !.gas = gas, !.refund = refund]
    BY DEF PartsLess, Gas
  <2> HIDE DEF gas, refund
  <2> QED BY <2>1 DEF Gas
<1>4. gas \in [Kind -> Nat]
  BY <1>2, MaxGasAssumption DEF Amount
<1> HIDE DEF gas, refund
<1>5. PartsSum(gas) \in Nat /\ PartsLess(g, x).gas = gas
  BY <1>3, <1>4, PartIsWithinSum
<1>6. /\ SaturatingSub(g, x) \in Gas
      /\ PartsSum(gas) <= MaxGas => IsSum(SaturatingSub(g, x))
  BY <1>1, <1>2, <1>3, RecomputeType DEF SaturatingSub
<1> QED BY <1>5, <1>6, MaxGasAssumption

\* saturating_decrement: the total goes down with the part.
LEMMA DecrementIsSum ==
  ASSUME NEW g \in Gas, NEW k \in Kind, NEW a \in Amount
  PROVE  /\ SaturatingDecrement(g, k, a) \in Gas
         /\ IsSum(g) => IsSum(SaturatingDecrement(g, k, a))
<1> DEFINE reduced == IF a < g.gas[k] THEN a ELSE g.gas[k]
           part == g.gas[k] - reduced
           gas == [g.gas EXCEPT ![k] = part]
           total == SatSub(g.total, reduced)
<1>1. /\ g.gas \in [Kind -> Amount] /\ g.gas \in [Kind -> Nat]
      /\ g.gas[k] \in Nat /\ g.gas[k] \in Amount
      /\ g.total \in Nat /\ g.total \in Amount
      /\ IsSum(g) => g.gas[k] <= g.total
      /\ a \in Nat /\ MaxGas \in Nat
  BY Fields, MaxGasAssumption DEF Amount
<1>2. reduced \in Nat /\ reduced <= g.gas[k]
  BY <1>1
<1> HIDE DEF reduced
<1>3. /\ part \in Amount /\ part \in Nat /\ total \in Amount
      /\ reduced <= g.total => total = g.total - reduced
  BY <1>1, <1>2 DEF SatSub, Amount
<1>4. SaturatingDecrement(g, k, a) = [g EXCEPT !.gas = gas, !.total = total]
  BY DEF SaturatingDecrement, Gas, reduced
<1>5. gas \in [Kind -> Amount]
  BY <1>1, <1>3
<1>6. PartsSum(gas) = (PartsSum(g.gas) - g.gas[k]) + part
  <2> HIDE DEF part
  <2> QED BY <1>1, <1>3, SumOfChange
<1> HIDE DEF gas, total
<1>7. /\ SaturatingDecrement(g, k, a) \in Gas
      /\ SaturatingDecrement(g, k, a).gas = gas
      /\ SaturatingDecrement(g, k, a).total = total
  BY <1>3, <1>4, <1>5 DEF Gas
<1>8. ASSUME IsSum(g) PROVE PartsSum(gas) = total
  <2>1. g.gas[k] <= g.total /\ PartsSum(g.gas) = g.total
    BY <1>1, <1>8 DEF IsSum
  <2> QED BY <1>1, <1>2, <1>3, <1>6, <2>1
<1> QED BY <1>7, <1>8 DEF IsSum

-----------------------------------------------------------------------------
(* The invariant.                                                          *)

\* The burner has the exact sums of its charges, each cut as a whole.
HasCharges ==
  /\ burnt.total = Cut(PartsSum(charged.gas))
  /\ burnt.refund = Cut(charged.refund)

\* Each part of the burner has its charges, cut, whatever they were.
HasParts == \A k \in Kind : burnt.gas[k] = Cut(charged.gas[k])

BInv ==
  /\ TypeOK
  /\ HasParts
  /\ GivenAreSums => (~clamped => IsSum(value)) /\ (sound => HasCharges)

\* Cutting a sum that was cut before is cutting it once.
LEMMA CutOnce ==
  ASSUME NEW m \in Nat, NEW n \in Nat
  PROVE  Cut(Cut(m) + n) = Cut(m + n) /\ Cut(n) \in Nat
BY MaxGasAssumption DEF Cut

\* A method that leaves a sum, or a total that lost gas, keeps the invariant.
LEMMA BecomesKeeps ==
  ASSUME BInv, NEW g \in Gas, NEW c \in BOOLEAN,
         GivenAreSums /\ ~c => IsSum(g), Becomes(g, c)
  PROVE  BInv'
BY DEF BInv, TypeOK, Becomes, burnerVars, HasCharges, HasParts

\* The initial state has the invariant.
LEMMA BurnerInit == Init => BInv
<1> SUFFICES ASSUME Init PROVE BInv
  OBVIOUS
<1>1. IsSum(ZeroGas) /\ PartsSum([k \in Kind |-> 0]) = 0
  BY ZeroIsSum, SumOfNothing
<1>2. NothingCharged \in [gas: [Kind -> Nat], refund: Nat]
  BY DEF NothingCharged
<1>3. Cut(0) = 0
  BY MaxGasAssumption DEF Cut
<1>4. burnt.total = 0 /\ burnt.refund = 0
  BY DEF Init, ZeroGas
<1>5. charged.gas = [k \in Kind |-> 0] /\ charged.refund = 0
  BY DEF Init, NothingCharged
<1>6. HasCharges
  BY <1>1, <1>3, <1>4, <1>5 DEF HasCharges
<1>7. TypeOK
  <2>1. ZeroGas \in Gas /\ 0 \in 0..MaxBurns
    BY <1>1, MaxBurnsAssumption DEF IsSum
  <2> QED BY <1>2, <2>1 DEF Init, TypeOK
<1>8. HasParts
  <2>1. burnt.gas = [k \in Kind |-> 0]
    BY ZeroIsSum DEF Init
  <2> QED BY <1>3, <1>5, <2>1 DEF HasParts
<1> QED BY <1>1, <1>6, <1>7, <1>8 DEF Init, BInv

\* A charge of one kind goes into one part, the total and the sum alike.
LEMMA BurnKeeps ==
  ASSUME BInv, NEW k \in Kind, NEW a \in Amount, Burn(k, a)
  PROVE  BInv'
<1> DEFINE more == [charged.gas EXCEPT ![k] = charged.gas[k] + a]
           sum == PartsSum(charged.gas)
<1>1. /\ burnt \in Gas /\ charged \in [gas: [Kind -> Nat], refund: Nat]
      /\ burns \in Nat /\ a \in Nat
  BY MaxBurnsAssumption, MaxGasAssumption DEF BInv, TypeOK, Amount
<1>2. /\ charged.gas \in [Kind -> Nat] /\ charged.gas[k] \in Nat
      /\ charged' = [charged EXCEPT !.gas = more]
  BY <1>1 DEF Burn
<1>3. more \in [Kind -> Nat] /\ PartsSum(more) = (sum - charged.gas[k]) + (charged.gas[k] + a)
  <2>1. charged.gas[k] + a \in Nat
    BY <1>1, <1>2
  <2> DEFINE part == charged.gas[k] + a
  <2> HIDE DEF part
  <2>2. PartsSum([charged.gas EXCEPT ![k] = part]) = (sum - charged.gas[k]) + part
    BY <1>2, <2>1, SumOfChange DEF part
  <2> QED BY <1>2, <2>1, <2>2 DEF part
<1>4. sum \in Nat
  BY <1>2, PartIsWithinSum
<1> HIDE DEF more, sum
<1>5. PartsSum(more) = sum + a
  BY <1>1, <1>2, <1>3, <1>4
<1>6. /\ charged'.gas = more /\ charged'.refund = charged.refund
      /\ charged' \in [gas: [Kind -> Nat], refund: Nat]
  BY <1>1, <1>2, <1>3
<1>7. /\ burnt' \in Gas /\ burnt'.total = Cut(burnt.total + a)
      /\ burnt'.refund = burnt.refund
  BY <1>1, IncrementIsSum DEF Burn
<1>8. ASSUME HasCharges PROVE HasCharges'
  <2>1. burnt.total = Cut(sum) /\ burnt.refund = Cut(charged.refund)
    BY <1>8 DEF HasCharges, sum
  <2>2. burnt'.total = Cut(PartsSum(charged'.gas))
    BY <1>1, <1>4, <1>5, <1>6, <1>7, <2>1, CutOnce
  <2> QED BY <1>6, <1>7, <2>1, <2>2 DEF HasCharges
<1>9. /\ burns' \in 0..MaxBurns
      /\ value' = value /\ clamped' = clamped /\ sound' = sound
  BY <1>1, MaxBurnsAssumption DEF Burn
<1>10. HasParts'
  <2> SUFFICES ASSUME NEW j \in Kind PROVE burnt'.gas[j] = Cut(charged'.gas[j])
    BY DEF HasParts
  <2>1. burnt.gas[j] = Cut(charged.gas[j]) /\ charged.gas[j] \in Nat
    BY <1>2 DEF BInv, HasParts
  <2>2. burnt'.gas[j] = IF j = k THEN Cut(burnt.gas[k] + a) ELSE burnt.gas[j]
    <3>1. burnt'.gas = [burnt.gas EXCEPT ![k] = Cut(burnt.gas[k] + a)]
      BY <1>1, IncrementIsSum DEF Burn
    <3> QED BY <1>1, <3>1 DEF Gas
  <2>3. charged'.gas[j] = IF j = k THEN charged.gas[k] + a ELSE charged.gas[j]
    BY <1>2, <1>6 DEF more
  <2>4. CASE j = k
    BY <1>1, <2>1, <2>2, <2>3, <2>4, CutOnce
  <2>5. CASE j # k
    BY <2>1, <2>2, <2>3, <2>5
  <2> QED BY <2>4, <2>5
<1> QED BY <1>6, <1>7, <1>8, <1>9, <1>10 DEF BInv, TypeOK

\* A charge of a value goes into all of them.
LEMMA BurnMultiGasKeeps ==
  ASSUME BInv, BurnMultiGas
  PROVE  BInv'
<1> DEFINE more == [k \in Kind |-> charged.gas[k] + value.gas[k]]
           sum == PartsSum(charged.gas)
           parts == PartsSum(value.gas)
<1>1. /\ burnt \in Gas /\ value \in Gas
      /\ charged \in [gas: [Kind -> Nat], refund: Nat]
      /\ burns \in Nat /\ burns < MaxBurns /\ burns' = burns + 1
      /\ clamped \in BOOLEAN /\ sound \in BOOLEAN
  BY MaxBurnsAssumption DEF BInv, TypeOK, BurnMultiGas
<1>2. /\ charged.gas \in [Kind -> Nat] /\ charged.refund \in Nat
      /\ value.gas \in [Kind -> Nat] /\ value.refund \in Nat /\ value.total \in Nat
  BY <1>1, Fields
<1>3. PartsSum(more) = sum + parts
  BY <1>2, SumOfSums
<1>4. sum \in Nat /\ parts \in Nat /\ more \in [Kind -> Nat]
  BY <1>2, PartIsWithinSum
<1>5. charged' = [gas |-> more, refund |-> charged.refund + value.refund]
  BY DEF BurnMultiGas
<1> HIDE DEF more, sum, parts
<1>6. /\ charged'.gas = more /\ charged'.refund = charged.refund + value.refund
      /\ charged' \in [gas: [Kind -> Nat], refund: Nat]
  BY <1>2, <1>4, <1>5
<1>7. /\ burnt' \in Gas /\ burnt'.total = Cut(burnt.total + value.total)
      /\ burnt'.refund = Cut(burnt.refund + value.refund)
  BY <1>1, SaturatingAddIsSum DEF BurnMultiGas
<1>8. ASSUME HasCharges, IsSum(value) PROVE HasCharges'
  <2>1. burnt.total = Cut(sum) /\ burnt.refund = Cut(charged.refund)
    BY <1>8 DEF HasCharges, sum
  <2>2. value.total = parts
    BY <1>8 DEF IsSum, parts
  <2>3. burnt'.total = Cut(sum + parts)
    BY <1>4, <1>7, <2>1, <2>2, CutOnce
  <2>4. burnt'.refund = Cut(charged.refund + value.refund)
    <3>1. Cut(Cut(charged.refund) + value.refund) = Cut(charged.refund + value.refund)
      BY <1>2, CutOnce
    <3> QED BY <1>7, <2>1, <3>1
  <2> QED BY <1>3, <1>6, <2>3, <2>4 DEF HasCharges
<1>9. /\ burns' \in 0..MaxBurns /\ value' = value /\ clamped' = clamped
      /\ sound' = (sound /\ ~clamped)
  BY <1>1, MaxBurnsAssumption DEF BurnMultiGas
<1>10. TypeOK'
  BY <1>1, <1>6, <1>7, <1>9 DEF TypeOK
<1>11. ASSUME GivenAreSums
       PROVE  (~clamped' => IsSum(value')) /\ (sound' => HasCharges')
  BY <1>8, <1>9, <1>11 DEF BInv
<1>12. HasParts'
  <2> SUFFICES ASSUME NEW j \in Kind PROVE burnt'.gas[j] = Cut(charged'.gas[j])
    BY DEF HasParts
  <2>1. /\ burnt.gas[j] = Cut(charged.gas[j])
        /\ charged.gas[j] \in Nat /\ value.gas[j] \in Nat
    BY <1>2 DEF BInv, HasParts
  <2>2. burnt'.gas[j] = Cut(burnt.gas[j] + value.gas[j])
    BY <1>1, SaturatingAddIsSum DEF BurnMultiGas
  <2>3. charged'.gas[j] = charged.gas[j] + value.gas[j]
    BY <1>6 DEF more
  <2> QED BY <2>1, <2>2, <2>3, CutOnce
<1> QED BY <1>10, <1>11, <1>12 DEF BInv, GivenAreSums

\* Every step keeps the invariant.
LEMMA BurnerStep ==
  ASSUME BInv, [Next]_vars
  PROVE  BInv'
<1>0. /\ value \in Gas /\ clamped \in BOOLEAN
      /\ GivenAreSums /\ ~clamped => IsSum(value)
  BY DEF BInv, TypeOK
<1>1. ASSUME NEW k \in Kind, NEW a \in Amount, NewCall(k, a) PROVE BInv'
  <2>1. IsSum(NewGas(k, a)) /\ Becomes(NewGas(k, a), FALSE)
    BY <1>1, NewIsSum DEF NewCall
  <2> QED BY <2>1, BecomesKeeps DEF IsSum
<1>2. ASSUME NEW pairs \in Pairs, FromPairsCall(pairs) PROVE BInv'
  <2>1. IsSum(FromPairs(pairs)) /\ Becomes(FromPairs(pairs), FALSE)
    BY <1>2, FromPairsIsSum DEF FromPairsCall
  <2> QED BY <2>1, BecomesKeeps DEF IsSum
<1>3. ASSUME NEW k \in Kind, NEW a \in Amount, WithCall(k, a) PROVE BInv'
  <2>1. /\ With(value, k, a) \in Gas
        /\ IsSum(value) => IsSum(With(value, k, a))
    BY <1>0, WithIsSum
  <2> QED BY <1>0, <1>3, <2>1, BecomesKeeps DEF WithCall
<1>4. ASSUME NEW a \in Amount, WithRefundCall(a) PROVE BInv'
  <2>1. /\ WithRefund(value, a) \in Gas
        /\ WithRefund(value, a).gas = value.gas
        /\ WithRefund(value, a).total = value.total
    BY <1>0 DEF WithRefund, Gas
  <2> QED BY <1>0, <1>4, <2>1, BecomesKeeps DEF WithRefundCall, IsSum
<1>5. ASSUME NEW k \in Kind, NEW a \in Amount, SafeIncrementCall(k, a) PROVE BInv'
  <2>1. /\ SaturatingIncrement(value, k, a) \in Gas
        /\ IsSum(value) /\ ~Overflows(value.total, a)
             => IsSum(SaturatingIncrement(value, k, a))
    BY <1>0, IncrementIsSum
  <2>2. /\ SafeIncrement(value, k, a) \in Gas
        /\ IsSum(value) => IsSum(SafeIncrement(value, k, a))
    BY <1>0, <2>1 DEF SafeIncrement, SafeIncrementFails
  <2> QED BY <1>0, <1>5, <2>2, BecomesKeeps DEF SafeIncrementCall
<1>6. ASSUME NEW k \in Kind, NEW a \in Amount, SaturatingIncrementCall(k, a)
      PROVE  BInv'
  <2> DEFINE c == clamped \/ Overflows(value.total, a)
  <2>1. /\ SaturatingIncrement(value, k, a) \in Gas
        /\ IsSum(value) /\ ~Overflows(value.total, a)
             => IsSum(SaturatingIncrement(value, k, a))
    BY <1>0, IncrementIsSum
  <2>2. c \in BOOLEAN /\ Becomes(SaturatingIncrement(value, k, a), c)
    BY <1>0, <1>6 DEF SaturatingIncrementCall, Overflows
  <2>3. GivenAreSums /\ ~c => IsSum(SaturatingIncrement(value, k, a))
    BY <1>0, <2>1
  <2> HIDE DEF c
  <2> QED BY <2>1, <2>2, <2>3, BecomesKeeps
<1>7. ASSUME NEW k \in Kind, NEW a \in Amount, SaturatingDecrementCall(k, a)
      PROVE  BInv'
  <2>1. /\ SaturatingDecrement(value, k, a) \in Gas
        /\ IsSum(value) => IsSum(SaturatingDecrement(value, k, a))
    BY <1>0, DecrementIsSum
  <2> QED BY <1>0, <1>7, <2>1, BecomesKeeps DEF SaturatingDecrementCall
<1>8. ASSUME NEW x \in Given
      PROVE  /\ x \in Gas /\ (GivenAreSums => IsSum(x))
             /\ SaturatingAdd(value, x) \in Gas
             /\ GivenAreSums /\ ~clamped /\ ~Overflows(value.total, x.total)
                  => IsSum(SaturatingAdd(value, x))
             /\ SaturatingSub(value, x) \in Gas
             /\ ~StillClamped(x) => IsSum(SaturatingSub(value, x))
  <2>1. x \in Gas /\ (GivenAreSums => IsSum(x))
    BY GivenAssumption DEF GivenAreSums, IsSum
  <2>2. /\ SaturatingAdd(value, x) \in Gas
        /\ IsSum(value) /\ IsSum(x) /\ ~Overflows(value.total, x.total)
             => IsSum(SaturatingAdd(value, x))
    BY <1>0, <2>1, SaturatingAddIsSum
  <2>3. /\ SaturatingSub(value, x) \in Gas
        /\ ~StillClamped(x) => IsSum(SaturatingSub(value, x))
    BY <1>0, <2>1, SaturatingSubIsSum DEF StillClamped
  <2> QED BY <1>0, <2>1, <2>2, <2>3
<1>9. ASSUME NEW x \in Given, SafeAddCall(x) PROVE BInv'
  <2>1. /\ SafeAdd(value, x) \in Gas
        /\ GivenAreSums /\ ~clamped => IsSum(SafeAdd(value, x))
    BY <1>0, <1>8, <1>9 DEF SafeAdd, SafeAddFails
  <2> QED BY <1>0, <1>9, <2>1, BecomesKeeps DEF SafeAddCall
<1>10. ASSUME NEW x \in Given, SaturatingAddCall(x) PROVE BInv'
  <2> DEFINE c == clamped \/ Overflows(value.total, x.total)
  <2>1. c \in BOOLEAN /\ Becomes(SaturatingAdd(value, x), c)
    BY <1>0, <1>10 DEF SaturatingAddCall, Overflows
  <2>2. /\ SaturatingAdd(value, x) \in Gas
        /\ GivenAreSums /\ ~c => IsSum(SaturatingAdd(value, x))
    BY <1>8, <1>10
  <2> HIDE DEF c
  <2> QED BY <2>1, <2>2, BecomesKeeps
<1>11. ASSUME NEW x \in Given, SafeSubCall(x) \/ SaturatingSubCall(x) PROVE BInv'
  <2>1. Becomes(SaturatingSub(value, x), StillClamped(x))
    BY <1>11 DEF SafeSubCall, SaturatingSubCall, SafeSub
  <2>2. /\ StillClamped(x) \in BOOLEAN /\ SaturatingSub(value, x) \in Gas
        /\ ~StillClamped(x) => IsSum(SaturatingSub(value, x))
    BY <1>8, <1>11 DEF StillClamped
  <2> QED BY <2>1, <2>2, BecomesKeeps
<1>12. ASSUME UNCHANGED vars PROVE BInv'
  BY <1>12 DEF vars, BInv, TypeOK, HasCharges, HasParts, GivenAreSums
<1> QED BY <1>1, <1>2, <1>3, <1>4, <1>5, <1>6, <1>7, <1>9, <1>10, <1>11, <1>12,
           BurnKeeps, BurnMultiGasKeeps DEF Next

\* The invariant holds in every reachable state.
THEOREM BurnerInvariance == Spec => []BInv
<1>1. Init => BInv
  BY BurnerInit
<1>2. BInv /\ [Next]_vars => BInv'
  BY BurnerStep
<1> QED BY <1>1, <1>2, PTL DEF Spec

\* Every amount stays in its width, whatever values are passed to the methods.
THEOREM BurnerTypeCorrect == Spec => []TypeOK
<1>1. BInv => TypeOK
  BY DEF BInv
<1> QED BY <1>1, BurnerInvariance, PTL

\* The total is the sum of the parts until it loses gas.
THEOREM TotalIsSumOfParts == ASSUME GivenAreSums PROVE Spec => []TotalIsSum
<1>1. BInv => TotalIsSum
  BY DEF BInv, TotalIsSum, IsSum
<1> QED BY <1>1, BurnerInvariance, PTL

\* The checked methods refuse what does not fit and nothing else: the test of
\* the single part follows from that of the total.
THEOREM ChecksRefuseExactly == ASSUME GivenAreSums PROVE Spec => []ChecksAreExact
<1>1. ASSUME GivenAreSums, BInv PROVE ChecksAreExact
  <2> SUFFICES ASSUME ~clamped
               PROVE  /\ \A k \in Kind, a \in Amount :
                           /\ WithFails(value, k, a)
                                <=> PartsSum([value.gas EXCEPT ![k] = a]) > MaxGas
                           /\ SafeIncrementFails(value, k, a)
                                <=> PartsSum(value.gas) + a > MaxGas
                      /\ \A x \in Given :
                           SafeAddFails(value, x)
                             <=> \/ PartsSum(value.gas) + PartsSum(x.gas) > MaxGas
                                 \/ value.refund + x.refund > MaxGas
    BY DEF ChecksAreExact
  <2>1. /\ value \in Gas /\ IsSum(value) /\ value.total = PartsSum(value.gas)
        /\ value.total \in Nat /\ MaxGas \in Nat
        /\ \A k \in Kind : value.gas[k] \in Nat /\ value.gas[k] <= value.total
    BY <1>1, Fields, MaxGasAssumption DEF BInv, TypeOK, IsSum
  <2>2. ASSUME NEW k \in Kind, NEW a \in Amount
        PROVE  /\ WithFails(value, k, a)
                    <=> PartsSum([value.gas EXCEPT ![k] = a]) > MaxGas
               /\ SafeIncrementFails(value, k, a)
                    <=> PartsSum(value.gas) + a > MaxGas
    <3>1. PartsSum([value.gas EXCEPT ![k] = a]) = Base(value, k) + a
      BY <2>1, WithIsSum
    <3>2. a \in Nat /\ value.gas[k] \in Nat /\ value.gas[k] <= value.total
      BY <2>1, MaxGasAssumption DEF Amount
    <3>3. WithFails(value, k, a)
            <=> PartsSum([value.gas EXCEPT ![k] = a]) > MaxGas
      BY <3>1 DEF WithFails, Overflows
    <3>4. SafeIncrementFails(value, k, a) <=> value.total + a > MaxGas
      BY <2>1, <3>2 DEF SafeIncrementFails, Overflows
    <3> QED BY <2>1, <3>3, <3>4
  <2>3. ASSUME NEW x \in Given
        PROVE  SafeAddFails(value, x)
                 <=> \/ PartsSum(value.gas) + PartsSum(x.gas) > MaxGas
                     \/ value.refund + x.refund > MaxGas
    <3>1. /\ x \in Gas /\ IsSum(x) /\ x.total = PartsSum(x.gas) /\ x.total \in Nat
          /\ \A k \in Kind : x.gas[k] \in Nat /\ x.gas[k] <= x.total
      <4>1. x \in Gas /\ x.total = PartsSum(x.gas)
        BY <1>1, GivenAssumption DEF GivenAreSums
      <4> QED BY <4>1, Fields DEF IsSum
    <3>2. ASSUME NEW k \in Kind, Overflows(value.gas[k], x.gas[k])
          PROVE  Overflows(value.total, x.total)
      <4>1. /\ value.gas[k] \in Nat /\ value.gas[k] <= value.total
            /\ x.gas[k] \in Nat /\ x.gas[k] <= x.total
        BY <2>1, <3>1
      <4> QED BY <2>1, <3>1, <3>2, <4>1 DEF Overflows
    <3> QED BY <2>1, <3>1, <3>2 DEF SafeAddFails, Overflows
  <2> QED BY <2>2, <2>3
<1> QED BY <1>1, BurnerInvariance, PTL

\* What a burner reports is the exact sum of its charges, cut, less the refund.
THEOREM BurnedIsExact == ASSUME GivenAreSums PROVE Spec => []BurnedCountsAllKinds
<1>1. ASSUME GivenAreSums, BInv PROVE BurnedCountsAllKinds
  <2> DEFINE total == burnt.total
             refund == burnt.refund
  <2>1. total \in Nat /\ refund \in Nat
    BY <1>1, Fields DEF BInv, TypeOK
  <2>2. refund <= total => SingleGas(burnt) + refund = total
    BY <2>1 DEF SingleGas, SatSub
  <2>3. sound => /\ total = Cut(PartsSum(charged.gas))
                 /\ refund = Cut(charged.refund)
    BY <1>1 DEF BInv, HasCharges
  <2> HIDE DEF total, refund
  <2> QED BY <1>1, <2>2, <2>3 DEF BInv, HasParts, BurnedCountsAllKinds
<1> QED BY <1>1, BurnerInvariance, PTL
=============================================================================
