------------------------------ MODULE MultiGas ------------------------------
(***************************************************************************)
(* crates/arbitrum/src/multigas/resources.rs: gas by kind of resource with *)
(* a total that is kept beside the parts, never derived from them on read, *)
(* and the refund of a transaction.  Values are immutable: a method is an  *)
(* operator that returns the new value, and a checked method has a second  *)
(* operator, ...Fails, for its flag.  A failed method returns its receiver *)
(* unchanged.                                                              *)
(***************************************************************************)
EXTENDS Integers

CONSTANTS
  Count,    \* the number of kinds, with the unknown kind 0; 8 in the code
  MaxGas    \* the largest u64

ASSUME CountAssumption == Count \in Nat \ {0, 1}
ASSUME MaxGasAssumption == MaxGas \in Nat \ {0}

Kind == 0..(Count - 1)

Amount == 0..MaxGas

Gas == [gas: [Kind -> Amount], total: Amount, refund: Amount]

-----------------------------------------------------------------------------
(* Scalars of the width of u64. *)

Overflows(a, b) == a + b > MaxGas

\* A sum that is not cut: a bug to catch.
SatAddWide(a, b) == a + b

SatAdd(a, b) == IF Overflows(a, b) THEN MaxGas ELSE a + b

SatSub(a, b) == IF b > a THEN 0 ELSE a - b

WrapSub(a, b) == (a - b) % (MaxGas + 1)

\* The sum of the parts of gas, without a width.
PartsSum(gas) ==
  LET upTo[n \in 0..Count] == IF n = 0 THEN 0 ELSE upTo[n - 1] + gas[n - 1]
  IN upTo[Count]

-----------------------------------------------------------------------------
(* Constructors. *)

ZeroGas == [gas |-> [k \in Kind |-> 0], total |-> 0, refund |-> 0]

NewGas(k, a) == [ZeroGas EXCEPT !.gas[k] = a, !.total = a]

\* recompute_total(): the total is the sum of the parts, u64::MAX if that is
\* too large.
Recompute(g) ==
  LET sum == PartsSum(g.gas)
  IN [g EXCEPT !.total = IF sum > MaxGas THEN MaxGas ELSE sum]

\* The parts that a sequence of pairs sets: of two pairs of one kind the later
\* one counts.
PartsOf(pairs) ==
  [k \in Kind |->
     LET at == {i \in DOMAIN pairs : pairs[i].kind = k}
     IN IF at = {} THEN 0
        ELSE pairs[CHOOSE i \in at : \A j \in at : j <= i].amount]

FromPairsPanics(pairs) == PartsSum(PartsOf(pairs)) > MaxGas

FromPairs(pairs) == Recompute([ZeroGas EXCEPT !.gas = PartsOf(pairs)])

-----------------------------------------------------------------------------
(* Methods that set. *)

\* The total without the part that is replaced; it wraps when the part is
\* larger than the total.
Base(g, k) == WrapSub(g.total, g.gas[k])

WithFails(g, k, a) == Overflows(Base(g, k), a)

\* The amount set before is not taken off the total: a bug to catch.
WithOnTop(g, k, a) ==
  IF WithFails(g, k, a) THEN g
  ELSE [g EXCEPT !.gas[k] = a, !.total = SatAdd(g.total, a)]

With(g, k, a) ==
  IF WithFails(g, k, a) THEN g
  ELSE [g EXCEPT !.gas[k] = a, !.total = Base(g, k) + a]

WithRefund(g, a) == [g EXCEPT !.refund = a]

SingleGas(g) == SatSub(g.total, g.refund)

-----------------------------------------------------------------------------
(* Methods that add. *)

\* The refunds are not looked at: a bug to catch.
SafeAddFailsNoRefund(g, x) ==
  \/ \E k \in Kind : Overflows(g.gas[k], x.gas[k])
  \/ Overflows(g.total, x.total)

SafeAddFails(g, x) ==
  \/ \E k \in Kind : Overflows(g.gas[k], x.gas[k])
  \/ Overflows(g.total, x.total)
  \/ Overflows(g.refund, x.refund)

\* saturating_add and saturating_add_into, which differ in place only.
SaturatingAdd(g, x) ==
  [gas |-> [k \in Kind |-> SatAdd(g.gas[k], x.gas[k])],
   total |-> SatAdd(g.total, x.total),
   refund |-> SatAdd(g.refund, x.refund)]

SafeAdd(g, x) == IF SafeAddFails(g, x) THEN g ELSE SaturatingAdd(g, x)

SafeIncrementFails(g, k, a) ==
  Overflows(g.gas[k], a) \/ Overflows(g.total, a)

\* The total wraps where the part saturates: a bug to catch.
IncrementWraps(g, k, a) ==
  [g EXCEPT !.gas[k] = SatAdd(@, a), !.total = (@ + a) % (MaxGas + 1)]

\* saturating_increment and saturating_increment_into.
SaturatingIncrement(g, k, a) ==
  [g EXCEPT !.gas[k] = SatAdd(@, a), !.total = SatAdd(@, a)]

SafeIncrement(g, k, a) ==
  IF SafeIncrementFails(g, k, a) THEN g ELSE SaturatingIncrement(g, k, a)

-----------------------------------------------------------------------------
(* Methods that subtract. *)

SafeSubFails(g, x) ==
  (\E k \in Kind : x.gas[k] > g.gas[k]) \/ x.refund > g.refund

PartsLess(g, x) ==
  [g EXCEPT !.gas = [k \in Kind |-> SatSub(g.gas[k], x.gas[k])],
            !.refund = SatSub(@, x.refund)]

SaturatingSub(g, x) == Recompute(PartsLess(g, x))

SafeSub(g, x) == IF SafeSubFails(g, x) THEN g ELSE SaturatingSub(g, x)

\* The total goes down by no more than the part does.
SaturatingDecrement(g, k, a) ==
  LET reduced == IF a < g.gas[k] THEN a ELSE g.gas[k]
  IN [g EXCEPT !.gas[k] = @ - reduced, !.total = SatSub(@, reduced)]
=============================================================================
