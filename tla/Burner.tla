------------------------------- MODULE Burner -------------------------------
(***************************************************************************)
(* A MultiGas value that a caller computes step by step with the methods   *)
(* of multigas/resources.rs, and the gas burnt of a SystemBurner           *)
(* (crates/arb-arbos/src/burn.rs) that is charged with amounts of single   *)
(* kinds and with such values.  A SystemBurner has no limit: burn and      *)
(* burn_multi_gas return Ok whatever has been burnt; gas_left, burn_out    *)
(* and handle_error always panic and are no actions.                       *)
(***************************************************************************)
EXTENDS MultiGas, Sequences

CONSTANTS
  Given,     \* the MultiGas values passed to methods
  Pairs,     \* the sequences of pairs passed to from_pairs
  MaxBurns   \* bound on the charges of a burner

ASSUME GivenAssumption == Given \subseteq Gas
ASSUME PairsAssumption == \A pairs \in Pairs : pairs \in Seq([kind: Kind, amount: Amount])
ASSUME MaxBurnsAssumption == MaxBurns \in Nat

VARIABLES
  value,     \* the value computed
  clamped,   \* its total lost gas to saturation and was not recomputed since
  burnt,     \* SystemBurner.gas_burnt
  charged,   \* what was charged, in integers without a width
  sound,     \* no value was charged whose total had lost gas
  burns      \* the number of charges

vars == <<value, clamped, burnt, charged, sound, burns>>

burnerVars == <<burnt, charged, sound, burns>>

NothingCharged == [gas |-> [k \in Kind |-> 0], refund |-> 0]

Init ==
  /\ value = ZeroGas
  /\ clamped = FALSE
  /\ burnt = ZeroGas
  /\ charged = NothingCharged
  /\ sound = TRUE
  /\ burns = 0

-----------------------------------------------------------------------------
(* The methods that make a value.  Becomes(g, c) is their common effect.  *)

Becomes(g, c) ==
  /\ value' = g
  /\ clamped' = c
  /\ UNCHANGED burnerVars

\* MultiGas::new takes the unknown kind like any other.
NewCall(k, a) == Becomes(NewGas(k, a), FALSE)

FromPairsCall(pairs) ==
  /\ ~FromPairsPanics(pairs)
  /\ Becomes(FromPairs(pairs), FALSE)

WithCall(k, a) == Becomes(With(value, k, a), clamped)

WithRefundCall(a) == Becomes(WithRefund(value, a), clamped)

SafeAddCall(x) == Becomes(SafeAdd(value, x), clamped)

SaturatingAddCall(x) ==
  Becomes(SaturatingAdd(value, x), clamped \/ Overflows(value.total, x.total))

SafeIncrementCall(k, a) == Becomes(SafeIncrement(value, k, a), clamped)

SaturatingIncrementCall(k, a) ==
  Becomes(SaturatingIncrement(value, k, a), clamped \/ Overflows(value.total, a))

\* A subtraction recomputes the total, from parts that may still be too large.
StillClamped(x) == PartsSum(PartsLess(value, x).gas) > MaxGas

SafeSubCall(x) ==
  /\ ~SafeSubFails(value, x)
  /\ Becomes(SafeSub(value, x), StillClamped(x))

SaturatingSubCall(x) == Becomes(SaturatingSub(value, x), StillClamped(x))

SaturatingDecrementCall(k, a) == Becomes(SaturatingDecrement(value, k, a), clamped)

-----------------------------------------------------------------------------
(* The burner. *)

Burn(k, a) ==
  /\ burns < MaxBurns
  /\ burns' = burns + 1
  /\ burnt' = SaturatingIncrement(burnt, k, a)
  /\ charged' = [charged EXCEPT !.gas[k] = @ + a]
  /\ UNCHANGED <<value, clamped, sound>>

BurnMultiGas ==
  /\ burns < MaxBurns
  /\ burns' = burns + 1
  /\ burnt' = SaturatingAdd(burnt, value)
  /\ charged' = [gas |-> [k \in Kind |-> charged.gas[k] + value.gas[k]],
                 refund |-> charged.refund + value.refund]
  /\ sound' = (sound /\ ~clamped)
  /\ UNCHANGED <<value, clamped>>

Next ==
  \/ \E k \in Kind, a \in Amount :
       \/ NewCall(k, a)
       \/ WithCall(k, a)
       \/ SafeIncrementCall(k, a)
       \/ SaturatingIncrementCall(k, a)
       \/ SaturatingDecrementCall(k, a)
       \/ Burn(k, a)
  \/ \E a \in Amount : WithRefundCall(a)
  \/ \E x \in Given :
       \/ SafeAddCall(x)
       \/ SaturatingAddCall(x)
       \/ SafeSubCall(x)
       \/ SaturatingSubCall(x)
  \/ \E pairs \in Pairs : FromPairsCall(pairs)
  \/ BurnMultiGas

Spec == Init /\ [][Next]_vars

-----------------------------------------------------------------------------
(* Properties. *)

TypeOK ==
  /\ value \in Gas
  /\ clamped \in BOOLEAN
  /\ burnt \in Gas
  /\ charged \in [gas: [Kind -> Nat], refund: Nat]
  /\ sound \in BOOLEAN
  /\ burns \in 0..MaxBurns

\* The total is the sum of the parts, although each method computes the two
\* apart, until a saturating sum loses gas, and again once a subtraction has
\* recomputed it (MultiGas, "total adjusted").
TotalIsSum == ~clamped => value.total = PartsSum(value.gas)

\* A checked method that sets or adds (with, safe_increment, safe_add) fails
\* exactly when the exact total, or the exact refund, does not fit: the checks of
\* the single kinds and the wrapping difference in with() never refuse, or let
\* pass, anything else.
ChecksAreExact ==
  ~clamped =>
    /\ \A k \in Kind, a \in Amount :
         /\ WithFails(value, k, a)
              <=> PartsSum([value.gas EXCEPT ![k] = a]) > MaxGas
         /\ SafeIncrementFails(value, k, a)
              <=> PartsSum(value.gas) + a > MaxGas
    /\ \A x \in Given :
         SafeAddFails(value, x)
           <=> \/ PartsSum(value.gas) + PartsSum(x.gas) > MaxGas
               \/ value.refund + x.refund > MaxGas

\* A burner saturates each of its sums as a whole: however the charges came,
\* it holds the exact sums cut at the width of u64.
Cut(n) == IF n > MaxGas THEN MaxGas ELSE n

\* A burner never loses a charge to the width of u64 but at its limit: each kind
\* has exactly its charges, cut, however they came.  What the burner reports
\* makes up, with the refunds, the sum over all kinds, cut, as long as it was
\* charged with values whose total had not lost gas and the refunds are no more
\* than that sum (SystemBurner::burned).
BurnedCountsAllKinds ==
  /\ \A k \in Kind : burnt.gas[k] = Cut(charged.gas[k])
  /\ LET sum == Cut(PartsSum(charged.gas))
         refund == Cut(charged.refund)
     IN  sound /\ refund <= sum => SingleGas(burnt) + refund = sum
=============================================================================
