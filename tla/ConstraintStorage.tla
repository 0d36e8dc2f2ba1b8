------------------------- MODULE ConstraintStorage -------------------------
(***************************************************************************)
(* The gas constraints of the L2 pricing and the vectors they are kept in: *)
(* crates/arb-arbos/src/storage/vector.rs, and in src/l2pricing,           *)
(* gas_constraint.rs and multi_gas_constraint.rs.                          *)
(* Handlers are operators of the vector read, r, and written, w.           *)
(***************************************************************************)
EXTENDS Naturals

CONSTANTS
  Cap,        \* bound on the length of a vector, which the code does not have
  MaxU64,     \* the largest u64
  MaxU32,     \* the largest u32
  Kinds,      \* the kinds of resources
  SingleKinds \* the kinds that a single-gas constraint weighs

ASSUME BoundAssumption == {Cap, MaxU64} \subseteq Nat \ {0}
ASSUME MaxU32Assumption == MaxU32 \in 0..MaxU64
ASSUME KindsAssumption == SingleKinds # {} /\ SingleKinds \subseteq Kinds

U64 == 0..MaxU64

U32 == 0..MaxU32

-----------------------------------------------------------------------------
(* The constraints. *)

GasConstraint == [target: U64, window: U64, backlog: U64]

MultiGasConstraint ==
  [target: U64, window: U32, backlog: U64,
   weight: [Kinds -> U64], maxWeight: U64]

\* The storage that GasConstraint::clear leaves, and where nothing was written.
NoConstraint == [target |-> 0, window |-> 0, backlog |-> 0]

\* MultiGasConstraint::clear.
NoMultiConstraint ==
  [target |-> 0, window |-> 0, backlog |-> 0,
   weight |-> [k \in Kinds |-> 0], maxWeight |-> 0]

\* The maximum that set_resource_weights finds on its way over the kinds.
LargestWeight(weight) ==
  CHOOSE n \in {weight[k] : k \in Kinds} : \A k \in Kinds : weight[k] <= n

Multi(target, window, backlog, weight) ==
  [target |-> target, window |-> window, backlog |-> backlog,
   weight |-> weight, maxWeight |-> LargestWeight(weight)]

\* The window is taken as it is: a bug to catch.
FromSingleUncut(c) ==
  Multi(c.target, c.window, c.backlog,
        [k \in Kinds |-> IF k \in SingleKinds THEN 1 ELSE 0])

\* A single-gas constraint as a multi-gas one: the same for the kinds it weighs,
\* with a window cut to u32.
FromSingle(c) ==
  Multi(c.target, IF c.window > MaxU32 THEN MaxU32 ELSE c.window, c.backlog,
        [k \in Kinds |-> IF k \in SingleKinds THEN 1 ELSE 0])

-----------------------------------------------------------------------------
(* SubStorageVector, of constraints of either sort. *)

Index == 0..(Cap - 1)

Vector(Constraints) == [length: 0..Cap, at: [Index -> Constraints]]

EmptyVector(blank) == [length |-> 0, at |-> [i \in Index |-> blank]]

\* push() and the setters of what it returns.
Push(r, w, c) == [w EXCEPT !.length = r.length + 1, !.at[r.length] = c]

\* pop() without the clear() of what it returns: a bug to catch.
PopOnly(r, w, blank) == [w EXCEPT !.length = r.length - 1]

\* pop() of a vector that is not empty, and the clear() of what it returns.
PopClear(r, w, blank) ==
  [w EXCEPT !.length = r.length - 1, !.at[r.length - 1] = blank]

\* The loop of clear_gas_constraints and of clear_multi_gas_constraints.  Every
\* pop of it reads the same committed length.
PopAll(r, w, blank) ==
  LET loop[n \in 0..r.length] ==
        IF n = 0 THEN w ELSE PopClear(r, loop[n - 1], blank)
  IN loop[r.length]

\* The constraints in a vector, as a sequence.
Contents(s) == [i \in 1..s.length |-> s.at[i - 1]]
=============================================================================
