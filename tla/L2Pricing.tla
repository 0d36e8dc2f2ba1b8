----------------------------- MODULE L2Pricing -----------------------------
(***************************************************************************)
(* crates/arb-arbos/src/l2pricing/l2pricing.rs: the parameters of the L2   *)
(* gas price, its two vectors of constraints (ConstraintStorage), and the  *)
(* migrations from the parameters to a single-gas constraint and from      *)
(* single-gas constraints to multi-gas constraints; and multi_gas_fees.rs, *)
(* the base fees of each kind of resource.                                 *)
(***************************************************************************)
EXTENDS ConstraintStorage, TxJournal

CONSTANTS
  Params,          \* the names of the parameters
  Values,          \* the values that each is set to
  InitialParams,   \* the values they start with
  Targets,         \* what a constraint is added with or set to: its target,
  Windows,         \* the adjustment window of a single-gas constraint,
  MultiWindows,    \* that of a multi-gas constraint,
  Backlogs,        \* the backlog,
  Weights,         \* and the weights of the resources
  Fees,            \* the base fees of each kind of resource
  InitialFees      \* the base fees that the storage starts with

\* The parameters that a migration reads.
LegacyParams ==
  {"speed_limit_per_second", "pricing_inertia", "gas_backlog",
   "backlog_tolerance"}

ASSUME ParamsAssumption ==
  /\ LegacyParams \subseteq Params
  /\ Values \in [Params -> SUBSET Nat]
  /\ InitialParams \in [Params -> Nat]
  /\ \A p \in LegacyParams : {InitialParams[p]} \cup Values[p] \subseteq U64
ASSUME ConstraintAssumption ==
  /\ Targets \cup Windows \cup Backlogs \subseteq U64
  /\ MultiWindows \subseteq U32
  /\ Weights \subseteq [Kinds -> U64]

\* The fees of a block, one for each kind of resource.
BlockFees == {fees \in [Kinds -> UNION {Fees[k] : k \in Kinds}] :
                \A k \in Kinds : fees[k] \in Fees[k]}

ASSUME FeesAssumption == InitialFees \in BlockFees

-----------------------------------------------------------------------------
(* The state. *)

\* The parameters that a migration reads are u64, the base fees are wider.
ParamStorage ==
  {param \in [Params -> Nat] : \A p \in LegacyParams : param[p] \in U64}

PricingStorage ==
  [param: ParamStorage,
   single: Vector(GasConstraint),
   multi: Vector(MultiGasConstraint),
   nextFees: BlockFees,
   currentFees: BlockFees]

\* initialize: the parameters are written, the rest is fresh storage.
PricingInit ==
  [param |-> InitialParams,
   single |-> EmptyVector(NoConstraint),
   multi |-> EmptyVector(NoMultiConstraint),
   nextFees |-> InitialFees,
   currentFees |-> InitialFees]

-----------------------------------------------------------------------------
(* The migrations, of the storage read, r, and written, w. *)

\* The tolerated backlog wraps around: a bug to catch.
WrappedBacklog(p) ==
  LET tolerated == (p["backlog_tolerance"] * p["speed_limit_per_second"])
                     % (MaxU64 + 1)
  IN IF tolerated > p["gas_backlog"] THEN 0 ELSE p["gas_backlog"] - tolerated

\* The backlog beyond the tolerated one; product and difference saturate.
LegacyBacklog(p) ==
  LET product == p["backlog_tolerance"] * p["speed_limit_per_second"]
      tolerated == IF product > MaxU64 THEN MaxU64 ELSE product
  IN IF tolerated > p["gas_backlog"] THEN 0 ELSE p["gas_backlog"] - tolerated

\* set_gas_constraints_from_legacy: clears, then adds one constraint behind the
\* committed length.
FromLegacy(r, w) ==
  Push(r.single, PopAll(r.single, w.single, NoConstraint),
       [target |-> r.param["speed_limit_per_second"],
        window |-> r.param["pricing_inertia"],
        backlog |-> LegacyBacklog(r.param)])

\* Nothing is cleared first: a bug to catch.
FromSinglesUncleared(r, w) ==
  LET loop[n \in 0..r.single.length] ==
        IF n = 0 THEN w.multi
        ELSE Push(r.multi, loop[n - 1], FromSingle(r.single.at[n - 1]))
  IN loop[r.single.length]

\* set_multi_gas_constraints_from_single_gas_constraints: clears, then adds one
\* constraint after the other.  Every push of the loop reads the same committed
\* length.
FromSingles(r, w) ==
  LET loop[n \in 0..r.single.length] ==
        IF n = 0 THEN PopAll(r.multi, w.multi, NoMultiConstraint)
        ELSE Push(r.multi, loop[n - 1], FromSingle(r.single.at[n - 1]))
  IN loop[r.single.length]

-----------------------------------------------------------------------------
(* The actions: one call of a handler in the transaction under way. *)

\* The setters of the parameters.
SetParam(p, v) == Call([jrn EXCEPT !.param[p] = v])

AddGasConstraint(target, window, backlog) ==
  /\ db.single.length < Cap
  /\ Call([jrn EXCEPT !.single =
             Push(db.single, @, [target |-> target, window |-> window,
                                 backlog |-> backlog])])

ClearGasConstraints ==
  Call([jrn EXCEPT !.single = PopAll(db.single, @, NoConstraint)])

AddMultiGasConstraint(target, window, backlog, weight) ==
  /\ db.multi.length < Cap
  /\ Call([jrn EXCEPT !.multi =
             Push(db.multi, @, Multi(target, window, backlog, weight))])

ClearMultiGasConstraints ==
  Call([jrn EXCEPT !.multi = PopAll(db.multi, @, NoMultiConstraint)])

SetGasConstraintsFromLegacy ==
  /\ db.single.length < Cap
  /\ Call([jrn EXCEPT !.single = FromLegacy(db, jrn)])

SetMultiGasConstraintsFromSingleGasConstraints ==
  /\ db.multi.length < Cap
  /\ Call([jrn EXCEPT !.multi = FromSingles(db, jrn)])

\* The setters of GasConstraint, of one that open_gas_constraint_at() returns.
\* That i is below the length is a precondition on the caller, here and in the
\* setters below: open_gas_constraint_at() and at() do not check it.
SetTarget(i, v) ==
  /\ i < db.single.length
  /\ Call([jrn EXCEPT !.single.at[i].target = v])

SetAdjustmentWindow(i, v) ==
  /\ i < db.single.length
  /\ Call([jrn EXCEPT !.single.at[i].window = v])

SetBacklog(i, v) ==
  /\ i < db.single.length
  /\ Call([jrn EXCEPT !.single.at[i].backlog = v])

\* The weights without their maximum: a bug to catch.
SetWeightsOnly(i, weight) ==
  /\ i < db.multi.length
  /\ Call([jrn EXCEPT !.multi.at[i].weight = weight])

\* The setters of MultiGasConstraint.
SetResourceWeights(i, weight) ==
  /\ i < db.multi.length
  /\ Call([jrn EXCEPT !.multi.at[i] =
             [@ EXCEPT !.weight = weight, !.maxWeight = LargestWeight(weight)]])

SetMultiTarget(i, v) ==
  /\ i < db.multi.length
  /\ Call([jrn EXCEPT !.multi.at[i].target = v])

SetMultiAdjustmentWindow(i, v) ==
  /\ i < db.multi.length
  /\ Call([jrn EXCEPT !.multi.at[i].window = v])

SetMultiBacklog(i, v) ==
  /\ i < db.multi.length
  /\ Call([jrn EXCEPT !.multi.at[i].backlog = v])

\* set_next_block_fee and commit_next_to_current of MultiGasFees.
SetNextBlockFee(k, fee) == Call([jrn EXCEPT !.nextFees[k] = fee])

CommitNextToCurrent == Call([jrn EXCEPT !.currentFees = db.nextFees])

Init == JournalInit(PricingInit)

Next ==
  \/ \E p \in Params : \E v \in Values[p] : SetParam(p, v)
  \/ \E target \in Targets, window \in Windows, backlog \in Backlogs :
       AddGasConstraint(target, window, backlog)
  \/ ClearGasConstraints
  \/ \E target \in Targets, window \in MultiWindows, backlog \in Backlogs,
        weight \in Weights :
       AddMultiGasConstraint(target, window, backlog, weight)
  \/ ClearMultiGasConstraints
  \/ SetGasConstraintsFromLegacy
  \/ SetMultiGasConstraintsFromSingleGasConstraints
  \/ \E i \in Index, v \in Targets : SetTarget(i, v) \/ SetMultiTarget(i, v)
  \/ \E i \in Index, v \in Windows : SetAdjustmentWindow(i, v)
  \/ \E i \in Index, v \in MultiWindows : SetMultiAdjustmentWindow(i, v)
  \/ \E i \in Index, v \in Backlogs : SetBacklog(i, v) \/ SetMultiBacklog(i, v)
  \/ \E i \in Index, weight \in Weights : SetResourceWeights(i, weight)
  \/ \E k \in Kinds : \E fee \in Fees[k] : SetNextBlockFee(k, fee)
  \/ CommitNextToCurrent
  \/ Commit
  \/ Revert

Spec == Init /\ [][Next]_txVars

-----------------------------------------------------------------------------
(* Properties. *)

\* The variables have their types: a window that was migrated fits a u32.
TypeOK ==
  /\ db \in PricingStorage
  /\ jrn \in PricingStorage
  /\ calls \in 0..MaxCalls

RestIsBlank(s, blank) == \A i \in Index : i >= s.length => s.at[i] = blank

\* Storage beyond the end of a vector is clear, whatever was cleared, migrated
\* or added: a constraint that is pushed finds no values of an earlier one.
NothingIsLeft ==
  RestIsBlank(db.single, NoConstraint) /\ RestIsBlank(db.multi, NoMultiConstraint)

WeighsRight(c) ==
  /\ \A k \in Kinds : c.weight[k] <= c.maxWeight
  /\ \E k \in Kinds : c.weight[k] = c.maxWeight

\* The maximum that is stored with a constraint's weights (set_resource_weights)
\* stays that of the stored ones, for constraints in use and cleared.
MaxWeightIsLargest == \A i \in Index : WeighsRight(db.multi.at[i])

\* A migration keeps the backlog beyond the tolerated one exactly, though the
\* tolerated one may not fit a u64.
LegacyBacklogIsExact ==
  [][SetGasConstraintsFromLegacy =>
       LET p == db.param
           tolerated == p["backlog_tolerance"] * p["speed_limit_per_second"]
       IN jrn'.single.at[db.single.length].backlog =
            (IF tolerated < p["gas_backlog"] THEN p["gas_backlog"] - tolerated
             ELSE 0)]_txVars

Migrated(s) == [i \in 1..s.single.length |-> FromSingle(s.single.at[i - 1])]

\* A migration to multi-gas constraints, which clears the ones there are and adds
\* every single-gas constraint, ends with the last one; but it is whole, with
\* nothing else left and nothing lost, exactly when there is at most one
\* constraint in both vectors.  With more, the pops and the pushes of one call
\* read a stale length: older multi-gas constraints stay, or single-gas
\* constraints are lost, where the Go code (l2pricing.rs:518) migrates all.
MigratesAtMostOne ==
  [][SetMultiGasConstraintsFromSingleGasConstraints =>
       /\ db.single.length > 0 =>
            Contents(jrn'.multi)[jrn'.multi.length]
              = Migrated(db)[db.single.length]
       /\ Contents(jrn'.multi) = Migrated(db)
            <=> db.single.length + db.multi.length <= 1]_txVars
=============================================================================
