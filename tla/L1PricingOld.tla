---------------------------- MODULE L1PricingOld ----------------------------
(***************************************************************************)
(* crates/arb-arbos/src/l1pricing/l1pricing_old_versions.rs: the reports   *)
(* of spending before ArbOS 10 and before ArbOS 2, and the life of the L1  *)
(* pricing across versions, up to the report of ArbOS 10 (L1Pricing).      *)
(*                                                                         *)
(* Before ArbOS 10 there are no stored fees: payments are made from the    *)
(* balance of the funds pool, which is read from the journal.              *)
(***************************************************************************)
EXTENDS L1Pricing

CONSTANTS
  Versions,     \* the ArbOS versions that the chain may go through
  Geneses,      \* those it may start with
  UpgradeCap    \* the amortized cost cap that ArbOS 3 starts with

ASSUME VersionsAssumption == Versions \subseteq Nat /\ Geneses \subseteq Versions
ASSUME UpgradeCapAssumption == {0, UpgradeCap} \subseteq Caps

VARIABLES
  version,   \* the version the handlers are called with
  genesis    \* the version at the start of the chain, for the properties

oldVars == <<db, jrn, calls, version, genesis>>

PaidFrom(funds, due) == IF due <= 0 THEN 0 ELSE Least(funds, due)

\* set_pre_version7: the magnitude of the value, without its sign.  That of the
\* least integer is read back as the least integer.
Magnitude(x) == IF x >= 0 \/ x = MinI256 THEN x ELSE -x

-----------------------------------------------------------------------------
(* pre_version2_update_for_batch_poster_spending *)

\* The time of the update before.  One second before time 0 wraps around.
FirstLastUpdate(r, t, now) ==
  IF r.lastTime = 0 /\ now > 0 THEN (t - 1) % (MaxU64 + 1) ELSE r.lastTime

\* The last update is compared with the time of the call: a bug to catch.
FirstTimeIsNotFuture(r, t, now) == t < now /\ FirstLastUpdate(r, t, now) < now

FirstTimeIsValid(r, t, now) == t < now /\ t >= FirstLastUpdate(r, t, now)

\* An amount's share of the time up to now that the time up to t has.
ShareOf(r, amount, t, now) ==
  LET last == FirstLastUpdate(r, t, now)
  IN (amount * (t - last)) \div (now - last)

\* Poster p gets its balance as committed, as far as the funds go.
PayPoster(r, paying, p) ==
  LET payment == PaidFrom(paying.funds, r.table.due[p])
  IN IF payment = 0 THEN paying
     ELSE [funds |-> paying.funds - payment,
           w |-> [paying.w EXCEPT
                   !.table = SetFundsDue(r.table, @, p, r.table.due[p] - payment),
                   !.pool = @ - payment,
                   !.owed[p] = @ - payment]]

\* Every poster on the committed list is paid in turn.
PayPosters(r, w, funds) ==
  LET paying[i \in 0..r.table.posters.size] ==
        IF i = 0 THEN [funds |-> funds, w |-> w]
        ELSE PayPoster(r, paying[i - 1], r.table.posters.slot[i])
  IN paying[r.table.posters.size].w

\* The change of the price by the surplus before and after the payments.
FirstPriceChange(r, oldSurplus, surplus, allocated) ==
  LET inertiaUnits == IF r.inertia = 0 THEN 0
                      ELSE r.equilibration \div r.inertia
      divisor == Saturate(r.equilibration * (inertiaUnits + allocated))
      moved == SatSub(Saturate(surplus * (r.equilibration - 1)),
                      Saturate(oldSurplus * r.equilibration))
  IN IF divisor = 0 THEN 0 ELSE TruncDiv(moved, divisor)

\* A report with an invalid time does nothing after its poster was opened.
FirstUpdate(r, w, a, t, now, wei) ==
  LET allocated == ShareOf(r, r.units, t, now)
      available == Least(w.pool * (t - FirstLastUpdate(r, t, now)), MaxU256)
                     \div (now - FirstLastUpdate(r, t, now))
      rewardPayment == Least(r.reward * allocated, available)
      needed == SatAdd(r.table.total, r.rewardsDue)
      opened == OpenPoster(r.table, w.table, a)
      booked == [w EXCEPT
                  !.table = SetFundsDue(r.table, opened, a,
                                        SatAdd(r.table.due[a], wei)),
                  !.units = r.units - allocated,
                  !.rewardsDue = RewardsLeft(r, allocated, rewardPayment),
                  !.pool = @ - rewardPayment,
                  !.lastTime = t,
                  !.owed[a] = @ + wei,
                  !.rewardsOwed = @ + r.reward * allocated - rewardPayment]
      paid == PayPosters(r, booked, available - rewardPayment)
      change == FirstPriceChange(r, SatSub(Signed(w.pool), needed),
                                 SatSub(Signed(paid.pool), needed), allocated)
  IN IF ~FirstTimeIsValid(r, t, now) THEN [w EXCEPT !.table = opened]
     ELSE IF allocated = 0 THEN paid
     ELSE [paid EXCEPT !.price = NewPrice(r, change)]

-----------------------------------------------------------------------------
(* pre_version10_update_for_batch_poster_spending, from ArbOS 2 on.  Times, *)
(* shares and the price are those of ArbOS 10.                              *)

\* What was paid for rewards is taken for available: a bug to catch.
PoolAfterRewards(w, rewardPayment) == w.pool

\* The balance of the pool is read from the journal, after the rewards.
PoolLeft(w, rewardPayment) == w.pool - rewardPayment

PoolUpdate(r, w, a, t, now, wei, basefee, v) ==
  LET allocated == Allocated(r, t, now)
      credit == IF v >= 3 THEN Credit(r, allocated, wei, basefee) ELSE wei
      rewardPayment == Least(r.reward * allocated, w.pool)
      payment == PaidFrom(PoolLeft(w, rewardPayment), r.table.due[a])
      pool == w.pool - rewardPayment - payment
      surplus == SatSub(Signed(pool), SatAdd(r.table.total, r.rewardsDue))
      settled == [w EXCEPT
                   !.table = Settle(r, w, a, credit, payment),
                   !.units = r.units - allocated,
                   !.rewardsDue = RewardsLeft(r, allocated, rewardPayment),
                   !.lastTime = t,
                   !.pool = pool,
                   !.owed[a] = @ + credit - payment,
                   !.rewardsOwed = @ + r.reward * allocated - rewardPayment]
  IN IF ~TimeIsValid(r, t, now)
     THEN [w EXCEPT !.table = OpenPoster(r.table, w.table, a)]
     ELSE IF allocated = 0 THEN settled
     ELSE [settled EXCEPT
            !.lastSurplus = IF v < 7 THEN Magnitude(surplus) ELSE surplus,
            !.price = NewPrice(r, PriceChange(r, surplus, allocated))]

\* The report by the version, as update_for_batch_poster_spending selects it.
UpdateOf(v, r, w, a, t, now, wei, basefee) ==
  IF v >= 10 THEN Update(r, w, a, t, now, wei, basefee)
  ELSE IF v >= 2 THEN PoolUpdate(r, w, a, t, now, wei, basefee, v)
  ELSE FirstUpdate(r, w, a, t, now, wei)

-----------------------------------------------------------------------------
(* The actions. *)

\* Before ArbOS 10 a transaction's poster fee only goes into the pool.
PayPool(amount) ==
  /\ version < 10
  /\ jrn.pool + amount <= MaxU256
  /\ Call([jrn EXCEPT !.pool = @ + amount])

CollectFeesFrom10(amount) == version >= 10 /\ CollectFees(amount)

UpdateByVersion(a, t, now, wei, basefee) ==
  /\ version >= 10 => ~UpdatePanics(db, jrn, a, t, now)
  /\ db.table.posters.size < Cap \/ ContainsPoster(db.table, a)
  /\ jrn.owed[a] + wei <= MaxOwed
  /\ jrn.rewardsOwed + db.reward * db.units <= MaxOwed
  /\ Call(UpdateOf(version, db, jrn, a, t, now, wei, basefee))

\* An upgrade, in a transaction of its own: ArbOS 2 resets the surplus, ArbOS 3
\* starts the amortized cost cap, ArbOS 10 takes the pool for the fees.
Upgrade(v) ==
  LET crosses(u) == version < u /\ u <= v
      upgraded == [db EXCEPT !.lastSurplus = IF crosses(2) THEN 0 ELSE @,
                             !.cap = IF crosses(3) THEN UpgradeCap ELSE @,
                             !.fees = IF crosses(10) THEN db.pool ELSE @]
  IN /\ Idle
     /\ version < v
     /\ version' = v
     /\ db' = upgraded
     /\ jrn' = upgraded
     /\ UNCHANGED <<calls, genesis>>

OldInit ==
  /\ \E reward \in Rewards, equilibration \in Equilibria, inertia \in Inertias :
       JournalInit(PricingInit(reward, 0, equilibration, inertia))
  /\ version \in Geneses
  /\ genesis = version

\* A call of the transaction under way, or its end.
Transaction ==
  \/ \E amount \in Amounts : PayPool(amount)
  \/ \E amount \in Amounts : CollectFeesFrom10(amount)
  \/ \E units \in Units : AddUnits(units)
  \/ \E a \in Addr, t, now \in Times, wei \in Spendings, basefee \in BaseFees :
       UpdateByVersion(a, t, now, wei, basefee)
  \/ \E v \in Rewards : SetPerUnitReward(v)
  \/ \E v \in Caps : SetAmortizedCostCapBips(v)
  \/ \E v \in Equilibria : SetEquilibrationUnits(v)
  \/ \E v \in Inertias : SetInertia(v)
  \/ Commit
  \/ Revert

OldNext ==
  \/ Transaction /\ UNCHANGED <<version, genesis>>
  \/ \E v \in Versions : Upgrade(v)

OldSpec == OldInit /\ [][OldNext]_oldVars

-----------------------------------------------------------------------------
(* Properties.  NeverOverpaid and RewardsKept of L1Pricing hold across all *)
(* versions.                                                               *)

\* The variables have their types: no payment of any version takes more than
\* the pool has.
OldTypeOK ==
  /\ TypeOK
  /\ {version, genesis} \subseteq Versions

\* A chain that starts with ArbOS 2 or later keeps the total of what is owed
\* the sum of the balances through every report of every version.
TotalIsSumFrom2 == genesis >= 2 => TotalIsSum

\* From ArbOS 10 on the stored fees cover the pool: what was collected before
\* the fees were stored is booked by the upgrade.
PoolIsBookedFrom10 == version >= 10 => PoolIsBooked

\* The time of the last update never goes back, by the rules of any version.
TimeAdvancesAlways == [][db'.lastTime >= db.lastTime]_oldVars
=============================================================================
