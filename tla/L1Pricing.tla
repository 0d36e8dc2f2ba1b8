----------------------------- MODULE L1Pricing -----------------------------
(***************************************************************************)
(* crates/arb-arbos/src/l1pricing/l1pricing.rs from ArbOS 10 on: the fees  *)
(* collected for posting to L1, the units of data they paid for, and the   *)
(* report of a batch poster's spending, which allocates units to it,       *)
(* credits and pays the poster and the rewards, and moves the price.       *)
(*                                                                         *)
(* Balances of accounts live in the journal and are read from it; every    *)
(* slot of storage is read from the database (TxJournal).                  *)
(***************************************************************************)
EXTENDS BatchPosterStorage, TxJournal, Functions

CONSTANTS
  Sequencer,   \* BATCH_POSTER_ADDRESS, the poster there is from the start
  MaxU64,      \* the largest u64
  MaxU256,     \* the largest U256
  MaxTime,     \* bound on the timestamps reported
  MaxOwed,     \* bound on what one recipient has to get
  Amounts,     \* the fees of one transaction
  Units,       \* the units of one transaction
  Spendings,   \* the wei that a batch poster reports to have spent
  BaseFees,    \* L1 base fees
  Rewards,     \* rewards per unit
  Caps,        \* caps of the amortized cost, in bips of the base fee; 0 is none
  Equilibria,  \* equilibration units
  Inertias     \* inertias

ASSUME SequencerAssumption == Sequencer \in Addr
ASSUME WidthAssumption == {MaxU64, MaxU256, MaxTime, MaxOwed} \subseteq Nat
ASSUME TimeAssumption == MaxTime <= MaxU64
ASSUME InputAssumption ==
  /\ Amounts \cup Units \cup Spendings \cup BaseFees \subseteq Nat
  /\ Rewards \cup Caps \cup Equilibria \cup Inertias \subseteq Nat

OneInBips == 10000

Times == 0..MaxTime

Least(x, y) == IF x < y THEN x ELSE y

\* A U256 as an I256, cut to the width.
Signed(x) == Least(x, MaxI256)

\* Signed division of the code (wrapping_div): it truncates toward zero.
TruncDiv(x, y) == IF x >= 0 THEN x \div y ELSE -((-x) \div y)

-----------------------------------------------------------------------------
(* The state: the storage of L1PricingState, the balance of the funds      *)
(* pool, and what the recipients have to get by an auditor's books, which  *)
(* are no part of the code.                                                *)

PricingStorage ==
  [table: PosterStorage,
   fees: 0..MaxU256, units: 0..MaxU64, lastTime: Times,
   rewardsDue: I256, reward: Rewards, cap: Caps,
   equilibration: Equilibria, inertia: Inertias,
   price: 0..MaxU256, lastSurplus: I256,
   pool: 0..MaxU256,
   owed: [Addr -> 0..MaxOwed],     \* audit: credited to a poster, less paid
   rewardsOwed: 0..MaxOwed]        \* audit: rewards earned, less paid

\* initialize_l1_pricing_state: one poster, paid to its own address.
PricingInit(reward, cap, equilibration, inertia) ==
  [table |-> AddPoster(NoPosters, NoPosters, Sequencer, Sequencer),
   fees |-> 0, units |-> 0, lastTime |-> 0,
   rewardsDue |-> 0, reward |-> reward, cap |-> cap,
   equilibration |-> equilibration, inertia |-> inertia,
   price |-> 0, lastSurplus |-> 0,
   pool |-> 0,
   owed |-> [a \in Addr |-> 0], rewardsOwed |-> 0]

-----------------------------------------------------------------------------
(* update_for_batch_poster_spending, of the storage read, r: poster a      *)
(* reports at time now that it spent wei at time t, under an L1 base fee.  *)

\* The time of the update before; the first one counts a single second.
LastUpdate(r, t) ==
  IF r.lastTime = 0 /\ t > 0 THEN t - 1 ELSE r.lastTime

\* No test against the last update: a bug to catch.
TimeIsNotFuture(r, t, now) == t <= now

TimeIsValid(r, t, now) == t <= now /\ t >= LastUpdate(r, t)

\* The share of the units that the time up to t has of the time up to now.
Allocated(r, t, now) ==
  LET last == LastUpdate(r, t)
  IN IF now = last THEN r.units
     ELSE Least(r.units * (t - last), MaxU64) \div (now - last)

\* What the poster is credited: its spending under the amortized cost cap.  The
\* product of the cap stays far below the width of U256 and is not cut here.
Credit(r, allocated, wei, basefee) ==
  IF r.cap = 0 THEN wei
  ELSE Least(wei, (basefee * allocated * r.cap) \div OneInBips)

RewardPayment(r, allocated) == Least(r.reward * allocated, r.fees)

\* What is left of the fees goes to the poster without regard to what it is
\* owed: a bug to catch.
AllToPoster(r, a, allocated) == r.fees - RewardPayment(r, allocated)

\* The balance is read after the credit was written, and found without it.
PosterPayment(r, a, allocated) ==
  IF r.table.due[a] <= 0 THEN 0
  ELSE Least(r.fees - RewardPayment(r, allocated), r.table.due[a])

\* transfer_from_l1_fees_available panics when the pool cannot pay.
UpdatePanics(r, w, a, t, now) ==
  LET allocated == Allocated(r, t, now)
  IN TimeIsValid(r, t, now) /\
     w.pool < RewardPayment(r, allocated) + PosterPayment(r, a, allocated)

\* The balance of the poster: credited, then less the payment if there is one.
Settle(r, w, a, credit, payment) ==
  LET due == r.table.due[a]
      credited == SetFundsDue(r.table, OpenPoster(r.table, w.table, a), a,
                              SatAdd(due, credit))
  IN IF payment = 0 THEN credited
     ELSE SetFundsDue(r.table, credited, a, SatSub(due, payment))

\* The change of the price: toward the surplus that the equilibration units
\* call for, away from the way the surplus moved.
PriceChange(r, surplus, allocated) ==
  LET inertiaUnits == IF r.inertia = 0 THEN r.equilibration
                      ELSE r.equilibration \div r.inertia
      desired == IF r.equilibration = 0 THEN 0
                 ELSE TruncDiv(-surplus, r.equilibration)
      actual == TruncDiv(SatSub(surplus, r.lastSurplus), allocated)
  IN TruncDiv(Saturate(SatSub(desired, actual) * allocated),
              inertiaUnits + allocated)

NewPrice(r, change) ==
  IF r.price + change < 0 THEN 0 ELSE Least(r.price + change, MaxU256)

\* The second transfer writes its own difference from the fees as read.
FeesLeft(r, rewardPayment, payment) ==
  IF payment = 0 THEN r.fees - rewardPayment ELSE r.fees - payment

\* The rewards of this update pass for paid, whatever the fees could pay: a bug
\* to catch.
RewardsPaidInFull(r, allocated, rewardPayment) == r.rewardsDue

RewardsLeft(r, allocated, rewardPayment) ==
  SatSub(SatAdd(r.rewardsDue, r.reward * allocated), rewardPayment)

\* A report with an invalid time is an error, after the poster was opened.
Update(r, w, a, t, now, wei, basefee) ==
  LET allocated == Allocated(r, t, now)
      credit == Credit(r, allocated, wei, basefee)
      rewardPayment == RewardPayment(r, allocated)
      payment == PosterPayment(r, a, allocated)
      fees == FeesLeft(r, rewardPayment, payment)
      surplus == SatSub(Signed(fees), SatAdd(r.table.total, r.rewardsDue))
      priced == allocated > 0
  IN IF ~TimeIsValid(r, t, now)
     THEN [w EXCEPT !.table = OpenPoster(r.table, w.table, a)]
     ELSE [w EXCEPT
             !.table = Settle(r, w, a, credit, payment),
             !.units = r.units - allocated,
             !.fees = fees,
             !.rewardsDue = RewardsLeft(r, allocated, rewardPayment),
             !.lastTime = t,
             !.lastSurplus = IF priced THEN surplus ELSE w.lastSurplus,
             !.price = IF priced
                       THEN NewPrice(r, PriceChange(r, surplus, allocated))
                       ELSE w.price,
             !.pool = w.pool - rewardPayment - payment,
             !.owed = [w.owed EXCEPT ![a] = @ + credit - payment],
             !.rewardsOwed = w.rewardsOwed + r.reward * allocated - rewardPayment]

-----------------------------------------------------------------------------
(* The actions: one call of a handler in the transaction under way. *)

\* The fee goes into the pool and not into the books: a bug to catch.
CollectFeesUnbooked(amount) ==
  /\ jrn.pool + amount <= MaxU256
  /\ Call([jrn EXCEPT !.pool = @ + amount])

\* A transaction pays its poster fee into the pool (the caller's transfer)
\* and add_to_l1_fees_available books it.
CollectFees(amount) ==
  /\ jrn.pool + amount <= MaxU256
  /\ Call([jrn EXCEPT !.fees = Least(db.fees + amount, MaxU256),
                      !.pool = @ + amount])

\* add_to_units_since_update
AddUnits(units) ==
  Call([jrn EXCEPT !.units = Least(db.units + units, MaxU64)])

\* update_for_batch_poster_spending
UpdateForBatchPosterSpending(a, t, now, wei, basefee) ==
  LET allocated == Allocated(db, t, now)
  IN /\ ~UpdatePanics(db, jrn, a, t, now)
     /\ db.table.posters.size < Cap \/ ContainsPoster(db.table, a)
     /\ jrn.owed[a] + wei <= MaxOwed
     /\ TimeIsValid(db, t, now) =>
          jrn.rewardsOwed + db.reward * allocated <= MaxOwed
     /\ Call(Update(db, jrn, a, t, now, wei, basefee))

\* The setters that the chain owner's calls reach.
SetPerUnitReward(v) == Call([jrn EXCEPT !.reward = v])
SetAmortizedCostCapBips(v) == Call([jrn EXCEPT !.cap = v])
SetEquilibrationUnits(v) == Call([jrn EXCEPT !.equilibration = v])
SetInertia(v) == Call([jrn EXCEPT !.inertia = v])

Init ==
  \E reward \in Rewards, cap \in Caps,
     equilibration \in Equilibria, inertia \in Inertias :
    JournalInit(PricingInit(reward, cap, equilibration, inertia))

Next ==
  \/ \E amount \in Amounts : CollectFees(amount)
  \/ \E units \in Units : AddUnits(units)
  \/ \E a \in Addr, t, now \in Times, wei \in Spendings, basefee \in BaseFees :
       UpdateForBatchPosterSpending(a, t, now, wei, basefee)
  \/ \E v \in Rewards : SetPerUnitReward(v)
  \/ \E v \in Caps : SetAmortizedCostCapBips(v)
  \/ \E v \in Equilibria : SetEquilibrationUnits(v)
  \/ \E v \in Inertias : SetInertia(v)
  \/ Commit
  \/ Revert

Spec == Init /\ [][Next]_txVars

-----------------------------------------------------------------------------
(* Properties. *)

\* The variables have their types.
TypeOK ==
  /\ db \in PricingStorage
  /\ jrn \in PricingStorage
  /\ calls \in 0..MaxCalls

\* The total owed to posters stays the sum of their balances under the two
\* set_funds_due of one update, the second of which overwrites the first.
TotalIsSum == db.table.total = SumFunction(db.table.due)

\* No poster is paid ahead: its balance is never negative, and never more
\* than the auditor finds it has to get.
NeverOverpaid ==
  \A a \in Addr : 0 <= db.table.due[a] /\ db.table.due[a] <= db.owed[a]

\* The rewards due are the rewards earned and not paid, to the wei, over any
\* sequence of updates, collections and changes of the reward.
RewardsKept == db.rewardsDue = db.rewardsOwed

\* The books never promise less than the pool has: no fee is in the pool that
\* no update can pay out.
PoolIsBooked == db.pool <= db.fees

\* The time of the last update never goes back, though every report brings a
\* time of its own.
TimeAdvances == [][db'.lastTime >= db.lastTime]_txVars

\* A poster's balance is what it was credited and not paid ("Update funds due
\* to batch poster", update_for_batch_poster_spending).
CreditKept == \A a \in Addr : db.table.due[a] = db.owed[a]
=============================================================================
