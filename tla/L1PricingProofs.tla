--------------------------- MODULE L1PricingProofs ---------------------------
(***************************************************************************)
(* Theorems about L1Pricing for every set of addresses, every width of the *)
(* integers and every set of inputs, in transactions of one call.          *)
(*                                                                         *)
(* None of the properties is inductive alone.  A payment stays within the  *)
(* balance only if the balance was not negative; what a poster has to get  *)
(* stays a natural number only if its balance never exceeds it; and an     *)
(* update finds its poster's balance unchanged by the opening of the       *)
(* poster only if addresses that are no posters have none (TableInOrder).  *)
(*                                                                         *)
(* The last section proves the same of L1PricingOld, for chains that start *)
(* with any version and go through any of the versions after it.           *)
(***************************************************************************)
EXTENDS L1PricingOld, TableLemmas

\* The environment of the theorems: a transaction makes one call, and what a
\* recipient has to get fits a balance.
OneCallInWidth == MaxCalls = 1 /\ MaxOwed <= MaxI256

-----------------------------------------------------------------------------
(* The parts of an update.                                                 *)

\* The constants are natural numbers.
LEMMA Widths ==
  /\ MaxU64 \in Nat /\ MaxU256 \in Nat /\ MaxTime \in Nat /\ MaxOwed \in Nat
  /\ \A x \in Amounts \cup Units \cup Spendings \cup BaseFees : x \in Nat
  /\ \A x \in Rewards \cup Caps \cup Equilibria \cup Inertias : x \in Nat
BY WidthAssumption, InputAssumption

\* A share of some units is not more than the units: the code multiplies before
\* it divides, and the product may be cut to the width of u64.
LEMMA ShareIsPart ==
  ASSUME NEW u \in Nat, NEW d \in Nat, NEW n \in Nat \ {0}, d <= n,
         NEW x \in Nat, x <= u * d
  PROVE  x \div n \in 0..u
<1>1. u * d <= u * n
  OBVIOUS
<1>2. x <= u * n /\ u * n \in Nat
  BY <1>1
<1> DEFINE q == x \div n
<1>3. q \in Nat /\ n * q <= x
  OBVIOUS
<1> HIDE DEF q
<1>4. ASSUME q > u PROVE FALSE
  <2>1. q >= u + 1
    BY <1>3, <1>4
  <2>2. n * q >= n * (u + 1)
    BY <1>3, <2>1
  <2>3. n * (u + 1) = u * n + n
    OBVIOUS
  <2> QED BY <1>2, <1>3, <2>2, <2>3
<1>5. q \in 0..u
  BY <1>3, <1>4
<1> QED BY <1>5 DEF q

\* A valid time is not before the last update, and the units allocated to it
\* are some of the units.
LEMMA AllocatedIsPart ==
  ASSUME NEW s \in PricingStorage, NEW t \in Times, NEW now \in Times,
         TimeIsValid(s, t, now)
  PROVE  Allocated(s, t, now) \in 0..s.units /\ s.lastTime <= t
<1> DEFINE last == LastUpdate(s, t)
<1>1. /\ t \in Nat /\ now \in Nat /\ s.lastTime \in Nat /\ s.units \in 0..MaxU64
      /\ s.units \in Nat /\ MaxU64 \in Nat
  BY Widths DEF PricingStorage, Times
<1>2. last \in Nat /\ last <= t /\ t <= now /\ s.lastTime <= t
  BY <1>1 DEF LastUpdate, TimeIsValid
<1> HIDE DEF last
<1>3. CASE now = last
  BY <1>1, <1>2, <1>3 DEF Allocated, last
<1>4. CASE now # last
  <2> DEFINE d == t - last
             n == now - last
             x == Least(s.units * d, MaxU64)
  <2>1. d \in Nat /\ n \in Nat \ {0} /\ d <= n
    BY <1>1, <1>2, <1>4
  <2>2. s.units * d \in Nat
    BY <1>1, <2>1
  <2>3. x \in Nat /\ x <= s.units * d
    BY <1>1, <2>2 DEF Least
  <2>4. Allocated(s, t, now) = x \div n
    BY <1>4 DEF Allocated, last
  <2> HIDE DEF d, n, x
  <2> QED BY <1>1, <1>2, <2>1, <2>3, <2>4, ShareIsPart
<1> QED BY <1>2, <1>3, <1>4

\* The least of two numbers.
LEMMA LeastIsLeast ==
  ASSUME NEW x \in Nat, NEW y \in Nat
  PROVE  Least(x, y) \in Nat /\ Least(x, y) <= x /\ Least(x, y) <= y
BY DEF Least

\* The cap of the amortized cost only cuts the credit.
LEMMA CreditIsPart ==
  ASSUME NEW s \in PricingStorage, NEW allocated \in Nat,
         NEW wei \in Spendings, NEW basefee \in BaseFees
  PROVE  Credit(s, allocated, wei, basefee) \in 0..wei
<1>1. s.cap \in Nat /\ wei \in Nat /\ basefee \in Nat
  BY Widths DEF PricingStorage
<1>2. basefee * allocated \in Nat
  BY <1>1
<1> DEFINE product == basefee * allocated * s.cap
<1>3. product \in Nat
  BY <1>1, <1>2
<1> HIDE DEF product
<1>4. product \div OneInBips \in Nat
  BY <1>3 DEF OneInBips
<1>5. Least(wei, product \div OneInBips) \in 0..wei
  BY <1>1, <1>4, LeastIsLeast
<1> QED BY <1>1, <1>5 DEF Credit, product

\* Both payments of an update are within the fees, the one within the rewards
\* of the update, the other within the balance of the poster.
LEMMA PaymentsArePart ==
  ASSUME NEW s \in PricingStorage, NEW a \in Addr, NEW allocated \in Nat
  PROVE  /\ s.fees \in Nat /\ s.reward \in Nat /\ s.reward * allocated \in Nat
         /\ RewardPayment(s, allocated) \in Nat
         /\ RewardPayment(s, allocated) <= s.fees
         /\ RewardPayment(s, allocated) <= s.reward * allocated
         /\ PosterPayment(s, a, allocated) \in Nat
         /\ PosterPayment(s, a, allocated) <= s.fees - RewardPayment(s, allocated)
         /\ PosterPayment(s, a, allocated) > 0 =>
              PosterPayment(s, a, allocated) <= s.table.due[a]
<1>1. s.fees \in Nat /\ s.reward \in Nat /\ s.table.due[a] \in Int
  <2>1. s.fees \in 0..MaxU256 /\ s.reward \in Rewards /\ s.table \in PosterStorage
    BY DEF PricingStorage
  <2>2. s.table.due[a] \in I256
    BY <2>1 DEF PosterStorage
  <2>3. s.fees \in Nat /\ s.reward \in Nat
    BY <2>1, Widths
  <2> QED BY <2>2, <2>3, I256IsInt
<1>2. s.reward * allocated \in Nat
  BY <1>1
<1>3. /\ RewardPayment(s, allocated) \in Nat
      /\ RewardPayment(s, allocated) <= s.fees
      /\ RewardPayment(s, allocated) <= s.reward * allocated
  BY <1>1, <1>2, LeastIsLeast DEF RewardPayment
<1> DEFINE rest == s.fees - RewardPayment(s, allocated)
<1>4. rest \in Nat
  BY <1>1, <1>3
<1> HIDE DEF rest
<1>5. /\ PosterPayment(s, a, allocated) \in Nat
      /\ PosterPayment(s, a, allocated) <= rest
      /\ PosterPayment(s, a, allocated) > 0 =>
           PosterPayment(s, a, allocated) <= s.table.due[a]
  <2> DEFINE due == s.table.due[a]
  <2>1. PosterPayment(s, a, allocated) = IF due <= 0 THEN 0 ELSE Least(rest, due)
    BY DEF PosterPayment, rest
  <2>2. due \in Int
    BY <1>1
  <2> HIDE DEF due
  <2>3. CASE due <= 0
    BY <1>4, <2>1, <2>3
  <2>4. CASE ~(due <= 0)
    <3>1. due \in Nat
      BY <2>2, <2>4
    <3> QED BY <1>4, <2>1, <2>4, <3>1, LeastIsLeast DEF due
  <2> QED BY <2>3, <2>4
<1> QED BY <1>1, <1>2, <1>3, <1>5 DEF rest

\* Truncating division by a positive number gives an integer.
LEMMA TruncDivIsInt ==
  ASSUME NEW x \in Int, NEW y \in Nat \ {0}
  PROVE  TruncDiv(x, y) \in Int
BY DEF TruncDiv

\* The change of the price is an integer: no division is by zero.
LEMMA PriceChangeIsInt ==
  ASSUME NEW s \in PricingStorage, NEW surplus \in I256,
         NEW allocated \in Nat \ {0}
  PROVE  PriceChange(s, surplus, allocated) \in Int
<1>1. /\ s.equilibration \in Nat /\ s.inertia \in Nat
      /\ s.lastSurplus \in Int /\ surplus \in Int
  BY Widths, I256IsInt DEF PricingStorage
<1> DEFINE inertiaUnits == IF s.inertia = 0 THEN s.equilibration
                           ELSE s.equilibration \div s.inertia
           desired == IF s.equilibration = 0 THEN 0
                      ELSE TruncDiv(-surplus, s.equilibration)
           actual == TruncDiv(SatSub(surplus, s.lastSurplus), allocated)
           change == SatSub(desired, actual) * allocated
<1>2. inertiaUnits + allocated \in Nat \ {0}
  BY <1>1
<1>3. desired \in Int
  BY <1>1, TruncDivIsInt
<1>4. actual \in Int
  BY <1>1, SatInRange, I256IsInt, TruncDivIsInt
<1> HIDE DEF desired, actual
<1>5. SatSub(desired, actual) \in Int
  BY <1>3, <1>4, SatInRange, I256IsInt
<1>6. change \in Int
  BY <1>5
<1> HIDE DEF change, inertiaUnits
<1>7. Saturate(change) \in Int
  BY <1>6, SaturateInRange, I256IsInt
<1>8. TruncDiv(Saturate(change), inertiaUnits + allocated) \in Int
  BY <1>2, <1>7, TruncDivIsInt
<1> QED BY <1>8 DEF PriceChange, inertiaUnits, desired, actual, change

\* The new price is in the range of U256.
LEMMA NewPriceInRange ==
  ASSUME NEW s \in PricingStorage, NEW change \in Int
  PROVE  NewPrice(s, change) \in 0..MaxU256
BY Widths DEF NewPrice, Least, PricingStorage

-----------------------------------------------------------------------------
(* The books.                                                              *)

\* The balances of the posters are covered by what they have to get.
PostersCovered(s) ==
  \A a \in Addr : 0 <= s.table.due[a] /\ s.table.due[a] <= s.owed[a]

\* The books of any version.
BooksKept(s) ==
  /\ s \in PricingStorage
  /\ TableInOrder(s.table)
  /\ PostersCovered(s)
  /\ s.rewardsDue = s.rewardsOwed

\* From ArbOS 10 on the stored fees are part of them.
BooksInOrder(s) == BooksKept(s) /\ s.pool <= s.fees

\* An update opens the poster, credits it, and takes its payment off again: the
\* balance after it is the one before, less the payment or with the credit.
LEMMA SettleKeeps ==
  ASSUME NEW s, BooksKept(s), NEW a \in Addr,
         s.table.posters.size < Cap \/ ContainsPoster(s.table, a),
         NEW credit \in Nat, NEW payment \in Nat
  PROVE  /\ TableInOrder(Settle(s, s, a, credit, payment))
         /\ Settle(s, s, a, credit, payment).due =
              [s.table.due EXCEPT ![a] =
                 IF payment = 0 THEN SatAdd(s.table.due[a], credit)
                 ELSE SatSub(s.table.due[a], payment)]
<1> DEFINE opened == OpenPoster(s.table, s.table, a)
           due == s.table.due[a]
           credited == SetFundsDue(s.table, opened, a, SatAdd(due, credit))
           paid == SetFundsDue(s.table, credited, a, SatSub(due, payment))
<1>1. TableInOrder(s.table) /\ s.table \in PosterStorage
  BY DEF BooksKept, TableInOrder
<1>2. s.table.due \in [Addr -> I256] /\ due \in Int
  BY <1>1, I256IsInt DEF PosterStorage
<1>3. SatAdd(due, credit) \in I256 /\ SatSub(due, payment) \in I256
  BY <1>2, SatInRange
<1>4. /\ TableInOrder(opened) /\ opened.due = s.table.due
      /\ ContainsPoster(opened, a)
  BY <1>1, OpenPosterKeeps
<1> HIDE DEF opened, due
<1>5. /\ TableInOrder(credited) /\ ContainsPoster(credited, a)
      /\ credited.due = [opened.due EXCEPT ![a] = SatAdd(due, credit)]
  BY <1>1, <1>3, <1>4, SetFundsDueKeeps
<1> HIDE DEF credited
<1>6. /\ TableInOrder(paid)
      /\ paid.due = [credited.due EXCEPT ![a] = SatSub(due, payment)]
  BY <1>1, <1>3, <1>5, SetFundsDueKeeps
<1> HIDE DEF paid
<1>7. Settle(s, s, a, credit, payment) = IF payment = 0 THEN credited ELSE paid
  BY DEF Settle, opened, due, credited, paid
<1>8. paid.due = [s.table.due EXCEPT ![a] = SatSub(due, payment)]
  BY <1>2, <1>4, <1>5, <1>6
<1> QED BY <1>4, <1>5, <1>6, <1>7, <1>8 DEF due

\* The rewards of an update are earned and paid by the auditor's books as by the
\* code's, as they fit an I256.
LEMMA RewardsStayKept ==
  ASSUME OneCallInWidth, NEW s, BooksKept(s), NEW earned \in Nat, NEW payment \in Nat,
         payment <= earned, s.rewardsOwed + earned <= MaxOwed,
         NEW rewardsOwed, rewardsOwed = s.rewardsOwed + earned - payment
  PROVE  /\ rewardsOwed \in 0..MaxOwed /\ rewardsOwed \in I256
         /\ SatSub(SatAdd(s.rewardsDue, earned), payment) = rewardsOwed
<1>1. s.rewardsOwed \in Nat /\ s.rewardsDue = s.rewardsOwed /\ MaxOwed \in Nat
  BY Widths DEF BooksKept, PricingStorage
<1>2. \A x \in 0..MaxOwed : x \in I256
  BY <1>1, MaxI256Assumption DEF OneCallInWidth, I256, MinI256
<1>3. s.rewardsOwed + earned \in 0..MaxOwed
  BY <1>1
<1>4. SatAdd(s.rewardsDue, earned) = s.rewardsOwed + earned
  BY <1>1, <1>2, <1>3, SaturateInRange DEF SatAdd
<1>5. rewardsOwed \in 0..MaxOwed /\ (s.rewardsOwed + earned) - payment = rewardsOwed
  BY <1>1
<1>6. SatSub(s.rewardsOwed + earned, payment) = rewardsOwed
  BY <1>2, <1>5, SaturateInRange DEF SatSub
<1> QED BY <1>2, <1>4, <1>5, <1>6

\* A credit and a payment within the balance keep every balance between zero
\* and what the poster has to get.
LEMMA BalancesStayCovered ==
  ASSUME OneCallInWidth, NEW s, BooksKept(s), NEW a \in Addr,
         NEW credit \in Nat, NEW payment \in Nat,
         payment > 0 => payment <= s.table.due[a],
         s.owed[a] + credit <= MaxOwed,
         NEW balance, balance = [s.table.due EXCEPT ![a] =
                                   IF payment = 0 THEN SatAdd(s.table.due[a], credit)
                                   ELSE SatSub(s.table.due[a], payment)],
         NEW owed, owed = [s.owed EXCEPT ![a] = s.owed[a] + credit - payment]
  PROVE  /\ owed \in [Addr -> 0..MaxOwed]
         /\ \A b \in Addr : 0 <= balance[b] /\ balance[b] <= owed[b]
<1>1. /\ s.owed \in [Addr -> 0..MaxOwed] /\ s.table.due \in [Addr -> I256]
      /\ MaxOwed \in Nat
  BY Widths DEF BooksKept, PricingStorage, PosterStorage
<1>2. \A c \in Addr : /\ s.owed[c] \in 0..MaxOwed /\ s.table.due[c] \in I256
                      /\ s.table.due[c] \in Int
                      /\ 0 <= s.table.due[c] /\ s.table.due[c] <= s.owed[c]
  BY <1>1, I256IsInt DEF BooksKept, PostersCovered
<1>3. ASSUME NEW b \in Addr
      PROVE  /\ owed[b] \in 0..MaxOwed
             /\ 0 <= balance[b] /\ balance[b] <= owed[b]
  <2>1. CASE b # a
    BY <1>1, <1>2, <2>1
  <2>2. CASE b = a
    <3> DEFINE due == s.table.due[a]
               credits == s.owed[a]
    <3>1. /\ due \in Int /\ due \in I256 /\ 0 <= due /\ due <= credits
          /\ credits \in Nat /\ credits + credit <= MaxOwed
      BY <1>1, <1>2
    <3>2. /\ owed[b] = credits + credit - payment
          /\ balance[b] = IF payment = 0 THEN SatAdd(due, credit)
                          ELSE SatSub(due, payment)
      BY <1>1, <2>2
    <3>3. payment <= due
      BY <3>1
    <3> HIDE DEF due, credits
    <3>4. owed[b] \in 0..MaxOwed
      BY <1>1, <3>1, <3>2, <3>3
    <3>5. /\ 0 <= SatAdd(due, credit) /\ SatAdd(due, credit) <= due + credit
          /\ SatSub(due, payment) = due - payment
      BY <3>1, <3>3, MaxI256Assumption
         DEF SatAdd, SatSub, Saturate, I256, MinI256
    <3>6. SatAdd(due, credit) \in Int
      <4>1. credit \in Int /\ SatAdd(due, credit) \in I256
        BY <3>1, SatInRange
      <4> QED BY <4>1, I256IsInt
    <3> QED BY <3>1, <3>2, <3>3, <3>4, <3>5, <3>6
  <2> QED BY <2>1, <2>2
<1>4. owed \in [Addr -> 0..MaxOwed]
  BY <1>1, <1>3
<1> QED BY <1>3, <1>4

\* A credit alone keeps them so.
LEMMA CreditStaysCovered ==
  ASSUME OneCallInWidth, NEW s, BooksKept(s), NEW a \in Addr, NEW credit \in Nat,
         s.owed[a] + credit <= MaxOwed,
         NEW balance, balance = [s.table.due EXCEPT ![a] =
                                   SatAdd(s.table.due[a], credit)],
         NEW owed, owed = [s.owed EXCEPT ![a] = s.owed[a] + credit]
  PROVE  /\ owed \in [Addr -> 0..MaxOwed]
         /\ \A b \in Addr : 0 <= balance[b] /\ balance[b] <= owed[b]
<1>1. s.owed \in [Addr -> 0..MaxOwed] /\ MaxOwed \in Nat
  BY Widths DEF BooksKept, PricingStorage
<1>2. s.table.due \in [Addr -> I256]
  BY DEF BooksKept, PricingStorage, PosterStorage
<1>3. \A b \in Addr : /\ s.owed[b] \in 0..MaxOwed /\ s.table.due[b] \in Int
                      /\ 0 <= s.table.due[b] /\ s.table.due[b] <= s.owed[b]
  BY <1>1, <1>2, I256IsInt DEF BooksKept, PostersCovered
<1> DEFINE due == s.table.due[a]
           credited == SatAdd(due, credit)
<1>4. due \in Int /\ 0 <= due /\ due <= s.owed[a] /\ s.owed[a] \in 0..MaxOwed
  BY <1>3
<1> HIDE DEF due
<1>5. /\ credited \in Int /\ 0 <= credited /\ credited <= s.owed[a] + credit
      /\ s.owed[a] + credit \in 0..MaxOwed
  <2>1. credited \in Int
    <3>1. credit \in Int /\ SatAdd(due, credit) \in I256
      BY <1>4, SatInRange
    <3> QED BY <3>1, I256IsInt
  <2>2. 0 <= credited /\ credited <= due + credit
    BY <1>4, MaxI256Assumption DEF SatAdd, Saturate, MinI256
  <2> HIDE DEF credited
  <2> QED BY <1>1, <1>4, <2>1, <2>2
<1>6. \A b \in Addr : /\ balance[b] = IF b = a THEN credited ELSE s.table.due[b]
                      /\ owed[b] = IF b = a THEN s.owed[a] + credit ELSE s.owed[b]
  BY <1>1, <1>2 DEF due
<1> HIDE DEF credited
<1>7. ASSUME NEW b \in Addr PROVE 0 <= balance[b] /\ balance[b] <= owed[b]
  <2>1. CASE b = a
    <3>1. balance[b] = credited /\ owed[b] = s.owed[a] + credit
      BY <1>6, <2>1
    <3> QED BY <1>5, <3>1
  <2>2. CASE b # a
    <3>1. balance[b] = s.table.due[b] /\ owed[b] = s.owed[b]
      BY <1>6, <2>2
    <3> QED BY <1>3, <3>1
  <2> QED BY <2>1, <2>2
<1>8. owed \in [Addr -> 0..MaxOwed]
  BY <1>1, <1>5
<1> QED BY <1>7, <1>8

\* An update with a valid time that does not panic keeps the books.
LEMMA UpdateKeeps ==
  ASSUME OneCallInWidth, NEW s, BooksInOrder(s),
         NEW a \in Addr, NEW t \in Times, NEW now \in Times,
         NEW wei \in Spendings, NEW basefee \in BaseFees,
         TimeIsValid(s, t, now), ~UpdatePanics(s, s, a, t, now),
         s.table.posters.size < Cap \/ ContainsPoster(s.table, a),
         s.owed[a] + wei <= MaxOwed,
         s.rewardsOwed + s.reward * Allocated(s, t, now) <= MaxOwed
  PROVE  /\ BooksInOrder(Update(s, s, a, t, now, wei, basefee))
         /\ s.lastTime <= Update(s, s, a, t, now, wei, basefee).lastTime
<1> DEFINE allocated == Allocated(s, t, now)
           credit == Credit(s, allocated, wei, basefee)
           reward == RewardPayment(s, allocated)
           payment == PosterPayment(s, a, allocated)
           fees == FeesLeft(s, reward, payment)
           surplus == SatSub(Signed(fees), SatAdd(s.table.total, s.rewardsDue))
           table == Settle(s, s, a, credit, payment)
           rewardsDue == RewardsLeft(s, allocated, reward)
           lastSurplus == IF allocated > 0 THEN surplus ELSE s.lastSurplus
           price == IF allocated > 0
                    THEN NewPrice(s, PriceChange(s, surplus, allocated))
                    ELSE s.price
           units == s.units - allocated
           pool == s.pool - reward - payment
           owed == [s.owed EXCEPT ![a] = s.owed[a] + credit - payment]
           rewardsOwed == s.rewardsOwed + s.reward * allocated - reward
           after == [s EXCEPT !.table = table, !.units = units, !.fees = fees,
                              !.rewardsDue = rewardsDue, !.lastTime = t,
                              !.lastSurplus = lastSurplus, !.price = price,
                              !.pool = pool, !.owed = owed,
                              !.rewardsOwed = rewardsOwed]
<1>1. s \in PricingStorage
  BY DEF BooksInOrder, BooksKept
<1>2. Update(s, s, a, t, now, wei, basefee) = after
  BY DEF Update
<1>3. allocated \in Nat /\ allocated \in 0..s.units /\ s.lastTime <= t
  BY <1>1, AllocatedIsPart, Widths DEF PricingStorage
<1>4. credit \in Nat /\ credit <= wei /\ wei \in Nat
  BY <1>1, <1>3, CreditIsPart, Widths
<1>5. /\ s.fees \in Nat /\ s.reward * allocated \in Nat
      /\ reward \in Nat /\ reward <= s.fees /\ reward <= s.reward * allocated
      /\ payment \in Nat /\ payment <= s.fees - reward
      /\ payment > 0 => payment <= s.table.due[a]
  BY <1>1, <1>3, PaymentsArePart
<1>6. reward + payment <= s.pool
  BY <1>1, <1>3, <1>5, Widths DEF UpdatePanics, PricingStorage
<1>7. /\ TableInOrder(table)
      /\ table.due = [s.table.due EXCEPT ![a] =
                        IF payment = 0 THEN SatAdd(s.table.due[a], credit)
                        ELSE SatSub(s.table.due[a], payment)]
  BY <1>4, <1>5, SettleKeeps DEF BooksInOrder
<1> DEFINE earned == s.reward * allocated
<1>8. rewardsDue = SatSub(SatAdd(s.rewardsDue, earned), reward)
  BY DEF RewardsLeft
<1>9. fees = IF payment = 0 THEN s.fees - reward ELSE s.fees - payment
  BY DEF FeesLeft
<1>10. earned \in Nat /\ reward <= earned /\ s.rewardsOwed + earned <= MaxOwed
  BY <1>5
<1>11. rewardsOwed = s.rewardsOwed + earned - reward
  OBVIOUS
<1> HIDE DEF allocated, credit, reward, payment, fees, table, rewardsDue, earned,
             rewardsOwed
<1>12. fees \in 0..MaxU256 /\ pool \in 0..MaxU256 /\ pool <= fees
  <2>1. s.pool \in Nat /\ s.fees \in 0..MaxU256 /\ s.pool <= s.fees /\ MaxU256 \in Nat
    BY <1>1, Widths DEF BooksInOrder, BooksKept, PricingStorage
  <2> QED BY <1>5, <1>6, <1>9, <2>1
<1>13. units \in 0..MaxU64
  BY <1>1, <1>3, Widths DEF PricingStorage
<1>14. surplus \in I256
  <2>1. s.table.total \in I256 /\ s.rewardsDue \in I256
    BY <1>1 DEF PricingStorage, PosterStorage
  <2>2. SatAdd(s.table.total, s.rewardsDue) \in Int
    BY <2>1, I256IsInt, SatInRange
  <2>3. Signed(fees) \in Int
    BY <1>12, Widths, MaxI256Assumption DEF Signed, Least
  <2> QED BY <2>2, <2>3, SatInRange
<1> HIDE DEF surplus
<1>15. lastSurplus \in I256 /\ price \in 0..MaxU256
  <2>1. s.lastSurplus \in I256 /\ s.price \in 0..MaxU256
    BY <1>1 DEF PricingStorage
  <2>2. ASSUME allocated > 0 PROVE price \in 0..MaxU256
    <3>1. PriceChange(s, surplus, allocated) \in Int
      BY <1>1, <1>3, <1>14, <2>2, PriceChangeIsInt
    <3> QED BY <1>1, <2>2, <3>1, NewPriceInRange
  <2> QED BY <1>14, <2>1, <2>2
<1>16. rewardsOwed \in 0..MaxOwed /\ rewardsDue \in I256 /\ rewardsDue = rewardsOwed
  BY <1>5, <1>8, <1>10, <1>11, RewardsStayKept DEF BooksInOrder, BooksKept
<1>17. s.owed[a] + credit <= MaxOwed
  <2>1. s.owed[a] \in Nat /\ MaxOwed \in Nat
    BY <1>1, Widths DEF PricingStorage
  <2> QED BY <1>4, <2>1
<1>18. /\ owed \in [Addr -> 0..MaxOwed]
       /\ \A b \in Addr : 0 <= table.due[b] /\ table.due[b] <= owed[b]
  BY <1>4, <1>5, <1>7, <1>17, BalancesStayCovered DEF BooksInOrder, BooksKept
<1>19. table \in PosterStorage
  BY <1>7 DEF TableInOrder
<1> HIDE DEF units, lastSurplus, price, pool, owed
<1>20. /\ after \in PricingStorage /\ after.table = table /\ after.owed = owed
       /\ after.rewardsDue = rewardsDue /\ after.rewardsOwed = rewardsOwed
       /\ after.pool = pool /\ after.fees = fees /\ after.lastTime = t
  BY <1>1, <1>12, <1>13, <1>15, <1>16, <1>18, <1>19 DEF PricingStorage
<1> HIDE DEF after
<1>21. BooksInOrder(after)
  BY <1>7, <1>12, <1>16, <1>18, <1>20 DEF BooksInOrder, BooksKept, PostersCovered
<1> QED BY <1>2, <1>3, <1>20, <1>21

\* A report with an invalid time keeps the books, though it may leave a new
\* poster in the table.
LEMMA InvalidUpdateKeeps ==
  ASSUME NEW s, BooksInOrder(s), NEW a \in Addr, NEW t, NEW now,
         NEW wei, NEW basefee, ~TimeIsValid(s, t, now),
         s.table.posters.size < Cap \/ ContainsPoster(s.table, a)
  PROVE  /\ BooksInOrder(Update(s, s, a, t, now, wei, basefee))
         /\ s.lastTime <= Update(s, s, a, t, now, wei, basefee).lastTime
<1> DEFINE opened == OpenPoster(s.table, s.table, a)
           after == [s EXCEPT !.table = opened]
<1>1. Update(s, s, a, t, now, wei, basefee) = after
  BY DEF Update
<1>2. TableInOrder(opened) /\ opened.due = s.table.due
  BY OpenPosterKeeps DEF BooksInOrder, BooksKept
<1> HIDE DEF opened
<1>3. s \in PricingStorage /\ opened \in PosterStorage
  BY <1>2 DEF BooksInOrder, BooksKept, TableInOrder
<1>4. /\ after \in PricingStorage /\ after.table = opened
      /\ after.owed = s.owed /\ after.rewardsDue = s.rewardsDue
      /\ after.rewardsOwed = s.rewardsOwed /\ after.pool = s.pool
      /\ after.fees = s.fees /\ after.lastTime = s.lastTime
  BY <1>3 DEF PricingStorage
<1>5. s.lastTime \in Nat
  BY <1>3, Widths DEF PricingStorage, Times
<1> HIDE DEF after
<1>6. BooksInOrder(after)
  BY <1>2, <1>4 DEF BooksInOrder, BooksKept, PostersCovered
<1> QED BY <1>1, <1>4, <1>5, <1>6

\* Fees are booked to the width of U256, which bounds the pool too.
LEMMA CollectKeeps ==
  ASSUME NEW s, BooksInOrder(s), NEW amount \in Amounts,
         s.pool + amount <= MaxU256
  PROVE  LET after == [s EXCEPT !.fees = Least(s.fees + amount, MaxU256),
                                !.pool = s.pool + amount]
         IN  BooksInOrder(after) /\ s.lastTime <= after.lastTime
<1> DEFINE fees == Least(s.fees + amount, MaxU256)
           pool == s.pool + amount
           after == [s EXCEPT !.fees = fees, !.pool = pool]
<1>1. s \in PricingStorage /\ s.pool <= s.fees
  BY DEF BooksInOrder, BooksKept
<1>2. /\ s.fees \in Nat /\ s.pool \in Nat /\ amount \in Nat /\ MaxU256 \in Nat
      /\ s.lastTime \in Nat
  BY <1>1, Widths DEF PricingStorage, Times
<1>3. fees \in 0..MaxU256 /\ pool \in 0..MaxU256 /\ pool <= fees
  BY <1>1, <1>2 DEF Least
<1> HIDE DEF fees, pool
<1>4. /\ after \in PricingStorage /\ after.table = s.table /\ after.owed = s.owed
      /\ after.rewardsDue = s.rewardsDue /\ after.rewardsOwed = s.rewardsOwed
      /\ after.pool = pool /\ after.fees = fees /\ after.lastTime = s.lastTime
  BY <1>1, <1>3 DEF PricingStorage
<1> HIDE DEF after
<1>5. BooksInOrder(after)
  BY <1>3, <1>4 DEF BooksInOrder, BooksKept, PostersCovered
<1>6. s.lastTime <= after.lastTime
  BY <1>2, <1>4
<1> QED BY <1>5, <1>6 DEF after, fees, pool

\* Units and parameters are no part of the books.
LEMMA ParametersKeep ==
  ASSUME NEW s, BooksInOrder(s), NEW after, after \in PricingStorage,
         after.table = s.table, after.owed = s.owed,
         after.rewardsDue = s.rewardsDue, after.rewardsOwed = s.rewardsOwed,
         after.pool = s.pool, after.fees = s.fees, after.lastTime = s.lastTime
  PROVE  BooksInOrder(after) /\ s.lastTime <= after.lastTime
<1>1. s.lastTime \in Nat
  BY Widths DEF BooksInOrder, BooksKept, PricingStorage, Times
<1> QED BY <1>1 DEF BooksInOrder, BooksKept, PostersCovered

-----------------------------------------------------------------------------
(* The invariant. *)

\* Both views of the books are in order and the same when a transaction starts,
\* and the time does not go back within a transaction.
IInv ==
  /\ BooksInOrder(db)
  /\ BooksInOrder(jrn)
  /\ db.lastTime <= jrn.lastTime
  /\ calls \in 0..MaxCalls
  /\ calls = 0 => jrn = db

\* With one call in a transaction, a call reads the books that it writes.
LEMMA OneBook ==
  ASSUME OneCallInWidth, IInv, calls < MaxCalls
  PROVE  jrn = db /\ BooksInOrder(db)
BY DEF IInv, OneCallInWidth

\* A call that leaves books in order keeps the invariant.
LEMMA CallKeeps ==
  ASSUME OneCallInWidth, IInv, NEW s, BooksInOrder(s), db.lastTime <= s.lastTime,
         Call(s)
  PROVE  IInv'
BY DEF IInv, Call, OneCallInWidth

\* The books of the start are in order: nothing collected and nothing owed.
LEMMA StartInOrder ==
  ASSUME NEW reward \in Rewards, NEW cap \in Caps,
         NEW equilibration \in Equilibria, NEW inertia \in Inertias
  PROVE  /\ BooksInOrder(PricingInit(reward, cap, equilibration, inertia))
         /\ PricingInit(reward, cap, equilibration, inertia).lastTime = 0
<1> DEFINE s == PricingInit(reward, cap, equilibration, inertia)
           table == AddPoster(NoPosters, NoPosters, Sequencer, Sequencer)
<1>1. NoPosters.posters.size < Cap /\ NoPosters.due = [a \in Addr |-> 0]
  BY CapAssumption DEF NoPosters, Empty
<1>2. TableInOrder(table)
  BY <1>1, NoPostersInOrder, AddPosterKeeps, SequencerAssumption
<1>3. table.due = [a \in Addr |-> 0]
  <2>1. NoPosters \in PosterStorage /\ NoPosters.posters = Empty
    BY NoPostersInOrder DEF TableInOrder, NoPosters
  <2>2. Empty.size < Cap
    BY <1>1 DEF NoPosters
  <2>3. Add(NoPosters.posters, NoPosters.posters, Sequencer) \in Storage
    BY <2>1, <2>2, EmptyIsConsistent, AddKeeps, SequencerAssumption
  <2>4. table.due = [NoPosters.due EXCEPT ![Sequencer] = 0]
    BY <2>1, <2>3, AddPosterType, SequencerAssumption
  <2> HIDE DEF table
  <2> QED BY <1>1, <2>4
<1> HIDE DEF table
<1>4. table \in PosterStorage
  BY <1>2 DEF TableInOrder
<1>5. s = [table |-> table,
           fees |-> 0, units |-> 0, lastTime |-> 0,
           rewardsDue |-> 0, reward |-> reward, cap |-> cap,
           equilibration |-> equilibration, inertia |-> inertia,
           price |-> 0, lastSurplus |-> 0,
           pool |-> 0,
           owed |-> [a \in Addr |-> 0], rewardsOwed |-> 0]
  BY DEF PricingInit, table
<1>6. /\ 0 \in I256 /\ 0 \in Times /\ 0 \in 0..MaxU64 /\ 0 \in 0..MaxU256
      /\ 0 \in 0..MaxOwed
  BY Widths, MaxI256Assumption DEF I256, MinI256, Times
<1>7. s \in PricingStorage
  BY <1>4, <1>5, <1>6 DEF PricingStorage
<1>8. BooksInOrder(s) /\ s.lastTime = 0
  BY <1>2, <1>3, <1>5, <1>7 DEF BooksInOrder, BooksKept, PostersCovered
<1> QED BY <1>8

\* The initial states have the invariant.
LEMMA InitInvariant == Init => IInv
BY StartInOrder, MaxCallsAssumption DEF Init, JournalInit, IInv

\* A spending report keeps the invariant.
LEMMA ReportInvariant ==
  ASSUME OneCallInWidth, IInv, NEW a \in Addr, NEW t \in Times, NEW now \in Times,
         NEW wei \in Spendings, NEW basefee \in BaseFees,
         UpdateForBatchPosterSpending(a, t, now, wei, basefee)
  PROVE  IInv'
<1> DEFINE after == Update(db, db, a, t, now, wei, basefee)
<1>1. /\ ~UpdatePanics(db, jrn, a, t, now)
      /\ db.table.posters.size < Cap \/ ContainsPoster(db.table, a)
      /\ jrn.owed[a] + wei <= MaxOwed
      /\ TimeIsValid(db, t, now) =>
           jrn.rewardsOwed + db.reward * Allocated(db, t, now) <= MaxOwed
      /\ Call(Update(db, jrn, a, t, now, wei, basefee))
      /\ calls < MaxCalls
  BY DEF UpdateForBatchPosterSpending, Call
<1>2. jrn = db /\ BooksInOrder(db)
  BY <1>1, OneBook
<1>3. BooksInOrder(after) /\ db.lastTime <= after.lastTime
  <2>1. CASE TimeIsValid(db, t, now)
    BY <1>1, <1>2, <2>1, UpdateKeeps
  <2>2. CASE ~TimeIsValid(db, t, now)
    BY <1>1, <1>2, <2>2, InvalidUpdateKeeps
  <2> QED BY <2>1, <2>2
<1>4. Call(after)
  BY <1>1, <1>2
<1> HIDE DEF after
<1> QED BY <1>3, <1>4, CallKeeps

\* A call that writes no more than units or a parameter keeps the invariant.
LEMMA ParameterInvariant ==
  ASSUME OneCallInWidth, IInv, NEW s, Call(s),
         db \in PricingStorage /\ jrn = db =>
           /\ s \in PricingStorage
           /\ s.table = db.table /\ s.owed = db.owed
           /\ s.rewardsDue = db.rewardsDue /\ s.rewardsOwed = db.rewardsOwed
           /\ s.pool = db.pool /\ s.fees = db.fees /\ s.lastTime = db.lastTime
  PROVE  IInv'
<1>1. jrn = db /\ BooksInOrder(db) /\ db \in PricingStorage
  BY OneBook DEF Call, BooksInOrder, BooksKept
<1>2. BooksInOrder(s) /\ db.lastTime <= s.lastTime
  BY <1>1, ParametersKeep
<1> QED BY <1>2, CallKeeps

\* Every step keeps the invariant.
LEMMA StepInvariant ==
  ASSUME OneCallInWidth, IInv, [Next]_txVars
  PROVE  IInv'
<1>1. ASSUME NEW amount \in Amounts, CollectFees(amount) PROVE IInv'
  <2> DEFINE after == [db EXCEPT !.fees = Least(db.fees + amount, MaxU256),
                                 !.pool = db.pool + amount]
  <2>1. jrn.pool + amount <= MaxU256 /\ calls < MaxCalls
    BY <1>1 DEF CollectFees, Call
  <2>2. jrn = db /\ BooksInOrder(db)
    BY <2>1, OneBook
  <2>3. Call(after)
    <3>1. db \in PricingStorage
      BY <2>2 DEF BooksInOrder, BooksKept
    <3>2. after = [db EXCEPT !.fees = Least(db.fees + amount, MaxU256),
                             !.pool = @ + amount]
      BY <3>1 DEF PricingStorage
    <3> QED BY <1>1, <2>2, <3>2 DEF CollectFees
  <2>4. BooksInOrder(after) /\ db.lastTime <= after.lastTime
    BY <2>1, <2>2, CollectKeeps
  <2> HIDE DEF after
  <2> QED BY <2>3, <2>4, CallKeeps
<1>2. ASSUME NEW units \in Units, AddUnits(units) PROVE IInv'
  <2> DEFINE sum == Least(db.units + units, MaxU64)
             after == [jrn EXCEPT !.units = sum]
  <2>1. Call(after)
    BY <1>2 DEF AddUnits
  <2>2. ASSUME db \in PricingStorage PROVE sum \in 0..MaxU64
    <3>1. db.units \in Nat /\ units \in Nat /\ MaxU64 \in Nat
      BY <2>2, Widths DEF PricingStorage
    <3> QED BY <3>1 DEF Least
  <2> HIDE DEF sum
  <2>3. ASSUME db \in PricingStorage, jrn = db
        PROVE  /\ after \in PricingStorage
               /\ after.table = db.table /\ after.owed = db.owed
               /\ after.rewardsDue = db.rewardsDue
               /\ after.rewardsOwed = db.rewardsOwed
               /\ after.pool = db.pool /\ after.fees = db.fees
               /\ after.lastTime = db.lastTime
    BY <2>2, <2>3 DEF PricingStorage
  <2> HIDE DEF after
  <2> QED BY <2>1, <2>3, ParameterInvariant
<1>3. ASSUME NEW a \in Addr, NEW t \in Times, NEW now \in Times,
             NEW wei \in Spendings, NEW basefee \in BaseFees,
             UpdateForBatchPosterSpending(a, t, now, wei, basefee)
      PROVE  IInv'
  BY <1>3, ReportInvariant
<1>4. ASSUME NEW v \in Rewards, SetPerUnitReward(v) PROVE IInv'
  BY <1>4, ParameterInvariant DEF SetPerUnitReward, PricingStorage
<1>5. ASSUME NEW v \in Caps, SetAmortizedCostCapBips(v) PROVE IInv'
  BY <1>5, ParameterInvariant DEF SetAmortizedCostCapBips, PricingStorage
<1>6. ASSUME NEW v \in Equilibria, SetEquilibrationUnits(v) PROVE IInv'
  BY <1>6, ParameterInvariant DEF SetEquilibrationUnits, PricingStorage
<1>7. ASSUME NEW v \in Inertias, SetInertia(v) PROVE IInv'
  BY <1>7, ParameterInvariant DEF SetInertia, PricingStorage
<1>8. ASSUME Commit PROVE IInv'
  <2>1. jrn.lastTime \in Nat
    BY Widths DEF IInv, BooksInOrder, BooksKept, PricingStorage, Times
  <2> QED BY <1>8, <2>1, MaxCallsAssumption DEF Commit, IInv
<1>9. ASSUME Revert PROVE IInv'
  <2>1. db.lastTime \in Nat
    BY Widths DEF IInv, BooksInOrder, BooksKept, PricingStorage, Times
  <2> QED BY <1>9, <2>1, MaxCallsAssumption DEF Revert, IInv
<1>10. ASSUME UNCHANGED txVars PROVE IInv'
  BY <1>10 DEF txVars, IInv
<1> QED BY <1>1, <1>2, <1>3, <1>4, <1>5, <1>6, <1>7, <1>8, <1>9, <1>10 DEF Next

\* The invariant holds in every reachable state.
THEOREM Invariance == ASSUME OneCallInWidth PROVE Spec => []IInv
<1>1. Init => IInv
  BY InitInvariant
<1>2. IInv /\ [Next]_txVars => IInv'
  BY StepInvariant
<1> QED BY <1>1, <1>2, PTL DEF Spec

\* Every amount, price and balance stays in the width of its integer: neither
\* the fees and the units that an update takes off nor the price it moves go
\* below zero, and no division is by zero.
THEOREM TypeCorrect == ASSUME OneCallInWidth PROVE Spec => []TypeOK
<1>1. IInv => TypeOK
  BY DEF IInv, BooksInOrder, BooksKept, TypeOK
<1> QED BY <1>1, Invariance, PTL

\* No poster is paid ahead of what it has to get.
THEOREM NeverPaidAhead == ASSUME OneCallInWidth PROVE Spec => []NeverOverpaid
<1>1. IInv => NeverOverpaid
  BY DEF IInv, BooksInOrder, BooksKept, PostersCovered, NeverOverpaid
<1> QED BY <1>1, Invariance, PTL

\* The rewards due are the rewards earned and not paid.
THEOREM RewardsAreKept == ASSUME OneCallInWidth PROVE Spec => []RewardsKept
<1>1. IInv => RewardsKept
  BY DEF IInv, BooksInOrder, BooksKept, RewardsKept
<1> QED BY <1>1, Invariance, PTL

\* All of the pool is booked.
THEOREM AllIsBooked == ASSUME OneCallInWidth PROVE Spec => []PoolIsBooked
<1>1. IInv => PoolIsBooked
  BY DEF IInv, BooksInOrder, BooksKept, PoolIsBooked
<1> QED BY <1>1, Invariance, PTL

\* The time of the last update never goes back.
THEOREM TimeNeverGoesBack == ASSUME OneCallInWidth PROVE Spec => TimeAdvances
<1> DEFINE Step == db'.lastTime >= db.lastTime
<1>1. ASSUME IInv, [Next]_txVars PROVE [Step]_txVars
  <2>1. db.lastTime \in Nat /\ jrn.lastTime \in Nat /\ db.lastTime <= jrn.lastTime
    BY <1>1, Widths DEF IInv, BooksInOrder, BooksKept, PricingStorage, Times
  <2>2. ASSUME Next PROVE db' = db \/ db' = jrn
    BY <2>2 DEF Next, CollectFees, AddUnits, UpdateForBatchPosterSpending,
                SetPerUnitReward, SetAmortizedCostCapBips, SetEquilibrationUnits,
                SetInertia, Call, Commit, Revert
  <2>3. ASSUME Next PROVE Step
    BY <2>1, <2>2, <2>3
  <2> QED BY <1>1, <2>3
<1> QED BY <1>1, Invariance, PTL DEF Spec, TimeAdvances

-----------------------------------------------------------------------------
(* The total of the table.                                                 *)

\* Balances as large as what a recipient may have to get, of all addresses and
\* one more, fit the width of the total.
TotalFits == Fits(MaxOwed)

\* Balances that are covered are within what a recipient may have to get.
LEMMA CoveredIsWithin ==
  ASSUME NEW s, BooksKept(s)
  PROVE  BalancesWithin(s.table, MaxOwed)
<1> SUFFICES ASSUME NEW a \in Addr PROVE s.table.due[a] \in -MaxOwed..MaxOwed
  BY DEF BalancesWithin
<1>1. MaxOwed \in Nat /\ s.owed[a] \in 0..MaxOwed
  BY Widths DEF BooksKept, PricingStorage
<1>2. s.table.due[a] \in Int
  BY I256IsInt DEF BooksKept, PricingStorage, PosterStorage
<1>3. 0 <= s.table.due[a] /\ s.table.due[a] <= s.owed[a]
  BY DEF BooksKept, PostersCovered
<1> QED BY <1>1, <1>2, <1>3

\* The balance that an update leaves is the sum's change and the total's: of two
\* settings of the balance the second starts from the total that was read, not
\* from the one that the first wrote.
LEMMA SettleAdds ==
  ASSUME OneCallInWidth, TotalFits, NEW s, BooksKept(s), TotalIsRight(s.table),
         NEW a \in Addr, s.table.posters.size < Cap \/ ContainsPoster(s.table, a),
         NEW credit \in Nat, NEW payment \in Nat,
         payment > 0 => payment <= s.table.due[a], s.owed[a] + credit <= MaxOwed
  PROVE  TotalIsRight(Settle(s, s, a, credit, payment))
<1> DEFINE opened == OpenPoster(s.table, s.table, a)
           due == s.table.due[a]
           more == SatAdd(due, credit)
           less == SatSub(due, payment)
           credited == SetFundsDue(s.table, opened, a, more)
           paid == SetFundsDue(s.table, credited, a, less)
           settled == Settle(s, s, a, credit, payment)
<1>1. TableInOrder(s.table) /\ s.table \in PosterStorage
  BY DEF BooksKept, TableInOrder
<1>2. /\ due \in Int /\ 0 <= due /\ due + credit <= MaxOwed
      /\ MaxOwed \in Nat /\ MaxOwed <= MaxI256
  <2>1. due \in Int
    BY <1>1, I256IsInt DEF PosterStorage
  <2>2. 0 <= due /\ due <= s.owed[a]
    BY DEF BooksKept, PostersCovered
  <2>3. s.owed[a] \in Nat /\ MaxOwed \in Nat
    BY Widths DEF BooksKept, PricingStorage
  <2> HIDE DEF due
  <2> QED BY <2>1, <2>2, <2>3 DEF OneCallInWidth
<1>3. payment <= due
  BY <1>2
<1>4. settled = IF payment = 0 THEN credited ELSE paid
  BY DEF Settle
<1>5. TableInOrder(opened) /\ ContainsPoster(opened, a)
  BY <1>1, OpenPosterKeeps
<1>6. settled.due = [s.table.due EXCEPT ![a] = IF payment = 0 THEN more ELSE less]
  BY SettleKeeps
<1>7. BalancesWithin(s.table, MaxOwed)
  BY CoveredIsWithin
<1> HIDE DEF opened, due, settled
<1>8. /\ more \in -MaxOwed..MaxOwed /\ more \in I256
      /\ less \in -MaxOwed..MaxOwed /\ less \in I256
  <2>1. due + credit \in I256 /\ due - payment \in I256
    BY <1>2, <1>3, MaxI256Assumption DEF I256, MinI256
  <2>2. more = due + credit /\ less = due - payment
    BY <1>2, <2>1, SaturateInRange DEF SatAdd, SatSub
  <2> HIDE DEF more, less
  <2> QED BY <1>2, <1>3, <2>1, <2>2
<1> HIDE DEF more, less
<1>9. opened \in PosterStorage /\ credited \in PosterStorage
  BY <1>1, <1>5, <1>8, SetFundsDueType DEF TableInOrder
<1>10. credited.total = SumFunction([s.table.due EXCEPT ![a] = more])
  BY <1>1, <1>7, <1>8, <1>9, SetFundsDueAdds DEF TotalFits
<1> HIDE DEF credited
<1>11. paid.total = SumFunction([s.table.due EXCEPT ![a] = less])
  BY <1>1, <1>7, <1>8, <1>9, SetFundsDueAdds DEF TotalFits
<1> HIDE DEF paid
<1> QED BY <1>4, <1>6, <1>10, <1>11 DEF TotalIsRight, settled

\* A report from ArbOS 10 on keeps the total right, with a valid time or not.
LEMMA UpdateAdds ==
  ASSUME OneCallInWidth, TotalFits, NEW s, BooksKept(s), TotalIsRight(s.table),
         NEW a \in Addr, NEW t \in Times, NEW now \in Times,
         NEW wei \in Spendings, NEW basefee \in BaseFees,
         s.table.posters.size < Cap \/ ContainsPoster(s.table, a),
         s.owed[a] + wei <= MaxOwed
  PROVE  TotalIsRight(Update(s, s, a, t, now, wei, basefee).table)
<1>1. s \in PricingStorage /\ TableInOrder(s.table)
  BY DEF BooksKept
<1>2. CASE ~TimeIsValid(s, t, now)
  <2>1. Update(s, s, a, t, now, wei, basefee).table = OpenPoster(s.table, s.table, a)
    BY <1>1, <1>2 DEF Update, PricingStorage
  <2> QED BY <1>1, <2>1, OpenPosterAdds
<1>3. CASE TimeIsValid(s, t, now)
  <2> DEFINE allocated == Allocated(s, t, now)
             credit == Credit(s, allocated, wei, basefee)
             payment == PosterPayment(s, a, allocated)
  <2>1. Update(s, s, a, t, now, wei, basefee).table = Settle(s, s, a, credit, payment)
    BY <1>1, <1>3 DEF Update, PricingStorage
  <2>2. allocated \in Nat
    BY <1>1, <1>3, AllocatedIsPart, Widths DEF PricingStorage
  <2>3. /\ payment \in Nat
        /\ payment > 0 => payment <= s.table.due[a]
    BY <1>1, <2>2, PaymentsArePart
  <2>4. credit \in Nat /\ s.owed[a] + credit <= MaxOwed
    <3>1. credit \in 0..wei /\ wei \in Nat
      BY <1>1, <2>2, CreditIsPart, Widths
    <3>2. s.owed[a] \in Nat /\ MaxOwed \in Nat
      BY <1>1, Widths DEF PricingStorage
    <3> HIDE DEF credit
    <3> QED BY <3>1, <3>2
  <2> HIDE DEF credit, payment
  <2> QED BY <2>1, <2>3, <2>4, SettleAdds
<1> QED BY <1>2, <1>3

\* Both views of the table have the right total.
TotalsRight == TotalIsRight(db.table) /\ TotalIsRight(jrn.table)

\* A call that writes no table keeps the totals.
LEMMA OtherCallsAdd ==
  ASSUME TotalsRight, NEW s, s.table = jrn.table, Call(s)
  PROVE  TotalsRight'
BY DEF TotalsRight, Call

\* The start has nothing to add up.
LEMMA StartTotal ==
  ASSUME NEW reward, NEW cap, NEW equilibration, NEW inertia
  PROVE  TotalIsRight(PricingInit(reward, cap, equilibration, inertia).table)
<1> DEFINE table == AddPoster(NoPosters, NoPosters, Sequencer, Sequencer)
<1>1. TableInOrder(NoPosters) /\ TotalIsRight(NoPosters)
  BY NoPostersInOrder, NoPostersTotal
<1>2. NoPosters.posters.size < Cap /\ ~ContainsPoster(NoPosters, Sequencer)
  BY CapAssumption, SequencerAssumption
     DEF NoPosters, Empty, ContainsPoster, IsMember
<1>3. TotalIsRight(table)
  BY <1>1, <1>2, OpenPosterAdds, SequencerAssumption
<1> QED BY <1>3 DEF PricingInit

\* Every step keeps both totals right.
LEMMA TotalStep ==
  ASSUME OneCallInWidth, TotalFits, IInv, TotalsRight, [Next]_txVars
  PROVE  TotalsRight'
<1>0. jrn \in PricingStorage
  BY DEF IInv, BooksInOrder, BooksKept
<1>1. ASSUME NEW amount \in Amounts, CollectFees(amount) PROVE TotalsRight'
  <2> DEFINE s == [jrn EXCEPT !.fees = Least(db.fees + amount, MaxU256),
                              !.pool = @ + amount]
  <2>1. Call(s) /\ s.table = jrn.table
    BY <1>0, <1>1 DEF CollectFees, PricingStorage
  <2> HIDE DEF s
  <2> QED BY <2>1, OtherCallsAdd
<1>2. ASSUME NEW units \in Units, AddUnits(units) PROVE TotalsRight'
  <2> DEFINE s == [jrn EXCEPT !.units = Least(db.units + units, MaxU64)]
  <2>1. Call(s) /\ s.table = jrn.table
    BY <1>0, <1>2 DEF AddUnits, PricingStorage
  <2> HIDE DEF s
  <2> QED BY <2>1, OtherCallsAdd
<1>3. ASSUME NEW a \in Addr, NEW t \in Times, NEW now \in Times,
             NEW wei \in Spendings, NEW basefee \in BaseFees,
             UpdateForBatchPosterSpending(a, t, now, wei, basefee)
      PROVE  TotalsRight'
  <2>1. /\ db.table.posters.size < Cap \/ ContainsPoster(db.table, a)
        /\ jrn.owed[a] + wei <= MaxOwed
        /\ Call(Update(db, jrn, a, t, now, wei, basefee)) /\ calls < MaxCalls
    BY <1>3 DEF UpdateForBatchPosterSpending, Call
  <2>2. jrn = db /\ BooksKept(db)
    BY <2>1, OneBook DEF BooksInOrder
  <2>3. TotalIsRight(Update(db, db, a, t, now, wei, basefee).table)
    BY <2>1, <2>2, UpdateAdds DEF TotalsRight
  <2> QED BY <2>1, <2>2, <2>3 DEF TotalsRight, Call
<1>4. ASSUME NEW v, \/ SetPerUnitReward(v) \/ SetAmortizedCostCapBips(v)
                    \/ SetEquilibrationUnits(v) \/ SetInertia(v)
      PROVE  TotalsRight'
  <2>1. /\ [jrn EXCEPT !.reward = v].table = jrn.table
        /\ [jrn EXCEPT !.cap = v].table = jrn.table
        /\ [jrn EXCEPT !.equilibration = v].table = jrn.table
        /\ [jrn EXCEPT !.inertia = v].table = jrn.table
    BY <1>0 DEF PricingStorage
  <2> QED BY <1>4, <2>1, OtherCallsAdd
          DEF SetPerUnitReward, SetAmortizedCostCapBips, SetEquilibrationUnits,
              SetInertia
<1>5. ASSUME Commit \/ Revert \/ UNCHANGED txVars PROVE TotalsRight'
  BY <1>5 DEF Commit, Revert, txVars, TotalsRight
<1> QED BY <1>1, <1>2, <1>3, <1>4, <1>5 DEF Next

\* The total owed to the posters is the sum of their balances, over any sequence
\* of reports.
THEOREM TotalIsTheSum ==
  ASSUME OneCallInWidth, TotalFits PROVE Spec => []TotalIsSum
<1>1. Init => TotalsRight
  BY StartTotal DEF Init, JournalInit, TotalsRight
<1>2. IInv /\ TotalsRight /\ [Next]_txVars => TotalsRight'
  BY TotalStep
<1>3. TotalsRight => TotalIsSum
  BY DEF TotalsRight, TotalIsRight, TotalIsSum
<1> QED BY <1>1, <1>2, <1>3, Invariance, PTL DEF Spec

-----------------------------------------------------------------------------
(* Chains that start with any version and go through any of the versions   *)
(* after it, up to the report of ArbOS 10 (L1PricingOld).                  *)

\* The books of version v, of which the stored fees are a part from 10 on.
BooksAt(s, v) == BooksKept(s) /\ (v >= 10 => s.pool <= s.fees)

\* Both views of the books are in order for the version, and the same when a
\* transaction starts.
OldInv ==
  /\ {version, genesis} \subseteq Versions
  /\ BooksAt(db, version)
  /\ BooksAt(jrn, version)
  /\ db.lastTime <= jrn.lastTime
  /\ calls \in 0..MaxCalls
  /\ calls = 0 => jrn = db

\* The surplus without its sign is a surplus.
LEMMA MagnitudeInRange ==
  ASSUME NEW x \in I256
  PROVE  Magnitude(x) \in I256
BY I256IsInt, MaxI256Assumption DEF Magnitude, I256, MinI256

\* A report from ArbOS 2 on with a valid time keeps the books: both payments
\* are within the pool, whose balance the second finds without the first.
LEMMA PoolUpdateKeeps ==
  ASSUME OneCallInWidth, NEW s, BooksKept(s), NEW v,
         NEW a \in Addr, NEW t \in Times, NEW now \in Times,
         NEW wei \in Spendings, NEW basefee \in BaseFees,
         TimeIsValid(s, t, now),
         s.table.posters.size < Cap \/ ContainsPoster(s.table, a),
         s.owed[a] + wei <= MaxOwed,
         s.rewardsOwed + s.reward * s.units <= MaxOwed
  PROVE  /\ BooksKept(PoolUpdate(s, s, a, t, now, wei, basefee, v))
         /\ s.lastTime <= PoolUpdate(s, s, a, t, now, wei, basefee, v).lastTime
<1> DEFINE allocated == Allocated(s, t, now)
           credit == IF v >= 3 THEN Credit(s, allocated, wei, basefee) ELSE wei
           reward == Least(s.reward * allocated, s.pool)
           payment == PaidFrom(PoolLeft(s, reward), s.table.due[a])
           pool == s.pool - reward - payment
           surplus == SatSub(Signed(pool), SatAdd(s.table.total, s.rewardsDue))
           table == Settle(s, s, a, credit, payment)
           units == s.units - allocated
           rewardsDue == RewardsLeft(s, allocated, reward)
           owed == [s.owed EXCEPT ![a] = s.owed[a] + credit - payment]
           earned == s.reward * allocated
           rewardsOwed == s.rewardsOwed + earned - reward
           settled == [s EXCEPT !.table = table, !.units = units,
                                !.rewardsDue = rewardsDue, !.lastTime = t,
                                !.pool = pool, !.owed = owed,
                                !.rewardsOwed = rewardsOwed]
           lastSurplus == IF v < 7 THEN Magnitude(surplus) ELSE surplus
           price == NewPrice(s, PriceChange(s, surplus, allocated))
           priced == [settled EXCEPT !.lastSurplus = lastSurplus, !.price = price]
           after == IF allocated = 0 THEN settled ELSE priced
<1>1. s \in PricingStorage
  BY DEF BooksKept
<1>2. PoolUpdate(s, s, a, t, now, wei, basefee, v) = after
  <2>1. settled = [s EXCEPT !.table = table, !.units = units,
                            !.rewardsDue = rewardsDue, !.lastTime = t,
                            !.pool = pool, !.owed[a] = @ + credit - payment,
                            !.rewardsOwed = @ + earned - reward]
    BY <1>1 DEF PricingStorage
  <2> QED BY <2>1 DEF PoolUpdate
<1>3. allocated \in Nat /\ allocated \in 0..s.units /\ s.lastTime <= t
  BY <1>1, AllocatedIsPart, Widths DEF PricingStorage
<1>4. credit \in Nat /\ credit <= wei /\ wei \in Nat
  <2>1. Credit(s, allocated, wei, basefee) \in 0..wei /\ wei \in Nat
    BY <1>1, <1>3, CreditIsPart, Widths
  <2> QED BY <2>1
<1>5. /\ s.pool \in Nat /\ s.pool \in 0..MaxU256 /\ s.reward \in Nat
      /\ s.units \in Nat /\ s.units \in 0..MaxU64
      /\ s.table.due[a] \in Int /\ MaxU256 \in Nat /\ MaxU64 \in Nat
  <2>1. s.reward \in Rewards /\ s.table.due[a] \in I256
    BY <1>1 DEF PricingStorage, PosterStorage
  <2>2. s.pool \in 0..MaxU256 /\ s.units \in 0..MaxU64
    BY <1>1 DEF PricingStorage
  <2>3. s.reward \in Nat /\ MaxU256 \in Nat /\ MaxU64 \in Nat
    BY <2>1, Widths
  <2>4. s.table.due[a] \in Int
    BY <2>1, I256IsInt
  <2>5. s.pool \in Nat /\ s.units \in Nat
    BY <2>2, <2>3
  <2> QED BY <2>2, <2>3, <2>4, <2>5
<1>6. earned \in Nat /\ s.rewardsOwed + earned <= MaxOwed
  <2>1. s.rewardsOwed \in Nat /\ MaxOwed \in Nat
    BY <1>1, Widths DEF PricingStorage
  <2>2. /\ s.reward * allocated \in Nat /\ s.reward * s.units \in Nat
        /\ s.reward * allocated <= s.reward * s.units
    BY <1>3, <1>5
  <2> QED BY <2>1, <2>2
<1>7. reward \in Nat /\ reward <= earned /\ reward <= s.pool
  BY <1>5, <1>6, LeastIsLeast
<1>8. rewardsOwed = s.rewardsOwed + earned - reward
  OBVIOUS
<1>9. rewardsDue = SatSub(SatAdd(s.rewardsDue, earned), reward)
  BY DEF RewardsLeft
<1> HIDE DEF allocated, credit, earned, reward, rewardsDue, rewardsOwed
<1>10. /\ payment \in Nat /\ payment <= s.pool - reward
       /\ payment > 0 => payment <= s.table.due[a]
  BY <1>5, <1>7 DEF PaidFrom, PoolLeft, Least
<1> HIDE DEF payment
<1>11. pool \in 0..MaxU256 /\ units \in 0..MaxU64
  BY <1>3, <1>5, <1>7, <1>10
<1> HIDE DEF pool, units
<1>12. /\ TableInOrder(table)
       /\ table.due = [s.table.due EXCEPT ![a] =
                         IF payment = 0 THEN SatAdd(s.table.due[a], credit)
                         ELSE SatSub(s.table.due[a], payment)]
  BY <1>4, <1>10, SettleKeeps
<1> HIDE DEF table
<1>13. rewardsOwed \in 0..MaxOwed /\ rewardsDue \in I256 /\ rewardsDue = rewardsOwed
  BY <1>6, <1>7, <1>8, <1>9, RewardsStayKept
<1>14. s.owed[a] + credit <= MaxOwed
  <2>1. s.owed[a] \in Nat /\ MaxOwed \in Nat
    BY <1>1, Widths DEF PricingStorage
  <2> QED BY <1>4, <2>1
<1>15. /\ owed \in [Addr -> 0..MaxOwed]
       /\ \A b \in Addr : 0 <= table.due[b] /\ table.due[b] <= owed[b]
  <2>1. owed = [s.owed EXCEPT ![a] = s.owed[a] + credit - payment]
    OBVIOUS
  <2> DEFINE balance == table.due
  <2>2. balance = [s.table.due EXCEPT ![a] =
                     IF payment = 0 THEN SatAdd(s.table.due[a], credit)
                     ELSE SatSub(s.table.due[a], payment)]
    BY <1>12
  <2> HIDE DEF owed, balance
  <2>3. /\ owed \in [Addr -> 0..MaxOwed]
        /\ \A b \in Addr : 0 <= balance[b] /\ balance[b] <= owed[b]
    BY <1>4, <1>10, <1>14, <2>1, <2>2, BalancesStayCovered
  <2> QED BY <2>3 DEF balance
<1> HIDE DEF owed
<1>16. surplus \in I256
  <2>1. s.table.total \in I256 /\ s.rewardsDue \in I256
    BY <1>1 DEF PricingStorage, PosterStorage
  <2>2. SatAdd(s.table.total, s.rewardsDue) \in Int
    BY <2>1, I256IsInt, SatInRange
  <2>3. Signed(pool) \in Int
    BY <1>11, Widths, MaxI256Assumption DEF Signed, Least
  <2> QED BY <2>2, <2>3, SatInRange
<1> HIDE DEF surplus
<1>17. lastSurplus \in I256
  BY <1>16, MagnitudeInRange
<1>18. ASSUME allocated # 0 PROVE price \in 0..MaxU256
  <2>1. PriceChange(s, surplus, allocated) \in Int
    BY <1>1, <1>3, <1>16, <1>18, PriceChangeIsInt
  <2> QED BY <1>1, <2>1, NewPriceInRange
<1> HIDE DEF lastSurplus, price
<1>19. table \in PosterStorage
  BY <1>12 DEF TableInOrder
<1>20. /\ settled \in PricingStorage /\ settled.table = table /\ settled.owed = owed
       /\ settled.rewardsDue = rewardsDue /\ settled.rewardsOwed = rewardsOwed
       /\ settled.lastTime = t
  BY <1>1, <1>11, <1>13, <1>15, <1>19 DEF PricingStorage
<1> HIDE DEF settled
<1>21. ASSUME allocated # 0
       PROVE  /\ priced \in PricingStorage /\ priced.table = table
              /\ priced.owed = owed /\ priced.rewardsDue = rewardsDue
              /\ priced.rewardsOwed = rewardsOwed /\ priced.lastTime = t
  BY <1>17, <1>18, <1>20, <1>21 DEF PricingStorage
<1> HIDE DEF priced
<1>22. /\ after \in PricingStorage /\ after.table = table /\ after.owed = owed
       /\ after.rewardsDue = rewardsDue /\ after.rewardsOwed = rewardsOwed
       /\ after.lastTime = t
  BY <1>20, <1>21
<1> HIDE DEF after
<1>23. BooksKept(after)
  BY <1>12, <1>13, <1>15, <1>22 DEF BooksKept, PostersCovered
<1> QED BY <1>2, <1>3, <1>22, <1>23

\* The opening of a poster alone keeps the books.
LEMMA OpenedKeeps ==
  ASSUME NEW s, BooksKept(s), NEW a \in Addr,
         s.table.posters.size < Cap \/ ContainsPoster(s.table, a),
         NEW after, after = [s EXCEPT !.table = OpenPoster(s.table, s.table, a)]
  PROVE  BooksKept(after) /\ s.lastTime <= after.lastTime
<1> DEFINE opened == OpenPoster(s.table, s.table, a)
<1>1. TableInOrder(opened) /\ opened.due = s.table.due
  BY OpenPosterKeeps DEF BooksKept
<1> HIDE DEF opened
<1>2. s \in PricingStorage /\ opened \in PosterStorage
  BY <1>1 DEF BooksKept, TableInOrder
<1>3. /\ after \in PricingStorage /\ after.table = opened
      /\ after.owed = s.owed /\ after.rewardsDue = s.rewardsDue
      /\ after.rewardsOwed = s.rewardsOwed /\ after.lastTime = s.lastTime
  BY <1>2 DEF PricingStorage, opened
<1>4. s.lastTime \in Nat
  BY <1>2, Widths DEF PricingStorage, Times
<1>5. BooksKept(after)
  BY <1>1, <1>3 DEF BooksKept, PostersCovered
<1> QED BY <1>3, <1>4, <1>5

\* A report from ArbOS 2 on with an invalid time opens its poster and does no
\* more.
LEMMA InvalidPoolUpdateKeeps ==
  ASSUME NEW s, BooksKept(s), NEW v, NEW a \in Addr, NEW t, NEW now,
         NEW wei, NEW basefee, ~TimeIsValid(s, t, now),
         s.table.posters.size < Cap \/ ContainsPoster(s.table, a)
  PROVE  /\ BooksKept(PoolUpdate(s, s, a, t, now, wei, basefee, v))
         /\ s.lastTime <= PoolUpdate(s, s, a, t, now, wei, basefee, v).lastTime
<1>1. PoolUpdate(s, s, a, t, now, wei, basefee, v)
        = [s EXCEPT !.table = OpenPoster(s.table, s.table, a)]
  BY DEF PoolUpdate
<1> QED BY <1>1, OpenedKeeps

\* The last update of the first report is before the time of the call, as is
\* the time that is reported.
LEMMA FirstTimesAreOrdered ==
  ASSUME NEW s \in PricingStorage, NEW t \in Times, NEW now \in Times,
         FirstTimeIsValid(s, t, now)
  PROVE  /\ t \in Nat /\ now \in Nat /\ FirstLastUpdate(s, t, now) \in Nat
         /\ FirstLastUpdate(s, t, now) <= t /\ t < now /\ s.lastTime <= t
<1>1. t \in Nat /\ now \in Nat /\ s.lastTime \in Nat /\ MaxU64 \in Nat
  BY Widths DEF PricingStorage, Times
<1>2. (t - 1) % (MaxU64 + 1) \in Nat
  BY <1>1
<1>3. t < now /\ t >= FirstLastUpdate(s, t, now)
  BY DEF FirstTimeIsValid
<1> QED BY <1>1, <1>2, <1>3 DEF FirstLastUpdate

\* A share of an amount is not more than the amount, cut to a width or not.
LEMMA FirstShareIsPart ==
  ASSUME NEW s \in PricingStorage, NEW t \in Times, NEW now \in Times,
         FirstTimeIsValid(s, t, now), NEW u \in Nat
  PROVE  LET last == FirstLastUpdate(s, t, now)
         IN  /\ ShareOf(s, u, t, now) \in 0..u
             /\ Least(u * (t - last), MaxU256) \div (now - last) \in 0..u
<1> DEFINE last == FirstLastUpdate(s, t, now)
           d == t - last
           n == now - last
           x == Least(u * d, MaxU256)
<1>1. d \in Nat /\ n \in Nat \ {0} /\ d <= n
  BY FirstTimesAreOrdered
<1>2. u * d \in Nat
  BY <1>1
<1>3. x \in Nat /\ x <= u * d
  BY <1>2, Widths, LeastIsLeast
<1>4. ShareOf(s, u, t, now) = (u * d) \div n
  BY DEF ShareOf
<1> HIDE DEF d, n, x
<1>5. (u * d) \div n \in 0..u /\ x \div n \in 0..u
  BY <1>1, <1>2, <1>3, ShareIsPart
<1> QED BY <1>4, <1>5 DEF d, n, x

\* Before poster i + 1 of the committed list s is paid: the books are kept, the
\* funds are in the pool, and whoever is still to be paid has what s says to get.
Paying(s, time, paying, i) ==
  /\ BooksKept(paying.w)
  /\ paying.w.lastTime = time
  /\ paying.funds \in Nat /\ paying.funds <= paying.w.pool
  /\ \A a \in Addr : ContainsPoster(s.table, a) => ContainsPoster(paying.w.table, a)
  /\ \A j \in (i + 1)..s.table.posters.size :
       s.table.due[s.table.posters.slot[j]]
         <= paying.w.owed[s.table.posters.slot[j]]

\* The poster at the next place of the list gets no more than its balance, which
\* nobody has paid out yet: no poster is on the list twice.
LEMMA PayPosterKeeps ==
  ASSUME NEW s, BooksKept(s), NEW i \in Nat, i + 1 \in 1..s.table.posters.size,
         NEW time, NEW paying, Paying(s, time, paying, i)
  PROVE  Paying(s, time, PayPoster(s, paying, s.table.posters.slot[i + 1]), i + 1)
<1> DEFINE list == s.table.posters
           p == list.slot[i + 1]
           due == s.table.due[p]
           payment == PaidFrom(paying.funds, due)
           w == paying.w
           rest == due - payment
           funds == paying.funds - payment
           pool == w.pool - payment
           owed == [w.owed EXCEPT ![p] = w.owed[p] - payment]
           table == SetFundsDue(s.table, w.table, p, rest)
           after == [w EXCEPT !.table = table, !.pool = pool, !.owed = owed]
<1>1. /\ w \in PricingStorage /\ BooksKept(w) /\ TableInOrder(w.table)
      /\ s.table \in PosterStorage /\ TableInOrder(s.table)
  BY DEF Paying, BooksKept, PricingStorage
<1>2. /\ list \in Storage /\ list.size \in 0..Cap /\ i + 1 \in Slots
      /\ \A j \in 1..list.size : list.slot[j] \in Addr /\ list.at[list.slot[j]] = j
  <2>1. list \in Storage /\ ConsistentStorage(list)
    BY <1>1 DEF PosterStorage, TableInOrder
  <2>2. list.size \in 0..Cap
    BY <2>1 DEF Storage
  <2>3. 1..list.size \subseteq Slots
    BY <2>2, CapAssumption DEF Slots
  <2>4. \A j \in 1..list.size : list.slot[j] \in Addr /\ list.at[list.slot[j]] = j
    BY <2>1, <2>3 DEF Storage, ConsistentStorage, ListIsMapped
  <2> QED BY <2>1, <2>2, <2>3, <2>4
<1>3. p \in Addr /\ list.at[p] = i + 1 /\ ContainsPoster(s.table, p)
  <2>1. p \in Addr /\ list.at[p] = i + 1
    BY <1>2
  <2> QED BY <2>1 DEF ContainsPoster, IsMember
<1>4. /\ due \in Int /\ due \in I256 /\ due <= w.owed[p]
      /\ w.owed[p] \in Nat /\ w.owed[p] <= MaxOwed /\ MaxOwed \in Nat
      /\ w.pool \in Nat /\ w.pool <= MaxU256 /\ MaxU256 \in Nat
  <2>1. due \in I256 /\ due \in Int
    BY <1>1, <1>3, I256IsInt DEF PosterStorage
  <2>2. due <= w.owed[p]
    BY <1>2 DEF Paying
  <2>3. w.owed[p] \in 0..MaxOwed /\ w.pool \in 0..MaxU256
    BY <1>1, <1>3 DEF PricingStorage
  <2> QED BY <2>1, <2>2, <2>3, Widths
<1> HIDE DEF due
<1>5. /\ payment \in Nat /\ payment <= paying.funds
      /\ payment > 0 => payment <= due
  BY <1>4 DEF PaidFrom, Least, Paying
<1>6. CASE payment = 0
  <2>1. PayPoster(s, paying, p) = paying
    BY <1>6 DEF PayPoster, due
  <2>2. \A j \in (i + 2)..list.size : j \in (i + 1)..list.size
    BY <1>2
  <2> QED BY <2>1, <2>2 DEF Paying
<1>7. CASE payment # 0
  <2>1. PayPoster(s, paying, p) = [funds |-> funds, w |-> after]
    <3>1. after = [w EXCEPT !.table = SetFundsDue(s.table, @, p, rest),
                            !.pool = @ - payment, !.owed[p] = @ - payment]
      BY <1>1 DEF PricingStorage
    <3> QED BY <1>7, <3>1 DEF PayPoster, due
  <2>2. /\ payment <= due /\ rest \in Nat /\ rest \in I256
        /\ funds \in Nat /\ pool \in 0..MaxU256 /\ funds <= pool
    <3>1. payment <= due /\ rest \in Nat /\ rest <= due
      BY <1>4, <1>5, <1>7
    <3>2. rest \in I256
      BY <1>4, <3>1, MaxI256Assumption DEF I256, MinI256
    <3>3. paying.funds \in Nat /\ paying.funds <= w.pool
      BY DEF Paying
    <3> HIDE DEF rest, payment
    <3> QED BY <1>4, <1>5, <3>1, <3>2, <3>3
  <2>3. /\ TableInOrder(table) /\ table.due = [w.table.due EXCEPT ![p] = rest]
        /\ table.posters = w.table.posters
    <3>1. ContainsPoster(w.table, p)
      BY <1>3 DEF Paying
    <3>2. w.table \in PosterStorage
      BY <1>1 DEF TableInOrder
    <3> HIDE DEF rest, w
    <3> QED BY <1>1, <1>3, <2>2, <3>1, <3>2, SetFundsDueKeeps, SetFundsDueType
  <2>4. owed \in [Addr -> 0..MaxOwed] /\ owed[p] = w.owed[p] - payment
    <3>1. w.owed \in [Addr -> 0..MaxOwed]
      BY <1>1 DEF PricingStorage
    <3>2. w.owed[p] - payment \in 0..MaxOwed
      BY <1>4, <1>5, <2>2
    <3> QED BY <1>3, <3>1, <3>2
  <2>5. \A b \in Addr : b # p => owed[b] = w.owed[b] /\ table.due[b] = w.table.due[b]
    BY <1>1, <2>3 DEF PricingStorage, PosterStorage
  <2>6. table.due[p] = rest
    BY <1>1, <1>3, <2>3 DEF PricingStorage, PosterStorage
  <2> HIDE DEF table, owed
  <2>7. \A b \in Addr : 0 <= table.due[b] /\ table.due[b] <= owed[b]
    <3>1. 0 <= table.due[p] /\ table.due[p] <= owed[p]
      BY <1>4, <1>5, <2>2, <2>4, <2>6
    <3>2. \A b \in Addr : 0 <= w.table.due[b] /\ w.table.due[b] <= w.owed[b]
      BY <1>1 DEF BooksKept, PostersCovered
    <3> QED BY <2>5, <3>1, <3>2
  <2>8. table \in PosterStorage
    BY <2>3 DEF TableInOrder
  <2> HIDE DEF pool, funds, w
  <2>9. /\ after \in PricingStorage /\ after.table = table /\ after.owed = owed
        /\ after.rewardsDue = w.rewardsDue /\ after.rewardsOwed = w.rewardsOwed
        /\ after.pool = pool /\ after.lastTime = w.lastTime
    BY <1>1, <2>2, <2>4, <2>8 DEF PricingStorage
  <2> HIDE DEF after
  <2>10. BooksKept(after)
    BY <1>1, <2>3, <2>7, <2>9 DEF BooksKept, PostersCovered
  <2>11. ASSUME NEW j \in (i + 2)..list.size
         PROVE  s.table.due[list.slot[j]] <= owed[list.slot[j]]
    <3>1. j \in (i + 1)..list.size /\ j \in 1..list.size /\ j # i + 1
      BY <1>2
    <3>2. list.slot[j] \in Addr /\ list.slot[j] # p
      BY <1>2, <1>3, <3>1
    <3>3. s.table.due[list.slot[j]] <= w.owed[list.slot[j]]
      BY <3>1 DEF Paying, w
    <3> QED BY <2>5, <3>2, <3>3
  <2>12. \A b \in Addr : ContainsPoster(s.table, b) => ContainsPoster(table, b)
    BY <2>3 DEF Paying, ContainsPoster, w
  <2>13. after.lastTime = time
    BY <2>9 DEF Paying, w
  <2> QED BY <2>1, <2>2, <2>9, <2>10, <2>11, <2>12, <2>13 DEF Paying
<1> QED BY <1>6, <1>7

\* One place of the list, from what there is after the place before.
PayStep(s, start, g, i) ==
  IF i = 0 THEN start ELSE PayPoster(s, g[i - 1], s.table.posters.slot[i])

\* The recursion over the list has a solution.
LEMMA PayingExists ==
  ASSUME NEW s, NEW start, NEW n \in Nat
  PROVE  \E g : g = [i \in 0..n |-> PayStep(s, start, g, i)]
<1> DEFINE UpTo(k, g) == \A i \in 0..n : i <= k => g[i] = PayStep(s, start, g, i)
           T == {k \in Nat : \E g : UpTo(k, g)}
<1>1. 0 \in T
  <2> DEFINE g == [i \in 0..n |-> start]
  <2>1. UpTo(0, g)
    BY DEF PayStep
  <2> QED BY <2>1
<1>2. ASSUME NEW k \in Nat, k \in T PROVE k + 1 \in T
  <2>1. PICK g : UpTo(k, g)
    BY <1>2
  <2> DEFINE h == [i \in 0..n |-> PayStep(s, start, g, i)]
  <2>2. UpTo(k + 1, h)
    <3> SUFFICES ASSUME NEW i \in 0..n, i <= k + 1
                 PROVE  PayStep(s, start, g, i) = PayStep(s, start, h, i)
      OBVIOUS
    <3>1. CASE i = 0
      BY <3>1 DEF PayStep
    <3>2. CASE i # 0
      <4>1. i - 1 \in 0..n /\ i - 1 <= k
        BY <3>2
      <4>2. h[i - 1] = g[i - 1]
        BY <2>1, <4>1
      <4> QED BY <3>2, <4>2 DEF PayStep
    <3> QED BY <3>1, <3>2
  <2>3. \E f : UpTo(k + 1, f)
    <3> HIDE DEF h, UpTo
    <3> QED BY <2>2
  <2> QED BY <2>3
<1>3. n \in T
  <2> HIDE DEF T
  <2> QED BY <1>1, <1>2, NaturalInduction
<1>4. PICK g : UpTo(n, g)
  BY <1>3
<1> DEFINE f == [i \in 0..n |-> PayStep(s, start, g, i)]
<1>5. \A i \in 0..n : f[i] = g[i]
  BY <1>4
<1>6. \A i \in 0..n : PayStep(s, start, g, i) = PayStep(s, start, f, i)
  <2> SUFFICES ASSUME NEW i \in 0..n
               PROVE  PayStep(s, start, g, i) = PayStep(s, start, f, i)
    OBVIOUS
  <2>1. CASE i = 0
    BY <2>1 DEF PayStep
  <2>2. CASE i # 0
    <3>1. i - 1 \in 0..n
      BY <2>2
    <3>2. f[i - 1] = g[i - 1]
      BY <1>5, <3>1
    <3> HIDE DEF f
    <3> QED BY <2>2, <3>2 DEF PayStep
  <2> QED BY <2>1, <2>2
<1>7. f = [i \in 0..n |-> PayStep(s, start, f, i)]
  BY <1>6
<1> HIDE DEF f
<1> QED BY <1>7

\* When everyone on the list has been paid, the books are kept.
LEMMA PayPostersKeeps ==
  ASSUME NEW s, BooksKept(s), NEW time, NEW w, NEW funds,
         Paying(s, time, [funds |-> funds, w |-> w], 0)
  PROVE  /\ BooksKept(PayPosters(s, w, funds))
         /\ PayPosters(s, w, funds).lastTime = time
<1> DEFINE n == s.table.posters.size
           start == [funds |-> funds, w |-> w]
           g == CHOOSE f : f = [i \in 0..n |-> PayStep(s, start, f, i)]
<1>1. n \in Nat
  BY CapAssumption DEF BooksKept, PricingStorage, PosterStorage, Storage
<1>2. PayPosters(s, w, funds) = g[n].w
  BY Zenon DEF PayPosters, PayStep
<1>3. g = [i \in 0..n |-> PayStep(s, start, g, i)]
  BY <1>1, PayingExists
<1> HIDE DEF g, n, start
<1> DEFINE T == {i \in Nat : i <= n => Paying(s, time, g[i], i)}
<1>4. 0 \in T
  <2>1. g[0] = start
    BY <1>1, <1>3 DEF PayStep
  <2> QED BY <2>1 DEF start
<1>5. ASSUME NEW i \in Nat, i \in T PROVE i + 1 \in T
  <2> SUFFICES ASSUME i + 1 <= n PROVE Paying(s, time, g[i + 1], i + 1)
    OBVIOUS
  <2>1. i + 1 \in 0..n /\ i + 1 \in 1..n /\ i <= n /\ i + 1 # 0 /\ (i + 1) - 1 = i
    BY <1>1
  <2>2. Paying(s, time, g[i], i)
    BY <1>5, <2>1
  <2>3. g[i + 1] = PayPoster(s, g[i], s.table.posters.slot[i + 1])
    BY <1>3, <2>1 DEF PayStep
  <2> QED BY <2>1, <2>2, <2>3, PayPosterKeeps DEF n
<1>6. n \in T
  <2> HIDE DEF T
  <2> QED BY <1>1, <1>4, <1>5, NaturalInduction
<1>7. Paying(s, time, g[n], n)
  BY <1>1, <1>6
<1> QED BY <1>2, <1>7 DEF Paying

\* The change of the price by the first report is an integer: its division is
\* skipped when it would be by zero.
LEMMA FirstPriceChangeIsInt ==
  ASSUME NEW s \in PricingStorage, NEW old \in I256, NEW new \in I256,
         NEW allocated \in Nat
  PROVE  FirstPriceChange(s, old, new, allocated) \in Int
<1>1. s.equilibration \in Nat /\ s.inertia \in Nat /\ old \in Int /\ new \in Int
  BY Widths, I256IsInt DEF PricingStorage
<1> DEFINE inertiaUnits == IF s.inertia = 0 THEN 0
                           ELSE s.equilibration \div s.inertia
           product == s.equilibration * (inertiaUnits + allocated)
           divisor == Saturate(product)
           moved == SatSub(Saturate(new * (s.equilibration - 1)),
                           Saturate(old * s.equilibration))
<1>2. product \in Nat
  <2>1. inertiaUnits \in Nat
    BY <1>1
  <2> QED BY <1>1, <2>1
<1>3. divisor \in Nat
  BY <1>2, MaxI256Assumption DEF Saturate, MinI256
<1>4. moved \in Int
  <2>1. new * (s.equilibration - 1) \in Int /\ old * s.equilibration \in Int
    BY <1>1
  <2>2. /\ Saturate(new * (s.equilibration - 1)) \in Int
        /\ Saturate(old * s.equilibration) \in Int
    BY <2>1, SaturateInRange, I256IsInt
  <2> QED BY <2>2, SatInRange, I256IsInt
<1> HIDE DEF divisor, moved
<1>5. divisor # 0 => TruncDiv(moved, divisor) \in Int
  BY <1>3, <1>4, TruncDivIsInt
<1> QED BY <1>5 DEF FirstPriceChange, inertiaUnits, product, divisor, moved

\* A report before ArbOS 2 keeps the books: the rewards are paid out of the
\* share of the pool, and the posters in turn out of what is left of it.
LEMMA FirstUpdateKeeps ==
  ASSUME OneCallInWidth, NEW s, BooksKept(s),
         NEW a \in Addr, NEW t \in Times, NEW now \in Times, NEW wei \in Spendings,
         FirstTimeIsValid(s, t, now),
         s.table.posters.size < Cap \/ ContainsPoster(s.table, a),
         s.owed[a] + wei <= MaxOwed,
         s.rewardsOwed + s.reward * s.units <= MaxOwed
  PROVE  /\ BooksKept(FirstUpdate(s, s, a, t, now, wei))
         /\ s.lastTime <= FirstUpdate(s, s, a, t, now, wei).lastTime
<1> DEFINE last == FirstLastUpdate(s, t, now)
           allocated == ShareOf(s, s.units, t, now)
           available == Least(s.pool * (t - last), MaxU256) \div (now - last)
           earned == s.reward * allocated
           reward == Least(earned, available)
           funds == available - reward
           needed == SatAdd(s.table.total, s.rewardsDue)
           opened == OpenPoster(s.table, s.table, a)
           table == SetFundsDue(s.table, opened, a, SatAdd(s.table.due[a], wei))
           units == s.units - allocated
           rewardsDue == RewardsLeft(s, allocated, reward)
           pool == s.pool - reward
           owed == [s.owed EXCEPT ![a] = s.owed[a] + wei]
           rewardsOwed == s.rewardsOwed + earned - reward
           booked == [s EXCEPT !.table = table, !.units = units,
                               !.rewardsDue = rewardsDue, !.pool = pool,
                               !.lastTime = t, !.owed = owed,
                               !.rewardsOwed = rewardsOwed]
           paid == PayPosters(s, booked, funds)
           oldSurplus == SatSub(Signed(s.pool), needed)
           surplus == SatSub(Signed(paid.pool), needed)
           price == NewPrice(s, FirstPriceChange(s, oldSurplus, surplus, allocated))
           priced == [paid EXCEPT !.price = price]
           after == IF allocated = 0 THEN paid ELSE priced
<1>1. s \in PricingStorage /\ TableInOrder(s.table) /\ s.table \in PosterStorage
  BY DEF BooksKept, TableInOrder
<1>2. FirstUpdate(s, s, a, t, now, wei) = after
  <2>1. booked = [s EXCEPT !.table = table, !.units = units,
                           !.rewardsDue = rewardsDue, !.pool = @ - reward,
                           !.lastTime = t, !.owed[a] = @ + wei,
                           !.rewardsOwed = @ + earned - reward]
    BY <1>1 DEF PricingStorage
  <2> QED BY <2>1 DEF FirstUpdate
<1>3. /\ s.pool \in Nat /\ s.pool \in 0..MaxU256 /\ s.reward \in Nat
      /\ s.units \in Nat /\ s.units \in 0..MaxU64 /\ wei \in Nat
      /\ s.table.due[a] \in Int /\ MaxU256 \in Nat /\ MaxU64 \in Nat
      /\ MaxOwed \in Nat /\ s.owed[a] \in Nat /\ s.rewardsOwed \in Nat
  <2>1. /\ s.reward \in Rewards /\ s.table.due[a] \in I256
        /\ s.pool \in 0..MaxU256 /\ s.units \in 0..MaxU64
        /\ s.owed[a] \in 0..MaxOwed /\ s.rewardsOwed \in 0..MaxOwed
    BY <1>1 DEF PricingStorage, PosterStorage
  <2>2. s.table.due[a] \in Int
    BY <2>1, I256IsInt
  <2> QED BY <2>1, <2>2, Widths
<1>4. /\ allocated \in 0..s.units /\ allocated \in Nat
      /\ available \in 0..s.pool /\ available \in Nat
  <2>1. allocated \in 0..s.units /\ available \in 0..s.pool
    BY <1>1, <1>3, FirstShareIsPart
  <2> HIDE DEF allocated, available
  <2> QED BY <1>3, <2>1
<1> HIDE DEF allocated, available
<1>5. earned \in Nat /\ s.rewardsOwed + earned <= MaxOwed
  <2>1. /\ s.reward * allocated \in Nat /\ s.reward * s.units \in Nat
        /\ s.reward * allocated <= s.reward * s.units
    BY <1>3, <1>4
  <2> QED BY <1>3, <2>1
<1>6. rewardsDue = SatSub(SatAdd(s.rewardsDue, earned), reward)
  BY DEF RewardsLeft
<1> HIDE DEF earned
<1>7. reward \in Nat /\ reward <= earned /\ reward <= available
  BY <1>4, <1>5, LeastIsLeast
<1> HIDE DEF reward, rewardsDue
<1>8. rewardsOwed \in 0..MaxOwed /\ rewardsDue \in I256 /\ rewardsDue = rewardsOwed
  BY <1>5, <1>6, <1>7, RewardsStayKept
<1>9. /\ pool \in 0..MaxU256 /\ units \in 0..MaxU64
      /\ funds \in Nat /\ funds <= pool
  BY <1>3, <1>4, <1>7
<1> HIDE DEF rewardsOwed, pool, units, funds
<1>10. table = Settle(s, s, a, wei, 0)
  BY DEF Settle
<1>11. /\ TableInOrder(table)
       /\ table.due = [s.table.due EXCEPT ![a] = SatAdd(s.table.due[a], wei)]
  <2> HIDE DEF table
  <2> QED BY <1>3, <1>10, SettleKeeps
<1>12. ASSUME NEW b \in Addr, ContainsPoster(s.table, b)
       PROVE  ContainsPoster(table, b)
  <2>1. TableInOrder(opened) /\ ContainsPoster(opened, b)
    BY <1>1, <1>12, OpenPosterKeeps, OpenPosterLosesNone
  <2>2. SatAdd(s.table.due[a], wei) \in I256
    BY <1>3, SatInRange
  <2>4. opened \in PosterStorage
    BY <2>1 DEF TableInOrder
  <2> DEFINE credited == SatAdd(s.table.due[a], wei)
  <2> HIDE DEF opened, credited
  <2>3. /\ SetFundsDue(s.table, opened, a, credited) \in PosterStorage
        /\ SetFundsDue(s.table, opened, a, credited).due
             = [opened.due EXCEPT ![a] = credited]
        /\ SetFundsDue(s.table, opened, a, credited).posters = opened.posters
    BY <1>1, <2>1, <2>2, <2>4, SetFundsDueType DEF credited
  <2> QED BY <2>1, <2>3 DEF ContainsPoster, credited
<1> HIDE DEF table
<1>13. /\ owed \in [Addr -> 0..MaxOwed]
       /\ \A b \in Addr : 0 <= table.due[b] /\ table.due[b] <= owed[b]
  <2> DEFINE balance == table.due
  <2>1. owed = [s.owed EXCEPT ![a] = s.owed[a] + wei]
    OBVIOUS
  <2>2. balance = [s.table.due EXCEPT ![a] = SatAdd(s.table.due[a], wei)]
    BY <1>11
  <2> HIDE DEF owed, balance
  <2>3. /\ owed \in [Addr -> 0..MaxOwed]
        /\ \A b \in Addr : 0 <= balance[b] /\ balance[b] <= owed[b]
    BY <1>3, <2>1, <2>2, CreditStaysCovered
  <2> QED BY <2>3 DEF balance
<1>14. \A b \in Addr : s.table.due[b] <= owed[b]
  <2> SUFFICES ASSUME NEW b \in Addr PROVE s.table.due[b] <= owed[b]
    OBVIOUS
  <2>1. s.table.due[b] <= s.owed[b] /\ s.table.due[b] \in Int /\ s.owed[b] \in 0..MaxOwed
    BY <1>1, I256IsInt DEF BooksKept, PostersCovered, PricingStorage, PosterStorage
  <2>2. owed[b] = IF b = a THEN s.owed[a] + wei ELSE s.owed[b]
    BY <1>1 DEF PricingStorage
  <2> HIDE DEF owed
  <2> QED BY <1>3, <2>1, <2>2
<1> HIDE DEF owed
<1>15. table \in PosterStorage
  BY <1>11 DEF TableInOrder
<1>16. /\ booked \in PricingStorage /\ booked.table = table /\ booked.owed = owed
       /\ booked.rewardsDue = rewardsDue /\ booked.rewardsOwed = rewardsOwed
       /\ booked.pool = pool /\ booked.lastTime = t
  BY <1>1, <1>8, <1>9, <1>13, <1>15 DEF PricingStorage
<1> HIDE DEF booked
<1>17. Paying(s, t, [funds |-> funds, w |-> booked], 0)
  <2>1. BooksKept(booked)
    BY <1>8, <1>11, <1>13, <1>16 DEF BooksKept, PostersCovered
  <2>2. \A j \in 1..s.table.posters.size : s.table.posters.slot[j] \in Addr
    BY <1>1, CapAssumption DEF PosterStorage, Storage, Slots
  <2> QED BY <1>9, <1>12, <1>14, <1>16, <2>1, <2>2 DEF Paying
<1>18. BooksKept(paid) /\ paid.lastTime = t /\ paid \in PricingStorage
  BY <1>17, PayPostersKeeps DEF BooksKept
<1> HIDE DEF paid
<1>19. price \in 0..MaxU256
  <2>1. s.table.total \in Int /\ s.rewardsDue \in Int
    BY <1>1, I256IsInt DEF PricingStorage, PosterStorage
  <2>2. needed \in Int
    BY <2>1, SatInRange, I256IsInt
  <2>3. Signed(s.pool) \in Int /\ Signed(paid.pool) \in Int
    <3>1. paid.pool \in 0..MaxU256
      BY <1>18 DEF PricingStorage
    <3> QED BY <1>3, <3>1, MaxI256Assumption DEF Signed, Least
  <2>4. oldSurplus \in I256 /\ surplus \in I256
    BY <2>2, <2>3, SatInRange
  <2> HIDE DEF oldSurplus, surplus
  <2>5. FirstPriceChange(s, oldSurplus, surplus, allocated) \in Int
    BY <1>1, <1>4, <2>4, FirstPriceChangeIsInt
  <2> QED BY <1>1, <2>5, NewPriceInRange
<1> HIDE DEF price
<1>20. /\ priced \in PricingStorage /\ priced.table = paid.table
       /\ priced.owed = paid.owed /\ priced.rewardsDue = paid.rewardsDue
       /\ priced.rewardsOwed = paid.rewardsOwed /\ priced.lastTime = t
  BY <1>18, <1>19 DEF PricingStorage
<1> HIDE DEF priced
<1>21. BooksKept(priced)
  BY <1>18, <1>20 DEF BooksKept, PostersCovered
<1>22. BooksKept(after) /\ after.lastTime = t
  BY <1>18, <1>20, <1>21
<1>23. s.lastTime <= t
  BY <1>1, FirstTimesAreOrdered
<1> HIDE DEF after
<1> QED BY <1>2, <1>22, <1>23

\* A report before ArbOS 2 with an invalid time opens its poster and does no
\* more.
LEMMA InvalidFirstUpdateKeeps ==
  ASSUME NEW s, BooksKept(s), NEW a \in Addr, NEW t, NEW now, NEW wei,
         ~FirstTimeIsValid(s, t, now),
         s.table.posters.size < Cap \/ ContainsPoster(s.table, a)
  PROVE  /\ BooksKept(FirstUpdate(s, s, a, t, now, wei))
         /\ s.lastTime <= FirstUpdate(s, s, a, t, now, wei).lastTime
<1>1. FirstUpdate(s, s, a, t, now, wei)
        = [s EXCEPT !.table = OpenPoster(s.table, s.table, a)]
  BY DEF FirstUpdate
<1> QED BY <1>1, OpenedKeeps

\* The version is a number.
LEMMA VersionIsNumber == OldInv => version \in Nat
BY VersionsAssumption DEF OldInv

\* With one call in a transaction, a call reads the books that it writes.
LEMMA OneOldBook ==
  ASSUME OneCallInWidth, OldInv, NEW s, Call(s)
  PROVE  jrn = db /\ BooksAt(db, version)
BY DEF OldInv, OneCallInWidth, Call

\* A call that leaves books in order keeps the invariant.
LEMMA OldCallKeeps ==
  ASSUME OneCallInWidth, OldInv, UNCHANGED <<version, genesis>>,
         NEW s, Call(s), BooksAt(s, version), db.lastTime <= s.lastTime
  PROVE  OldInv'
<1>1. /\ jrn' = s /\ db' = db /\ calls' = 1 /\ MaxCalls = 1
      /\ version' = version /\ genesis' = genesis
  BY DEF OldInv, Call, OneCallInWidth
<1> QED BY <1>1 DEF OldInv

\* A report of any version keeps the invariant.
LEMMA OldReportInvariant ==
  ASSUME OneCallInWidth, OldInv, UNCHANGED <<version, genesis>>,
         NEW a \in Addr, NEW t \in Times, NEW now \in Times,
         NEW wei \in Spendings, NEW basefee \in BaseFees,
         UpdateByVersion(a, t, now, wei, basefee)
  PROVE  OldInv'
<1> DEFINE after == UpdateOf(version, db, db, a, t, now, wei, basefee)
<1>1. /\ version >= 10 => ~UpdatePanics(db, jrn, a, t, now)
      /\ db.table.posters.size < Cap \/ ContainsPoster(db.table, a)
      /\ jrn.owed[a] + wei <= MaxOwed
      /\ jrn.rewardsOwed + db.reward * db.units <= MaxOwed
      /\ Call(UpdateOf(version, db, jrn, a, t, now, wei, basefee))
  BY DEF UpdateByVersion
<1>2. jrn = db /\ BooksAt(db, version) /\ version \in Nat
  BY <1>1, OneOldBook, VersionIsNumber
<1>3. BooksAt(after, version) /\ db.lastTime <= after.lastTime
  <2>1. CASE version >= 10
    <3>1. BooksInOrder(db) /\ after = Update(db, db, a, t, now, wei, basefee)
      BY <1>2, <2>1 DEF BooksAt, BooksInOrder, UpdateOf
    <3>2. CASE TimeIsValid(db, t, now)
      <4>1. db.rewardsOwed + db.reward * Allocated(db, t, now) <= MaxOwed
        <5>1. db \in PricingStorage
          BY <3>1 DEF BooksInOrder, BooksKept
        <5>2. /\ Allocated(db, t, now) \in 0..db.units /\ db.units \in Nat
              /\ db.reward \in Nat /\ db.rewardsOwed \in Nat /\ MaxOwed \in Nat
          BY <3>2, <5>1, AllocatedIsPart, Widths DEF PricingStorage
        <5> DEFINE allocated == Allocated(db, t, now)
        <5> HIDE DEF allocated
        <5>3. /\ db.reward * allocated \in Nat /\ db.reward * db.units \in Nat
              /\ db.reward * allocated <= db.reward * db.units
          BY <5>2 DEF allocated
        <5> QED BY <1>1, <1>2, <5>2, <5>3 DEF allocated
      <4> QED BY <1>1, <1>2, <2>1, <3>1, <3>2, <4>1, UpdateKeeps
              DEF BooksAt, BooksInOrder
    <3>3. CASE ~TimeIsValid(db, t, now)
      BY <1>1, <3>1, <3>3, InvalidUpdateKeeps DEF BooksAt, BooksInOrder
    <3> QED BY <3>2, <3>3
  <2>2. CASE version >= 2 /\ ~(version >= 10)
    <3>1. /\ BooksKept(db)
          /\ after = PoolUpdate(db, db, a, t, now, wei, basefee, version)
      BY <1>2, <2>2 DEF BooksAt, UpdateOf
    <3>2. CASE TimeIsValid(db, t, now)
      BY <1>1, <1>2, <2>2, <3>1, <3>2, PoolUpdateKeeps DEF BooksAt
    <3>3. CASE ~TimeIsValid(db, t, now)
      BY <1>1, <2>2, <3>1, <3>3, InvalidPoolUpdateKeeps DEF BooksAt
    <3> QED BY <3>2, <3>3
  <2>3. CASE ~(version >= 2)
    <3>1. BooksKept(db) /\ after = FirstUpdate(db, db, a, t, now, wei)
      BY <1>2, <2>3 DEF BooksAt, UpdateOf
    <3>2. ~(version >= 10)
      BY <1>2, <2>3
    <3>3. CASE FirstTimeIsValid(db, t, now)
      BY <1>1, <1>2, <3>1, <3>2, <3>3, FirstUpdateKeeps DEF BooksAt
    <3>4. CASE ~FirstTimeIsValid(db, t, now)
      BY <1>1, <3>1, <3>2, <3>4, InvalidFirstUpdateKeeps DEF BooksAt
    <3> QED BY <3>3, <3>4
  <2> QED BY <2>1, <2>2, <2>3
<1>4. Call(after)
  BY <1>1, <1>2
<1> HIDE DEF after
<1> QED BY <1>3, <1>4, OldCallKeeps

\* A call that writes no more than units or a parameter keeps the invariant.
LEMMA OldParameterInvariant ==
  ASSUME OneCallInWidth, OldInv, UNCHANGED <<version, genesis>>, NEW s, Call(s),
         db \in PricingStorage /\ jrn = db =>
           /\ s \in PricingStorage
           /\ s.table = db.table /\ s.owed = db.owed
           /\ s.rewardsDue = db.rewardsDue /\ s.rewardsOwed = db.rewardsOwed
           /\ s.pool = db.pool /\ s.fees = db.fees /\ s.lastTime = db.lastTime
  PROVE  OldInv'
<1>1. jrn = db /\ BooksAt(db, version) /\ db \in PricingStorage
  BY OneOldBook DEF BooksAt, BooksKept
<1>2. db.lastTime \in Nat
  BY <1>1, Widths DEF PricingStorage, Times
<1>3. BooksAt(s, version) /\ db.lastTime <= s.lastTime
  BY <1>1, <1>2 DEF BooksAt, BooksKept, PostersCovered
<1> QED BY <1>3, OldCallKeeps

\* An upgrade in a transaction of its own keeps the invariant: it books the pool
\* when it brings the stored fees.
LEMMA UpgradeInvariant ==
  ASSUME OneCallInWidth, OldInv, NEW v \in Versions, Upgrade(v)
  PROVE  OldInv' /\ db'.lastTime = db.lastTime
<1> DEFINE lastSurplus == IF version < 2 /\ 2 <= v THEN 0 ELSE db.lastSurplus
           cap == IF version < 3 /\ 3 <= v THEN UpgradeCap ELSE db.cap
           fees == IF version < 10 /\ 10 <= v THEN db.pool ELSE db.fees
           upgraded == [db EXCEPT !.lastSurplus = lastSurplus, !.cap = cap,
                                  !.fees = fees]
<1>1. BooksAt(db, version) /\ BooksKept(db) /\ db \in PricingStorage
  BY DEF OldInv, BooksAt, BooksKept
<1>2. version \in Nat /\ v \in Nat /\ genesis \in Versions
  BY VersionsAssumption DEF OldInv
<1>3. /\ calls = 0 /\ version < v /\ version' = v /\ genesis' = genesis
      /\ db' = upgraded /\ jrn' = upgraded /\ calls' = calls
  BY <1>1 DEF Upgrade, Idle, PricingStorage
<1>4. lastSurplus \in I256 /\ cap \in Caps /\ fees \in 0..MaxU256
  <2>1. 0 \in I256
    BY MaxI256Assumption DEF I256, MinI256
  <2> QED BY <1>1, <2>1, UpgradeCapAssumption DEF PricingStorage
<1>5. v >= 10 => db.pool <= fees
  <2>1. db.pool \in Nat
    BY <1>1, Widths DEF PricingStorage
  <2> QED BY <1>1, <1>2, <1>3, <2>1 DEF BooksAt
<1> HIDE DEF lastSurplus, cap, fees
<1>6. /\ upgraded \in PricingStorage
      /\ upgraded.table = db.table /\ upgraded.owed = db.owed
      /\ upgraded.rewardsDue = db.rewardsDue
      /\ upgraded.rewardsOwed = db.rewardsOwed
      /\ upgraded.pool = db.pool /\ upgraded.fees = fees
      /\ upgraded.lastTime = db.lastTime
  BY <1>1, <1>4 DEF PricingStorage
<1> HIDE DEF upgraded
<1>7. BooksAt(upgraded, v)
  BY <1>1, <1>5, <1>6 DEF BooksAt, BooksKept, PostersCovered
<1>8. upgraded.lastTime <= upgraded.lastTime
  BY <1>6, Widths DEF PricingStorage, Times
<1> QED BY <1>2, <1>3, <1>6, <1>7, <1>8, MaxCallsAssumption DEF OldInv

\* The books of the start are in order for every version.
LEMMA OldInitInvariant == OldInit => OldInv
<1> SUFFICES ASSUME OldInit PROVE OldInv
  OBVIOUS
<1>1. PICK reward \in Rewards, equilibration \in Equilibria, inertia \in Inertias :
        JournalInit(PricingInit(reward, 0, equilibration, inertia))
  BY DEF OldInit
<1> DEFINE s == PricingInit(reward, 0, equilibration, inertia)
<1>2. BooksInOrder(s) /\ s.lastTime = 0
  BY UpgradeCapAssumption, StartInOrder
<1>3. db = s /\ jrn = s /\ calls = 0
  BY <1>1 DEF JournalInit
<1>4. {version, genesis} \subseteq Versions
  BY VersionsAssumption DEF OldInit
<1> HIDE DEF s
<1> QED BY <1>2, <1>3, <1>4, MaxCallsAssumption DEF OldInv, BooksAt, BooksInOrder

\* Every step keeps the invariant.
LEMMA OldStepInvariant ==
  ASSUME OneCallInWidth, OldInv, [OldNext]_oldVars
  PROVE  OldInv'
<1>1. ASSUME Transaction, UNCHANGED <<version, genesis>> PROVE OldInv'
  <2>1. ASSUME NEW amount \in Amounts, PayPool(amount) PROVE OldInv'
    <3> DEFINE pool == db.pool + amount
               after == [db EXCEPT !.pool = pool]
    <3>1. /\ version < 10 /\ jrn.pool + amount <= MaxU256
          /\ Call([jrn EXCEPT !.pool = @ + amount])
      BY <2>1 DEF PayPool
    <3>2. jrn = db /\ BooksAt(db, version) /\ BooksKept(db) /\ db \in PricingStorage
      BY <3>1, OneOldBook DEF BooksAt, BooksKept
    <3>3. Call(after)
      BY <3>1, <3>2 DEF PricingStorage
    <3>4. pool \in 0..MaxU256 /\ db.lastTime \in Nat
      BY <3>1, <3>2, Widths DEF PricingStorage, Times
    <3> HIDE DEF pool
    <3>5. /\ after \in PricingStorage /\ after.table = db.table
          /\ after.owed = db.owed /\ after.rewardsDue = db.rewardsDue
          /\ after.rewardsOwed = db.rewardsOwed /\ after.lastTime = db.lastTime
      BY <3>2, <3>4 DEF PricingStorage
    <3> HIDE DEF after
    <3>6. BooksAt(after, version)
      BY <3>1, <3>2, <3>5, VersionIsNumber DEF BooksAt, BooksKept, PostersCovered
    <3>7. db.lastTime <= after.lastTime
      BY <3>4, <3>5
    <3> QED BY <1>1, <3>3, <3>6, <3>7, OldCallKeeps
  <2>2. ASSUME NEW amount \in Amounts, CollectFeesFrom10(amount) PROVE OldInv'
    <3> DEFINE after == [db EXCEPT !.fees = Least(db.fees + amount, MaxU256),
                                   !.pool = db.pool + amount]
    <3>1. /\ version >= 10 /\ jrn.pool + amount <= MaxU256
          /\ Call([jrn EXCEPT !.fees = Least(db.fees + amount, MaxU256),
                              !.pool = @ + amount])
      BY <2>2 DEF CollectFeesFrom10, CollectFees
    <3>2. jrn = db /\ BooksInOrder(db) /\ db \in PricingStorage
      BY <3>1, OneOldBook DEF BooksAt, BooksInOrder, BooksKept
    <3>3. Call(after)
      BY <3>1, <3>2 DEF PricingStorage
    <3>4. BooksInOrder(after) /\ db.lastTime <= after.lastTime
      BY <3>1, <3>2, CollectKeeps
    <3> HIDE DEF after
    <3>5. BooksAt(after, version)
      BY <3>4 DEF BooksAt, BooksInOrder
    <3> QED BY <1>1, <3>3, <3>4, <3>5, OldCallKeeps
  <2>3. ASSUME NEW units \in Units, AddUnits(units) PROVE OldInv'
    <3> DEFINE sum == Least(db.units + units, MaxU64)
               after == [jrn EXCEPT !.units = sum]
    <3>1. Call(after)
      BY <2>3 DEF AddUnits
    <3>2. ASSUME db \in PricingStorage PROVE sum \in 0..MaxU64
      <4>1. db.units \in Nat /\ units \in Nat /\ MaxU64 \in Nat
        BY <3>2, Widths DEF PricingStorage
      <4> QED BY <4>1 DEF Least
    <3> HIDE DEF sum
    <3>3. ASSUME db \in PricingStorage, jrn = db
          PROVE  /\ after \in PricingStorage
                 /\ after.table = db.table /\ after.owed = db.owed
                 /\ after.rewardsDue = db.rewardsDue
                 /\ after.rewardsOwed = db.rewardsOwed
                 /\ after.pool = db.pool /\ after.fees = db.fees
                 /\ after.lastTime = db.lastTime
      BY <3>2, <3>3 DEF PricingStorage
    <3> HIDE DEF after
    <3> QED BY <1>1, <3>1, <3>3, OldParameterInvariant
  <2>4. ASSUME NEW a \in Addr, NEW t \in Times, NEW now \in Times,
               NEW wei \in Spendings, NEW basefee \in BaseFees,
               UpdateByVersion(a, t, now, wei, basefee)
        PROVE  OldInv'
    BY <1>1, <2>4, OldReportInvariant
  <2>5. ASSUME NEW v \in Rewards, SetPerUnitReward(v) PROVE OldInv'
    BY <1>1, <2>5, OldParameterInvariant DEF SetPerUnitReward, PricingStorage
  <2>6. ASSUME NEW v \in Caps, SetAmortizedCostCapBips(v) PROVE OldInv'
    BY <1>1, <2>6, OldParameterInvariant DEF SetAmortizedCostCapBips, PricingStorage
  <2>7. ASSUME NEW v \in Equilibria, SetEquilibrationUnits(v) PROVE OldInv'
    BY <1>1, <2>7, OldParameterInvariant DEF SetEquilibrationUnits, PricingStorage
  <2>8. ASSUME NEW v \in Inertias, SetInertia(v) PROVE OldInv'
    BY <1>1, <2>8, OldParameterInvariant DEF SetInertia, PricingStorage
  <2>9. ASSUME Commit PROVE OldInv'
    <3>1. jrn.lastTime \in Nat
      BY Widths DEF OldInv, BooksAt, BooksKept, PricingStorage, Times
    <3> QED BY <1>1, <2>9, <3>1, MaxCallsAssumption DEF Commit, OldInv
  <2>10. ASSUME Revert PROVE OldInv'
    <3>1. db.lastTime \in Nat
      BY Widths DEF OldInv, BooksAt, BooksKept, PricingStorage, Times
    <3> QED BY <1>1, <2>10, <3>1, MaxCallsAssumption DEF Revert, OldInv
  <2> QED BY <1>1, <2>1, <2>2, <2>3, <2>4, <2>5, <2>6, <2>7, <2>8, <2>9, <2>10
          DEF Transaction
<1>2. ASSUME NEW v \in Versions, Upgrade(v) PROVE OldInv'
  BY <1>2, UpgradeInvariant
<1>3. ASSUME UNCHANGED oldVars PROVE OldInv'
  BY <1>3 DEF oldVars, OldInv
<1> QED BY <1>1, <1>2, <1>3 DEF OldNext

\* The invariant holds in every reachable state.
THEOREM OldInvariance == ASSUME OneCallInWidth PROVE OldSpec => []OldInv
<1>1. OldInit => OldInv
  BY OldInitInvariant
<1>2. OldInv /\ [OldNext]_oldVars => OldInv'
  BY OldStepInvariant
<1> QED BY <1>1, <1>2, PTL DEF OldSpec

\* Every amount stays in its width across versions: no payment from the pool is
\* more than the pool has.
THEOREM OldTypeCorrect == ASSUME OneCallInWidth PROVE OldSpec => []OldTypeOK
<1>1. OldInv => OldTypeOK
  BY DEF OldInv, BooksAt, BooksKept, OldTypeOK, TypeOK
<1> QED BY <1>1, OldInvariance, PTL

\* No poster is paid ahead by a report of any version.
THEOREM NeverPaidAheadAtAnyVersion == ASSUME OneCallInWidth PROVE OldSpec => []NeverOverpaid
<1>1. OldInv => NeverOverpaid
  BY DEF OldInv, BooksAt, BooksKept, PostersCovered, NeverOverpaid
<1> QED BY <1>1, OldInvariance, PTL

\* The rewards due are those earned and not paid, across versions.
THEOREM RewardsAreKeptAtAnyVersion == ASSUME OneCallInWidth PROVE OldSpec => []RewardsKept
<1>1. OldInv => RewardsKept
  BY DEF OldInv, BooksAt, BooksKept, RewardsKept
<1> QED BY <1>1, OldInvariance, PTL

\* From ArbOS 10 on all of the pool is booked, what was collected before too.
THEOREM AllIsBookedFrom10 ==
  ASSUME OneCallInWidth PROVE OldSpec => []PoolIsBookedFrom10
<1>1. OldInv => PoolIsBookedFrom10
  BY DEF OldInv, BooksAt, PoolIsBookedFrom10, PoolIsBooked
<1> QED BY <1>1, OldInvariance, PTL

\* The time of the last update never goes back, across versions.
THEOREM TimeNeverGoesBackAtAnyVersion ==
  ASSUME OneCallInWidth PROVE OldSpec => TimeAdvancesAlways
<1> DEFINE Step == db'.lastTime >= db.lastTime
<1>1. ASSUME OneCallInWidth, OldInv, [OldNext]_oldVars PROVE [Step]_oldVars
  <2>1. db.lastTime \in Nat /\ jrn.lastTime \in Nat /\ db.lastTime <= jrn.lastTime
    BY <1>1, Widths DEF OldInv, BooksAt, BooksKept, PricingStorage, Times
  <2>2. ASSUME Transaction PROVE db' = db \/ db' = jrn
    BY <2>2 DEF Transaction, PayPool, CollectFeesFrom10, CollectFees, AddUnits,
                UpdateByVersion, SetPerUnitReward, SetAmortizedCostCapBips,
                SetEquilibrationUnits, SetInertia, Call, Commit, Revert
  <2>3. ASSUME Transaction PROVE Step
    BY <2>1, <2>2, <2>3
  <2>4. ASSUME NEW v \in Versions, Upgrade(v) PROVE Step
    BY <1>1, <2>1, <2>4, UpgradeInvariant
  <2> QED BY <1>1, <2>3, <2>4 DEF OldNext
<1> QED BY <1>1, OldInvariance, PTL DEF OldSpec, TimeAdvancesAlways

\* A report of ArbOS 2 to 9 keeps the total right, with a valid time or not.
LEMMA PoolUpdateAdds ==
  ASSUME OneCallInWidth, TotalFits, NEW s, BooksKept(s), TotalIsRight(s.table),
         NEW v, NEW a \in Addr, NEW t \in Times, NEW now \in Times,
         NEW wei \in Spendings, NEW basefee \in BaseFees,
         s.table.posters.size < Cap \/ ContainsPoster(s.table, a),
         s.owed[a] + wei <= MaxOwed
  PROVE  TotalIsRight(PoolUpdate(s, s, a, t, now, wei, basefee, v).table)
<1>1. s \in PricingStorage /\ TableInOrder(s.table)
  BY DEF BooksKept
<1>2. CASE ~TimeIsValid(s, t, now)
  <2>1. PoolUpdate(s, s, a, t, now, wei, basefee, v).table
          = OpenPoster(s.table, s.table, a)
    BY <1>1, <1>2 DEF PoolUpdate, PricingStorage
  <2> QED BY <1>1, <2>1, OpenPosterAdds
<1>3. CASE TimeIsValid(s, t, now)
  <2> DEFINE allocated == Allocated(s, t, now)
             credit == IF v >= 3 THEN Credit(s, allocated, wei, basefee) ELSE wei
             reward == Least(s.reward * allocated, s.pool)
             due == s.table.due[a]
             payment == PaidFrom(PoolLeft(s, reward), due)
  <2>1. PoolUpdate(s, s, a, t, now, wei, basefee, v).table
          = Settle(s, s, a, credit, payment)
    BY <1>1, <1>3 DEF PoolUpdate, PricingStorage
  <2>2. allocated \in Nat
    BY <1>1, <1>3, AllocatedIsPart, Widths DEF PricingStorage
  <2>3. s.pool \in Nat /\ s.reward \in Nat /\ due \in Int
    <3>1. /\ s.pool \in 0..MaxU256 /\ s.reward \in Rewards
          /\ s.table.due[a] \in I256
      BY <1>1 DEF PricingStorage, PosterStorage
    <3>2. due \in Int
      BY <3>1, I256IsInt
    <3> QED BY <3>1, <3>2, Widths
  <2>4. credit \in Nat /\ s.owed[a] + credit <= MaxOwed
    <3>1. Credit(s, allocated, wei, basefee) \in 0..wei /\ wei \in Nat
      BY <1>1, <2>2, CreditIsPart, Widths
    <3>2. credit \in 0..wei
      BY <3>1
    <3>3. s.owed[a] \in Nat /\ MaxOwed \in Nat
      BY <1>1, Widths DEF PricingStorage
    <3> HIDE DEF credit
    <3> QED BY <3>1, <3>2, <3>3
  <2> HIDE DEF allocated, credit
  <2>5. reward \in Nat /\ reward <= s.pool
    <3>1. s.reward * allocated \in Nat
      BY <2>2, <2>3
    <3> QED BY <2>3, <3>1, LeastIsLeast
  <2> HIDE DEF reward, due
  <2>6. payment \in Nat /\ (payment > 0 => payment <= due)
    BY <2>3, <2>5 DEF PaidFrom, PoolLeft, Least
  <2> HIDE DEF payment
  <2> QED BY <2>1, <2>4, <2>6, SettleAdds DEF due
<1> QED BY <1>2, <1>3

\* A chain that starts with ArbOS 2 or later stays there, with the totals right.
TotalsFrom2 == genesis >= 2 => version >= 2 /\ TotalsRight

\* Every step of a chain keeps them.
LEMMA OldTotalStep ==
  ASSUME OneCallInWidth, TotalFits, OldInv, TotalsFrom2, [OldNext]_oldVars
  PROVE  TotalsFrom2'
<1> SUFFICES ASSUME genesis' >= 2 PROVE version' >= 2 /\ TotalsRight'
  BY DEF TotalsFrom2
<1>0. jrn \in PricingStorage /\ db \in PricingStorage
  BY DEF OldInv, BooksAt, BooksKept
<1>1. genesis' = genesis
  BY DEF OldNext, Upgrade, oldVars
<1>2. version >= 2 /\ TotalsRight /\ version \in Nat
  BY <1>1, VersionIsNumber DEF TotalsFrom2
<1>3. ASSUME Transaction, UNCHANGED <<version, genesis>>
      PROVE  version' >= 2 /\ TotalsRight'
  <2>1. ASSUME NEW s, s.table = jrn.table, Call(s) PROVE TotalsRight'
    BY <1>2, <2>1, OtherCallsAdd
  <2>2. ASSUME NEW amount \in Amounts, PayPool(amount) PROVE TotalsRight'
    <3>1. [jrn EXCEPT !.pool = @ + amount].table = jrn.table
      BY <1>0 DEF PricingStorage
    <3> QED BY <2>1, <2>2, <3>1 DEF PayPool
  <2>3. ASSUME NEW amount \in Amounts, CollectFeesFrom10(amount)
        PROVE  TotalsRight'
    <3> DEFINE s == [jrn EXCEPT !.fees = Least(db.fees + amount, MaxU256),
                                !.pool = @ + amount]
    <3>1. Call(s) /\ s.table = jrn.table
      BY <1>0, <2>3 DEF CollectFeesFrom10, CollectFees, PricingStorage
    <3> HIDE DEF s
    <3> QED BY <2>1, <3>1
  <2>4. ASSUME NEW units \in Units, AddUnits(units) PROVE TotalsRight'
    <3> DEFINE s == [jrn EXCEPT !.units = Least(db.units + units, MaxU64)]
    <3>1. Call(s) /\ s.table = jrn.table
      BY <1>0, <2>4 DEF AddUnits, PricingStorage
    <3> HIDE DEF s
    <3> QED BY <2>1, <3>1
  <2>5. ASSUME NEW a \in Addr, NEW t \in Times, NEW now \in Times,
               NEW wei \in Spendings, NEW basefee \in BaseFees,
               UpdateByVersion(a, t, now, wei, basefee)
        PROVE  TotalsRight'
    <3> DEFINE after == UpdateOf(version, db, db, a, t, now, wei, basefee)
    <3>1. /\ db.table.posters.size < Cap \/ ContainsPoster(db.table, a)
          /\ jrn.owed[a] + wei <= MaxOwed
          /\ Call(UpdateOf(version, db, jrn, a, t, now, wei, basefee))
      BY <2>5 DEF UpdateByVersion
    <3>2. jrn = db /\ BooksKept(db) /\ TotalIsRight(db.table)
      BY <1>2, <3>1, OneOldBook DEF BooksAt, TotalsRight
    <3>3. CASE version >= 10
      <4>1. after = Update(db, db, a, t, now, wei, basefee)
        BY <3>3 DEF UpdateOf
      <4> QED BY <3>1, <3>2, <4>1, UpdateAdds DEF TotalsRight, Call
    <3>4. CASE ~(version >= 10)
      <4>1. after = PoolUpdate(db, db, a, t, now, wei, basefee, version)
        BY <1>2, <3>4 DEF UpdateOf
      <4> QED BY <3>1, <3>2, <4>1, PoolUpdateAdds DEF TotalsRight, Call
    <3> QED BY <3>3, <3>4
  <2>6. ASSUME NEW v, \/ SetPerUnitReward(v) \/ SetAmortizedCostCapBips(v)
                      \/ SetEquilibrationUnits(v) \/ SetInertia(v)
        PROVE  TotalsRight'
    <3>1. /\ [jrn EXCEPT !.reward = v].table = jrn.table
          /\ [jrn EXCEPT !.cap = v].table = jrn.table
          /\ [jrn EXCEPT !.equilibration = v].table = jrn.table
          /\ [jrn EXCEPT !.inertia = v].table = jrn.table
      BY <1>0 DEF PricingStorage
    <3> QED BY <2>1, <2>6, <3>1
            DEF SetPerUnitReward, SetAmortizedCostCapBips, SetEquilibrationUnits,
                SetInertia
  <2>7. ASSUME Commit \/ Revert PROVE TotalsRight'
    BY <1>2, <2>7 DEF Commit, Revert, TotalsRight
  <2>8. TotalsRight'
    BY <1>3, <2>2, <2>3, <2>4, <2>5, <2>6, <2>7 DEF Transaction
  <2> QED BY <1>2, <1>3, <2>8
<1>4. ASSUME NEW v \in Versions, Upgrade(v) PROVE version' >= 2 /\ TotalsRight'
  <2>1. v \in Nat /\ version < v /\ version' = v
    BY <1>4, VersionsAssumption DEF Upgrade
  <2>2. db'.table = db.table /\ jrn'.table = db.table
    BY <1>0, <1>4 DEF Upgrade, PricingStorage
  <2> QED BY <1>2, <2>1, <2>2 DEF TotalsRight
<1>5. ASSUME UNCHANGED oldVars PROVE version' >= 2 /\ TotalsRight'
  BY <1>2, <1>5 DEF oldVars, TotalsRight
<1> QED BY <1>3, <1>4, <1>5 DEF OldNext

\* A chain that starts with ArbOS 2 or later keeps the total owed to the posters
\* the sum of their balances, through every report of every version.  The report
\* before ArbOS 2 does not: it takes each payment off the total that it read,
\* and the last of them is the only one that stays.
THEOREM TotalIsTheSumFrom2 ==
  ASSUME OneCallInWidth, TotalFits PROVE OldSpec => []TotalIsSumFrom2
<1>1. OldInit => TotalsFrom2
  BY StartTotal DEF OldInit, JournalInit, TotalsRight, TotalsFrom2
<1>2. OldInv /\ TotalsFrom2 /\ [OldNext]_oldVars => TotalsFrom2'
  BY OldTotalStep
<1>3. TotalsFrom2 => TotalIsSumFrom2
  BY DEF TotalsFrom2, TotalsRight, TotalIsRight, TotalIsSum, TotalIsSumFrom2
<1> QED BY <1>1, <1>2, <1>3, OldInvariance, PTL DEF OldSpec
=============================================================================
