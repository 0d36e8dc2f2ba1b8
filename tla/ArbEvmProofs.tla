---------------------------- MODULE ArbEvmProofs ----------------------------
(***************************************************************************)
(* Theorems about ArbEvm, for addresses of every width and bytes of every  *)
(* base, every offset of the alias and every window of block hashes.       *)
(*                                                                         *)
(* The alias is computed byte by byte from the last one, and what it is    *)
(* compared with is a number.  The two meet in the carries: into the first *)
(* bytes of the sum goes the carry of the bytes after them, and out of all *)
(* of them goes the carry that the code drops.                             *)
(***************************************************************************)
EXTENDS ArbEvm, WellFoundedInduction, TLAPS

-----------------------------------------------------------------------------
(* Recursions over the bytes.                                              *)

\* A set that has zero and the successor of each of its numbers has them all.
LEMMA NaturalInduction ==
  ASSUME NEW T, 0 \in T, \A n \in Nat : n \in T => n + 1 \in T
  PROVE  Nat \subseteq T
<1> DEFINE Bad == Nat \ T
           Below == {p \in Nat \X Nat : p[1] < p[2]}
<1> SUFFICES ASSUME Bad # {} PROVE FALSE
  OBVIOUS
<1>1. IsWellFoundedOn(Below, Nat)
  BY NatLessThanWellFounded DEF OpToRel
<1>2. PICK m \in Bad : \A y \in Bad : <<y, m>> \notin Below
  <2>1. Bad \subseteq Nat
    OBVIOUS
  <2> HIDE DEF Below, Bad
  <2> QED BY <1>1, <2>1, WFMin
<1>3. m \in Nat /\ m # 0 /\ m - 1 \in Nat
  OBVIOUS
<1>4. <<m - 1, m>> \in Below
  BY <1>3
<1> QED BY <1>2, <1>3, <1>4

\* What holds of all places up to n if it holds of 0 and of the next place.
LEMMA PlaceInduction ==
  ASSUME NEW n \in Nat, NEW Good, 0 \in Good,
         \A i \in 0..(n - 1) : i \in Good => i + 1 \in Good
  PROVE  \A i \in 0..n : i \in Good
<1> DEFINE T == {i \in Nat : i <= n => i \in Good}
<1>1. 0 \in T
  OBVIOUS
<1>2. ASSUME NEW i \in Nat, i \in T PROVE i + 1 \in T
  <2> SUFFICES ASSUME i + 1 <= n PROVE i + 1 \in Good
    OBVIOUS
  <2>1. i \in 0..(n - 1) /\ i \in Good
    BY <1>2
  <2> QED BY <2>1
<1>3. Nat \subseteq T
  <2> HIDE DEF T
  <2> QED BY <1>1, <1>2, NaturalInduction
<1> QED BY <1>3

\* What holds of all places down from n if it holds of n and of the place before.
LEMMA PlaceInductionDown ==
  ASSUME NEW n \in Nat, NEW Good, n \in Good,
         \A i \in 1..(n - 1) : i + 1 \in Good => i \in Good
  PROVE  \A i \in 1..n : i \in Good
<1> DEFINE T == {k \in Nat : k < n => n - k \in Good}
<1>1. 0 \in T
  OBVIOUS
<1>2. ASSUME NEW k \in Nat, k \in T PROVE k + 1 \in T
  <2> SUFFICES ASSUME k + 1 < n PROVE n - (k + 1) \in Good
    OBVIOUS
  <2>1. /\ n - (k + 1) \in 1..(n - 1) /\ (n - (k + 1)) + 1 = n - k
        /\ n - k \in Good
    BY <1>2
  <2> QED BY <2>1
<1>3. Nat \subseteq T
  <2> HIDE DEF T
  <2> QED BY <1>1, <1>2, NaturalInduction
<1>4. ASSUME NEW i \in 1..n PROVE i \in Good
  <2>1. n - i \in Nat /\ n - i < n /\ n - (n - i) = i
    OBVIOUS
  <2> QED BY <1>3, <2>1
<1> QED BY <1>4

\* f has its first value at 0, and each next one from the value before.
GoesUp(f, n, S, first, next) ==
  /\ f \in [0..n -> S]
  /\ \A i \in 0..n : f[i] = IF i = 0 THEN first ELSE next[<<f[i - 1], i>>]

\* There is one, whatever the values.
LEMMA RecursionUp ==
  ASSUME NEW n \in Nat, NEW S, NEW first, first \in S,
         NEW next, next \in [S \X (1..n) -> S]
  PROVE  \E f : GoesUp(f, n, S, first, next)
<1> DEFINE Step(f, i) == IF i = 0 THEN first ELSE next[<<f[i - 1], i>>]
           UpTo(k, f) == \A i \in 0..n : i <= k => f[i] = Step(f, i)
           T == {k \in Nat : \E f \in [0..n -> S] : UpTo(k, f)}
<1>0. ASSUME NEW f \in [0..n -> S], NEW i \in 0..n PROVE Step(f, i) \in S
  <2>1. CASE i = 0
    BY <2>1
  <2>2. CASE i # 0
    <3>1. i - 1 \in 0..n /\ i \in 1..n
      BY <2>2
    <3>2. <<f[i - 1], i>> \in S \X (1..n)
      BY <3>1
    <3> QED BY <2>2, <3>2
  <2> QED BY <2>1, <2>2
<1>1. 0 \in T
  <2> DEFINE f == [i \in 0..n |-> first]
  <2>1. f \in [0..n -> S] /\ UpTo(0, f)
    OBVIOUS
  <2> QED BY <2>1
<1>2. ASSUME NEW k \in Nat, k \in T PROVE k + 1 \in T
  <2>1. PICK f \in [0..n -> S] : UpTo(k, f)
    BY <1>2
  <2> DEFINE g == [i \in 0..n |-> Step(f, i)]
  <2>2. g \in [0..n -> S]
    <3> HIDE DEF Step
    <3> QED BY <1>0
  <2>3. UpTo(k + 1, g)
    <3> SUFFICES ASSUME NEW i \in 0..n, i <= k + 1 PROVE Step(f, i) = Step(g, i)
      OBVIOUS
    <3>1. CASE i = 0
      BY <3>1
    <3>2. CASE i # 0
      <4>1. i - 1 \in 0..n /\ i - 1 <= k
        BY <3>2
      <4>2. g[i - 1] = Step(f, i - 1) /\ f[i - 1] = Step(f, i - 1)
        BY <2>1, <4>1
      <4>3. g[i - 1] = f[i - 1]
        BY <4>2
      <4> HIDE DEF g
      <4> QED BY <3>2, <4>3
    <3> QED BY <3>1, <3>2
  <2> HIDE DEF g, UpTo
  <2> QED BY <2>2, <2>3
<1>3. n \in T
  <2> HIDE DEF T
  <2> QED BY <1>1, <1>2, NaturalInduction
<1>4. PICK f \in [0..n -> S] : UpTo(n, f)
  BY <1>3
<1> QED BY <1>4 DEF GoesUp

\* g has its first value at n + 1, and each one from the value after.
GoesDown(g, n, S, first, next) ==
  /\ g \in [1..(n + 1) -> S]
  /\ \A i \in 1..(n + 1) : g[i] = IF i > n THEN first ELSE next[<<g[i + 1], i>>]

\* There is one too.
LEMMA RecursionDown ==
  ASSUME NEW n \in Nat, NEW S, NEW first, first \in S,
         NEW next, next \in [S \X (1..n) -> S]
  PROVE  \E g : GoesDown(g, n, S, first, next)
<1> DEFINE turned == [p \in S \X (1..n) |-> next[<<p[1], (n + 1) - p[2]>>]]
<1>1. turned \in [S \X (1..n) -> S]
  <2> SUFFICES ASSUME NEW p \in S \X (1..n) PROVE next[<<p[1], (n + 1) - p[2]>>] \in S
    OBVIOUS
  <2>1. p[1] \in S /\ (n + 1) - p[2] \in 1..n
    OBVIOUS
  <2>2. <<p[1], (n + 1) - p[2]>> \in S \X (1..n)
    BY <2>1
  <2> QED BY <2>2
<1>2. ASSUME NEW x \in S, NEW i \in 1..n PROVE turned[<<x, i>>] = next[<<x, (n + 1) - i>>]
  OBVIOUS
<1> HIDE DEF turned
<1>3. PICK f : GoesUp(f, n, S, first, turned)
  BY Zenon, <1>1, RecursionUp
<1> DEFINE g == [i \in 1..(n + 1) |-> f[(n + 1) - i]]
<1>4. \A i \in 1..(n + 1) : (n + 1) - i \in 0..n
  OBVIOUS
<1>5. g \in [1..(n + 1) -> S]
  BY <1>3, <1>4 DEF GoesUp
<1>6. ASSUME NEW i \in 1..(n + 1)
      PROVE  g[i] = IF i > n THEN first ELSE next[<<g[i + 1], i>>]
  <2>1. CASE i > n
    <3>1. (n + 1) - i = 0 /\ 0 \in 0..n
      BY <2>1
    <3>2. g[i] = f[0]
      BY <3>1
    <3> QED BY <1>3, <2>1, <3>1, <3>2 DEF GoesUp
  <2>2. CASE ~(i > n)
    <3> DEFINE j == (n + 1) - i
    <3>1. /\ j \in 0..n /\ j \in 1..n /\ j # 0 /\ j - 1 \in 0..n
          /\ (n + 1) - j = i /\ i + 1 \in 1..(n + 1) /\ (n + 1) - (i + 1) = j - 1
      BY <2>2
    <3>2. g[i] = f[j] /\ g[i + 1] = f[j - 1]
      BY <3>1
    <3> HIDE DEF j, g
    <3>3. f[j] = turned[<<f[j - 1], j>>] /\ f[j - 1] \in S
      BY <1>3, <3>1 DEF GoesUp
    <3>4. turned[<<f[j - 1], j>>] = next[<<f[j - 1], i>>]
      BY <1>2, <3>1, <3>3
    <3> QED BY <2>2, <3>2, <3>3, <3>4
  <2> QED BY <2>1, <2>2
<1> HIDE DEF g
<1> QED BY <1>5, <1>6 DEF GoesDown

-----------------------------------------------------------------------------
(* What the recursions of ArbSys and of the properties compute.            *)

\* The bytes of an address, and those of the offset.
LEMMA ByteIsSmall ==
  ASSUME NEW addr \in Bytes, NEW i \in 1..Width
  PROVE  /\ addr[i] \in Nat /\ addr[i] < Base
         /\ Offset[i] \in Nat /\ Offset[i] < Base
BY WidthAssumption, OffsetAssumption DEF Bytes

NumberStep(addr, u, i) == IF i = 0 THEN 0 ELSE u[i - 1] * Base + addr[i]

\* u has the numbers that the first bytes of addr stand for.
HasNumbers(u, addr) ==
  /\ Number(addr) = u[Width]
  /\ u[0] = 0
  /\ \A i \in 0..Width : u[i] \in Nat
  /\ \A i \in 0..(Width - 1) : u[i + 1] = u[i] * Base + addr[i + 1]

LEMMA NumberIsComputed ==
  ASSUME NEW addr \in Bytes
  PROVE  \E u : HasNumbers(u, addr)
<1> DEFINE next == [p \in Nat \X (1..Width) |-> p[1] * Base + addr[p[2]]]
           u == CHOOSE f : f = [i \in 0..Width |-> NumberStep(addr, f, i)]
<1>1. next \in [Nat \X (1..Width) -> Nat]
  <2> SUFFICES ASSUME NEW p \in Nat \X (1..Width)
               PROVE  p[1] * Base + addr[p[2]] \in Nat
    OBVIOUS
  <2>1. p[1] \in Nat /\ addr[p[2]] \in Nat /\ Base \in Nat
    BY ByteIsSmall, WidthAssumption
  <2>2. p[1] * Base \in Nat
    BY <2>1
  <2> QED BY <2>1, <2>2
<1>2. ASSUME NEW x \in Nat, NEW i \in 1..Width PROVE next[<<x, i>>] = x * Base + addr[i]
  OBVIOUS
<1> HIDE DEF next
<1>3. PICK f : GoesUp(f, Width, Nat, 0, next)
  <2>1. Width \in Nat /\ 0 \in Nat
    BY WidthAssumption
  <2> QED BY Zenon, <1>1, <2>1, RecursionUp
<1>4. ASSUME NEW i \in 0..Width PROVE f[i] = NumberStep(addr, f, i)
  <2>1. CASE i = 0
    BY <1>3, <2>1 DEF NumberStep, GoesUp
  <2>2. CASE i # 0
    <3>1. i \in 1..Width /\ i - 1 \in 0..Width
      BY <2>2, WidthAssumption
    <3>2. f[i - 1] \in Nat /\ f[i] = next[<<f[i - 1], i>>]
      BY <1>3, <2>2, <3>1 DEF GoesUp
    <3> QED BY <1>2, <2>2, <3>1, <3>2 DEF NumberStep
  <2> QED BY <2>1, <2>2
<1>5. f = [i \in 0..Width |-> NumberStep(addr, f, i)]
  BY <1>3, <1>4 DEF GoesUp
<1>6. u = [i \in 0..Width |-> NumberStep(addr, u, i)]
  BY <1>5
<1>7. Number(addr) = u[Width]
  BY Zenon DEF Number, NumberStep
<1> HIDE DEF u
<1>8. u[0] = 0
  BY <1>6, WidthAssumption DEF NumberStep
<1>9. ASSUME NEW i \in 0..(Width - 1) PROVE u[i + 1] = u[i] * Base + addr[i + 1]
  <2>1. i + 1 \in 0..Width /\ i + 1 # 0 /\ (i + 1) - 1 = i
    BY WidthAssumption
  <2> QED BY <1>6, <2>1 DEF NumberStep
<1>10. \A i \in 0..Width : u[i] \in Nat
  <2> DEFINE Good == {i \in 0..Width : u[i] \in Nat}
  <2>1. 0 \in Good
    BY <1>8, WidthAssumption
  <2>2. ASSUME NEW i \in 0..(Width - 1), i \in Good PROVE i + 1 \in Good
    <3>1. i + 1 \in 1..Width /\ i + 1 \in 0..Width
      BY WidthAssumption
    <3>2. u[i] \in Nat /\ addr[i + 1] \in Nat /\ Base \in Nat
      BY <2>2, <3>1, ByteIsSmall, WidthAssumption
    <3>3. u[i] * Base \in Nat
      BY <3>2
    <3> QED BY <1>9, <3>1, <3>2, <3>3
  <2>3. \A i \in 0..Width : i \in Good
    <3> HIDE DEF Good
    <3> QED BY <2>1, <2>2, PlaceInduction, WidthAssumption
  <2> QED BY <2>3
<1> QED BY <1>7, <1>8, <1>9, <1>10 DEF HasNumbers

PowerStep(p, i) == IF i = 0 THEN 1 ELSE p[i - 1] * Base

\* p has the powers of Base.
HasPowers(p) ==
  /\ AddressCount = p[Width]
  /\ p[0] = 1
  /\ \A i \in 0..Width : p[i] \in Nat \ {0}
  /\ \A i \in 0..(Width - 1) : p[i + 1] = p[i] * Base

LEMMA AddressCountIsComputed == \E p : HasPowers(p)
<1> DEFINE next == [q \in Nat \X (1..Width) |-> q[1] * Base]
           p == CHOOSE f : f = [i \in 0..Width |-> PowerStep(f, i)]
<1>1. next \in [Nat \X (1..Width) -> Nat]
  <2> SUFFICES ASSUME NEW q \in Nat \X (1..Width) PROVE q[1] * Base \in Nat
    OBVIOUS
  <2>1. q[1] \in Nat /\ Base \in Nat
    BY WidthAssumption
  <2> QED BY <2>1
<1>2. ASSUME NEW x \in Nat, NEW i \in 1..Width PROVE next[<<x, i>>] = x * Base
  OBVIOUS
<1> HIDE DEF next
<1>3. PICK f : GoesUp(f, Width, Nat, 1, next)
  <2>1. Width \in Nat /\ 1 \in Nat
    BY WidthAssumption
  <2> QED BY Zenon, <1>1, <2>1, RecursionUp
<1>4. ASSUME NEW i \in 0..Width PROVE f[i] = PowerStep(f, i)
  <2>1. CASE i = 0
    BY <1>3, <2>1 DEF PowerStep, GoesUp
  <2>2. CASE i # 0
    <3>1. i \in 1..Width /\ i - 1 \in 0..Width
      BY <2>2, WidthAssumption
    <3>2. f[i - 1] \in Nat /\ f[i] = next[<<f[i - 1], i>>]
      BY <1>3, <2>2, <3>1 DEF GoesUp
    <3> QED BY <1>2, <2>2, <3>1, <3>2 DEF PowerStep
  <2> QED BY <2>1, <2>2
<1>5. f = [i \in 0..Width |-> PowerStep(f, i)]
  BY <1>3, <1>4 DEF GoesUp
<1>6. p = [i \in 0..Width |-> PowerStep(p, i)]
  BY <1>5
<1>7. AddressCount = p[Width]
  BY Zenon DEF AddressCount, PowerStep
<1> HIDE DEF p
<1>8. p[0] = 1
  BY <1>6, WidthAssumption DEF PowerStep
<1>9. ASSUME NEW i \in 0..(Width - 1) PROVE p[i + 1] = p[i] * Base
  <2>1. i + 1 \in 0..Width /\ i + 1 # 0 /\ (i + 1) - 1 = i
    BY WidthAssumption
  <2> QED BY <1>6, <2>1 DEF PowerStep
<1>10. \A i \in 0..Width : p[i] \in Nat \ {0}
  <2> DEFINE Good == {i \in 0..Width : p[i] \in Nat \ {0}}
  <2>1. 0 \in Good
    BY <1>8, WidthAssumption
  <2>2. ASSUME NEW i \in 0..(Width - 1), i \in Good PROVE i + 1 \in Good
    <3>1. i + 1 \in 0..Width /\ p[i] \in Nat \ {0} /\ Base \in Nat \ {0}
      BY <2>2, WidthAssumption
    <3>2. p[i] * Base \in Nat \ {0}
      BY <3>1
    <3> QED BY <1>9, <3>1, <3>2
  <2>3. \A i \in 0..Width : i \in Good
    <3> HIDE DEF Good
    <3> QED BY <2>1, <2>2, PlaceInduction, WidthAssumption
  <2> QED BY <2>3
<1> QED BY <1>7, <1>8, <1>9, <1>10 DEF HasPowers

\* An address is below the number of addresses.
LEMMA NumberFits ==
  ASSUME NEW addr \in Bytes
  PROVE  /\ AddressCount \in Nat \ {0}
         /\ Number(addr) \in Nat
         /\ Number(addr) < AddressCount
<1>1. PICK u : HasNumbers(u, addr)
  BY NumberIsComputed
<1>2. PICK p : HasPowers(p)
  BY AddressCountIsComputed
<1> DEFINE Good == {i \in 0..Width : u[i] + 1 <= p[i]}
<1>3. 0 \in Good
  BY <1>1, <1>2, WidthAssumption DEF HasNumbers, HasPowers
<1>4. ASSUME NEW i \in 0..(Width - 1), i \in Good PROVE i + 1 \in Good
  <2>1. i + 1 \in 0..Width /\ i + 1 \in 1..Width /\ i \in 0..Width
    BY WidthAssumption
  <2>2. /\ u[i + 1] = u[i] * Base + addr[i + 1] /\ p[i + 1] = p[i] * Base
        /\ u[i] \in Nat /\ p[i] \in Nat /\ u[i] + 1 <= p[i]
    BY <1>1, <1>2, <1>4, <2>1 DEF HasNumbers, HasPowers
  <2>3. Base \in Nat /\ addr[i + 1] \in Nat /\ addr[i + 1] < Base
    BY <2>1, ByteIsSmall, WidthAssumption
  <2>4. (u[i] + 1) * Base <= p[i] * Base
    BY <2>2, <2>3
  <2>5. (u[i] + 1) * Base = u[i] * Base + Base
    BY <2>2, <2>3
  <2>6. u[i] * Base \in Nat /\ p[i] * Base \in Nat
    BY <2>2, <2>3
  <2>7. u[i + 1] + 1 <= p[i + 1]
    BY <2>2, <2>3, <2>4, <2>5, <2>6
  <2> QED BY <2>1, <2>7
<1>5. \A i \in 0..Width : i \in Good
  <2> HIDE DEF Good
  <2> QED BY <1>3, <1>4, PlaceInduction, WidthAssumption
<1>6. Width \in 0..Width
  BY WidthAssumption
<1> QED BY <1>1, <1>2, <1>5, <1>6 DEF HasNumbers, HasPowers

-----------------------------------------------------------------------------
(* The alias.                                                              *)

\* What two bytes and a carry make: a byte and a carry.
LEMMA ByteAndCarry ==
  ASSUME NEW a \in Nat, a < Base, NEW o \in Nat, o < Base, NEW c \in {0, 1}
  PROVE  /\ (a + o + c) \div Base \in {0, 1}
         /\ (a + o + c) % Base \in 0..(Base - 1)
         /\ a + o + c = ((a + o + c) % Base)
                        + (IF (a + o + c) \div Base = 1 THEN Base ELSE 0)
<1> DEFINE x == a + o + c
<1>1. x \in Nat /\ x < Base + Base /\ Base \in Nat \ {0}
  BY WidthAssumption
<1> HIDE DEF x
<1>2. CASE x < Base
  <2>1. x \div Base = 0 /\ x % Base = x
    BY <1>1, <1>2
  <2>2. /\ x \div Base \in {0, 1}
        /\ x % Base \in 0..(Base - 1)
        /\ x = (x % Base) + (IF x \div Base = 1 THEN Base ELSE 0)
    BY <1>1, <1>2, <2>1
  <2> QED BY <2>2 DEF x
<1>3. CASE ~(x < Base)
  <2>1. x \div Base = 1 /\ x % Base = x - Base
    BY <1>1, <1>3
  <2>2. /\ x \div Base \in {0, 1}
        /\ x % Base \in 0..(Base - 1)
        /\ x = (x % Base) + (IF x \div Base = 1 THEN Base ELSE 0)
    BY <1>1, <1>3, <2>1
  <2> QED BY <2>2 DEF x
<1> QED BY <1>2, <1>3

CarryStep(addr, out, i) ==
  IF i > Width THEN 0 ELSE (addr[i] + Offset[i] + out[i + 1]) \div Base

\* The carries are bits, and each is the one out of the sum of its bytes.
LEMMA CarryIsComputed ==
  ASSUME NEW addr \in Bytes
  PROVE  /\ Carry(addr)[Width + 1] = 0
         /\ \A i \in 1..(Width + 1) : Carry(addr)[i] \in {0, 1}
         /\ \A i \in 1..Width :
              Carry(addr)[i] = (addr[i] + Offset[i] + Carry(addr)[i + 1]) \div Base
<1> DEFINE next == [q \in {0, 1} \X (1..Width) |->
                      (addr[q[2]] + Offset[q[2]] + q[1]) \div Base]
           c == CHOOSE f : f = [i \in 1..(Width + 1) |-> CarryStep(addr, f, i)]
<1>1. next \in [{0, 1} \X (1..Width) -> {0, 1}]
  <2> SUFFICES ASSUME NEW q \in {0, 1} \X (1..Width)
               PROVE  (addr[q[2]] + Offset[q[2]] + q[1]) \div Base \in {0, 1}
    OBVIOUS
  <2>1. q[1] \in {0, 1} /\ q[2] \in 1..Width
    OBVIOUS
  <2>2. /\ addr[q[2]] \in Nat /\ addr[q[2]] < Base
        /\ Offset[q[2]] \in Nat /\ Offset[q[2]] < Base
    BY <2>1, ByteIsSmall
  <2> QED BY <2>1, <2>2, ByteAndCarry
<1>2. ASSUME NEW x \in {0, 1}, NEW i \in 1..Width
      PROVE  next[<<x, i>>] = (addr[i] + Offset[i] + x) \div Base
  OBVIOUS
<1> HIDE DEF next
<1>3. PICK f : GoesDown(f, Width, {0, 1}, 0, next)
  <2>1. Width \in Nat /\ 0 \in {0, 1}
    BY WidthAssumption
  <2> QED BY Zenon, <1>1, <2>1, RecursionDown
<1>4. ASSUME NEW i \in 1..(Width + 1) PROVE f[i] = CarryStep(addr, f, i)
  <2>1. CASE i > Width
    BY <1>3, <2>1 DEF CarryStep, GoesDown
  <2>2. CASE ~(i > Width)
    <3>1. i \in 1..Width /\ i + 1 \in 1..(Width + 1)
      BY <2>2, WidthAssumption
    <3>2. f[i + 1] \in {0, 1} /\ f[i] = next[<<f[i + 1], i>>]
      BY <1>3, <2>2, <3>1 DEF GoesDown
    <3>3. next[<<f[i + 1], i>>] = (addr[i] + Offset[i] + f[i + 1]) \div Base
      BY <1>2, <3>1, <3>2
    <3> QED BY <2>2, <3>2, <3>3 DEF CarryStep
  <2> QED BY <2>1, <2>2
<1>5. f = [i \in 1..(Width + 1) |-> CarryStep(addr, f, i)]
  BY <1>3, <1>4 DEF GoesDown
<1>6. c = [i \in 1..(Width + 1) |-> CarryStep(addr, c, i)]
  BY <1>5
<1>7. Carry(addr) = c
  BY Zenon DEF Carry, CarryStep
<1> HIDE DEF c
<1>8. c[Width + 1] = 0
  BY <1>6, WidthAssumption DEF CarryStep
<1>9. ASSUME NEW i \in 1..Width
      PROVE  c[i] = (addr[i] + Offset[i] + c[i + 1]) \div Base
  <2>1. i \in 1..(Width + 1) /\ ~(i > Width)
    BY WidthAssumption
  <2> QED BY <1>6, <2>1 DEF CarryStep
<1>10. \A i \in 1..(Width + 1) : c[i] \in {0, 1}
  <2> DEFINE Good == {i \in 1..(Width + 1) : c[i] \in {0, 1}}
  <2>1. Width + 1 \in Good /\ Width + 1 \in Nat /\ (Width + 1) - 1 = Width
    BY <1>8, WidthAssumption
  <2>2. ASSUME NEW i \in 1..Width, i + 1 \in Good PROVE i \in Good
    <3>1. c[i + 1] \in {0, 1} /\ i \in 1..(Width + 1)
      BY <2>2, WidthAssumption
    <3>2. (addr[i] + Offset[i] + c[i + 1]) \div Base \in {0, 1}
      BY <3>1, ByteIsSmall, ByteAndCarry
    <3> QED BY <1>9, <3>1, <3>2
  <2>3. \A i \in 1..(Width + 1) : i \in Good
    <3> HIDE DEF Good
    <3> QED BY <2>1, <2>2, PlaceInductionDown
  <2> QED BY <2>3
<1> QED BY <1>7, <1>8, <1>9, <1>10

\* A byte of the alias and the carry out of it are what is summed there.
LEMMA AliasByte ==
  ASSUME NEW addr \in Bytes
  PROVE  /\ ApplyAlias(addr) \in Bytes
         /\ \A i \in 1..Width :
              addr[i] + Offset[i] + Carry(addr)[i + 1]
                = ApplyAlias(addr)[i] + (IF Carry(addr)[i] = 1 THEN Base ELSE 0)
<1>1. ASSUME NEW i \in 1..Width
      PROVE  LET x == addr[i] + Offset[i] + Carry(addr)[i + 1]
             IN  /\ x % Base \in 0..(Base - 1)
                 /\ x = (x % Base) + (IF Carry(addr)[i] = 1 THEN Base ELSE 0)
  <2> DEFINE a == addr[i]
             o == Offset[i]
             d == Carry(addr)[i + 1]
  <2>1. a \in Nat /\ a < Base /\ o \in Nat /\ o < Base
    BY ByteIsSmall
  <2>2. i + 1 \in 1..(Width + 1)
    BY WidthAssumption
  <2>3. d \in {0, 1} /\ Carry(addr)[i] = (a + o + d) \div Base
    BY <2>2, CarryIsComputed
  <2> HIDE DEF a, o, d
  <2>4. /\ (a + o + d) % Base \in 0..(Base - 1)
        /\ a + o + d = ((a + o + d) % Base)
                       + (IF (a + o + d) \div Base = 1 THEN Base ELSE 0)
    BY <2>1, <2>3, ByteAndCarry
  <2>5. a + o + d = ((a + o + d) % Base)
                    + (IF Carry(addr)[i] = 1 THEN Base ELSE 0)
    BY Zenon, <2>3, <2>4
  <2> QED BY Zenon, <2>4, <2>5 DEF a, o, d
<1>2. ApplyAlias(addr) \in Bytes
  BY <1>1 DEF ApplyAlias, Bytes
<1>3. \A i \in 1..Width :
        ApplyAlias(addr)[i] = (addr[i] + Offset[i] + Carry(addr)[i + 1]) % Base
  BY DEF ApplyAlias
<1> QED BY <1>1, <1>2, <1>3

\* One more byte of a sum of two numbers.
LEMMA SumOfPlaces ==
  ASSUME NEW b \in Nat, NEW n \in Nat, NEW m \in Nat, NEW k \in Nat,
         NEW d \in Nat, NEW w \in Nat, NEW x \in Nat, NEW y \in Nat,
         NEW z \in Nat, NEW e \in Nat, n + m + d = k + w,
         x + y + e = z + d * b
  PROVE  (n * b + x) + (m * b + y) + e = (k * b + z) + w * b
<1>1. (n + m + d) * b = n * b + m * b + d * b
  OBVIOUS
<1>2. (k + w) * b = k * b + w * b
  OBVIOUS
<1>3. /\ n * b \in Nat /\ m * b \in Nat /\ d * b \in Nat
      /\ k * b \in Nat /\ w * b \in Nat
  OBVIOUS
<1> QED BY <1>1, <1>2, <1>3

\* The number of the alias is the sum, and the carry out of the first byte is lost.
LEMMA AliasIsSum ==
  ASSUME NEW addr \in Bytes
  PROVE  Number(ApplyAlias(addr)) = (Number(addr) + Number(Offset)) % AddressCount
<1> DEFINE c == Carry(addr)
           s == ApplyAlias(addr)
<1>1. Offset \in Bytes /\ s \in Bytes
  BY OffsetAssumption, AliasByte DEF Bytes
<1>2. PICK u : HasNumbers(u, addr)
  BY NumberIsComputed
<1>3. PICK v : HasNumbers(v, Offset)
  BY <1>1, NumberIsComputed
<1>4. PICK t : HasNumbers(t, s)
  <2> HIDE DEF s
  <2> QED BY <1>1, NumberIsComputed
<1>5. PICK p : HasPowers(p)
  BY AddressCountIsComputed
<1>6. /\ c[Width + 1] = 0
      /\ \A i \in 1..(Width + 1) : c[i] \in {0, 1}
  BY CarryIsComputed
<1>7. \A i \in 1..Width :
        addr[i] + Offset[i] + c[i + 1] = s[i] + (IF c[i] = 1 THEN Base ELSE 0)
  BY AliasByte
<1> HIDE DEF c, s
<1> DEFINE Lost(i) == IF c[1] = 1 THEN p[i] ELSE 0
           Good == {i \in 0..Width : u[i] + v[i] + c[i + 1] = t[i] + Lost(i)}
<1>8. 0 \in Good
  <2>1. 0 \in 0..Width /\ 1 \in 1..(Width + 1) /\ 0 + 1 = 1
    BY WidthAssumption
  <2>2. u[0] = 0 /\ v[0] = 0 /\ t[0] = 0 /\ p[0] = 1 /\ c[1] \in {0, 1}
    BY <1>2, <1>3, <1>4, <1>5, <1>6, <2>1 DEF HasNumbers, HasPowers
  <2>3. u[0] + v[0] + c[0 + 1] = t[0] + Lost(0)
    BY <2>1, <2>2
  <2> QED BY <2>1, <2>3
<1>9. ASSUME NEW i \in 0..(Width - 1), i \in Good PROVE i + 1 \in Good
  <2>1. /\ i + 1 \in 0..Width /\ i + 1 \in 1..Width /\ i \in 0..Width
        /\ i + 1 \in 1..(Width + 1) /\ (i + 1) + 1 \in 1..(Width + 1)
    BY WidthAssumption
  <2>2. /\ u[i + 1] = u[i] * Base + addr[i + 1]
        /\ v[i + 1] = v[i] * Base + Offset[i + 1]
        /\ t[i + 1] = t[i] * Base + s[i + 1]
        /\ p[i + 1] = p[i] * Base
    BY <1>2, <1>3, <1>4, <1>5 DEF HasNumbers, HasPowers
  <2>3. u[i] \in Nat /\ v[i] \in Nat /\ t[i] \in Nat /\ p[i] \in Nat
    BY <1>2, <1>3, <1>4, <1>5, <2>1 DEF HasNumbers, HasPowers
  <2>4. addr[i + 1] \in Nat /\ Offset[i + 1] \in Nat /\ s[i + 1] \in Nat
    BY <1>1, <2>1, ByteIsSmall
  <2>5. c[i + 1] \in {0, 1} /\ c[(i + 1) + 1] \in {0, 1}
    BY <1>6, <2>1
  <2>6. u[i] + v[i] + c[i + 1] = t[i] + Lost(i)
    BY <1>9
  <2>7. addr[i + 1] + Offset[i + 1] + c[(i + 1) + 1] = s[i + 1] + c[i + 1] * Base
    <3>1. addr[i + 1] + Offset[i + 1] + c[(i + 1) + 1]
            = s[i + 1] + (IF c[i + 1] = 1 THEN Base ELSE 0)
      BY <1>7, <2>1
    <3>2. (IF c[i + 1] = 1 THEN Base ELSE 0) = c[i + 1] * Base
      BY <2>5, WidthAssumption
    <3> QED BY Zenon, <3>1, <3>2
  <2>8. Lost(i) \in Nat
    BY <2>3
  <2>9. Lost(i + 1) = Lost(i) * Base
    BY <2>2, WidthAssumption
  <2> HIDE DEF Lost
  <2>10. Base \in Nat /\ c[i + 1] \in Nat /\ c[(i + 1) + 1] \in Nat
    BY <2>5, WidthAssumption
  <2>11. (u[i] * Base + addr[i + 1]) + (v[i] * Base + Offset[i + 1]) + c[(i + 1) + 1]
           = (t[i] * Base + s[i + 1]) + Lost(i) * Base
    <3> DEFINE n == u[i]
               m == v[i]
               k == t[i]
               d == c[i + 1]
               w == Lost(i)
               x == addr[i + 1]
               y == Offset[i + 1]
               z == s[i + 1]
               e == c[(i + 1) + 1]
    <3>1. /\ n \in Nat /\ m \in Nat /\ k \in Nat /\ d \in Nat /\ w \in Nat
          /\ x \in Nat /\ y \in Nat /\ z \in Nat /\ e \in Nat
          /\ n + m + d = k + w /\ x + y + e = z + d * Base
      BY Zenon, <2>3, <2>4, <2>6, <2>7, <2>8, <2>10
    <3> HIDE DEF n, m, k, d, w, x, y, z, e
    <3>2. (n * Base + x) + (m * Base + y) + e = (k * Base + z) + w * Base
      BY <2>10, <3>1, SumOfPlaces
    <3> QED BY Zenon, <3>2 DEF n, m, k, d, w, x, y, z, e
  <2>12. u[i + 1] + v[i + 1] + c[(i + 1) + 1] = t[i + 1] + Lost(i + 1)
    BY Zenon, <2>2, <2>9, <2>11
  <2> QED BY <2>1, <2>12
<1>10. Width \in Good
  <2>1. Width \in 0..Width
    BY WidthAssumption
  <2> HIDE DEF Good
  <2> QED BY <1>8, <1>9, <2>1, PlaceInduction, WidthAssumption
<1>11. Number(addr) + Number(Offset)
         = Number(s) + (IF c[1] = 1 THEN AddressCount ELSE 0)
  <2>1. u[Width] + v[Width] + c[Width + 1] = t[Width] + Lost(Width)
    BY <1>10
  <2>2. /\ u[Width] = Number(addr) /\ v[Width] = Number(Offset)
        /\ t[Width] = Number(s) /\ p[Width] = AddressCount
    BY <1>2, <1>3, <1>4, <1>5 DEF HasNumbers, HasPowers
  <2>3. Number(addr) \in Nat /\ Number(Offset) \in Nat
    BY <1>1, NumberFits
  <2> QED BY <1>6, <2>1, <2>2, <2>3
<1>12. /\ AddressCount \in Nat \ {0}
       /\ Number(s) \in Nat /\ Number(s) < AddressCount
       /\ Number(addr) \in Nat /\ Number(Offset) \in Nat
  BY <1>1, NumberFits
<1>13. Number(s) = (Number(addr) + Number(Offset)) % AddressCount
  <2> DEFINE m == AddressCount
             r == Number(s)
             x == Number(addr) + Number(Offset)
  <2>1. /\ m \in Nat \ {0} /\ r \in Nat /\ r < m
        /\ x = r \/ x = r + m
    BY <1>11, <1>12
  <2> HIDE DEF m, r, x
  <2>2. r = x % m
    BY <2>1
  <2> QED BY Zenon, <2>2 DEF m, r, x
<1> QED BY <1>13 DEF s

BorrowStep(addr, out, i) ==
  IF i > Width THEN 0
  ELSE IF addr[i] - Offset[i] - out[i + 1] < 0 THEN 1 ELSE 0

\* Each borrow is the sign of the difference of its bytes.
LEMMA BorrowIsComputed ==
  ASSUME NEW addr \in Bytes
  PROVE  /\ Borrow(addr)[Width + 1] = 0
         /\ \A i \in 1..Width :
              Borrow(addr)[i] =
                IF addr[i] - Offset[i] - Borrow(addr)[i + 1] < 0 THEN 1 ELSE 0
<1> DEFINE next == [q \in {0, 1} \X (1..Width) |->
                      IF addr[q[2]] - Offset[q[2]] - q[1] < 0 THEN 1 ELSE 0]
           c == CHOOSE f : f = [i \in 1..(Width + 1) |-> BorrowStep(addr, f, i)]
<1>1. next \in [{0, 1} \X (1..Width) -> {0, 1}]
  OBVIOUS
<1>2. ASSUME NEW x \in {0, 1}, NEW i \in 1..Width
      PROVE  next[<<x, i>>] = IF addr[i] - Offset[i] - x < 0 THEN 1 ELSE 0
  OBVIOUS
<1> HIDE DEF next
<1>3. PICK f : GoesDown(f, Width, {0, 1}, 0, next)
  <2>1. Width \in Nat /\ 0 \in {0, 1}
    BY WidthAssumption
  <2> QED BY Zenon, <1>1, <2>1, RecursionDown
<1>4. ASSUME NEW i \in 1..(Width + 1) PROVE f[i] = BorrowStep(addr, f, i)
  <2>1. CASE i > Width
    BY <1>3, <2>1 DEF BorrowStep, GoesDown
  <2>2. CASE ~(i > Width)
    <3>1. i \in 1..Width /\ i + 1 \in 1..(Width + 1)
      BY <2>2, WidthAssumption
    <3>2. f[i + 1] \in {0, 1} /\ f[i] = next[<<f[i + 1], i>>]
      BY <1>3, <2>2, <3>1 DEF GoesDown
    <3>3. next[<<f[i + 1], i>>]
            = IF addr[i] - Offset[i] - f[i + 1] < 0 THEN 1 ELSE 0
      BY <1>2, <3>1, <3>2
    <3> QED BY <2>2, <3>2, <3>3 DEF BorrowStep
  <2> QED BY <2>1, <2>2
<1>5. f = [i \in 1..(Width + 1) |-> BorrowStep(addr, f, i)]
  BY <1>3, <1>4 DEF GoesDown
<1>6. c = [i \in 1..(Width + 1) |-> BorrowStep(addr, c, i)]
  BY <1>5
<1>7. Borrow(addr) = c
  BY Zenon DEF Borrow, BorrowStep
<1> HIDE DEF c
<1>8. c[Width + 1] = 0
  BY <1>6, WidthAssumption DEF BorrowStep
<1>9. ASSUME NEW i \in 1..Width
      PROVE  c[i] = IF addr[i] - Offset[i] - c[i + 1] < 0 THEN 1 ELSE 0
  <2>1. i \in 1..(Width + 1) /\ ~(i > Width)
    BY WidthAssumption
  <2> QED BY <1>6, <2>1 DEF BorrowStep
<1> QED BY <1>7, <1>8, <1>9

\* One byte of the alias is undone, given the carry into it.
LEMMA ByteIsUndone ==
  ASSUME NEW a \in Nat, a < Base, NEW o \in Nat, NEW z \in Nat,
         NEW d \in {0, 1}, NEW e \in {0, 1},
         a + o + e = z + (IF d = 1 THEN Base ELSE 0)
  PROVE  /\ (IF z - o - e < 0 THEN 1 ELSE 0) = d
         /\ (z - o - e) % Base = a
<1>0. Base \in Nat \ {0}
  BY WidthAssumption
<1> DEFINE x == z - o - e
<1>1. CASE d = 1
  <2>1. x = a - Base
    BY <1>0, <1>1
  <2>2. x < 0
    BY <1>0, <2>1
  <2>3. x % Base = a
    <3> HIDE DEF x
    <3>1. (a - Base) % Base = a
      BY <1>0
    <3> QED BY Zenon, <2>1, <3>1
  <2> HIDE DEF x
  <2>4. (IF x < 0 THEN 1 ELSE 0) = d /\ x % Base = a
    BY <1>1, <2>2, <2>3
  <2> QED BY <2>4 DEF x
<1>2. CASE d = 0
  <2>1. x = a
    BY <1>0, <1>2
  <2> HIDE DEF x
  <2>2. (IF x < 0 THEN 1 ELSE 0) = d /\ x % Base = a
    BY <1>0, <1>2, <2>1
  <2> QED BY <2>2 DEF x
<1> QED BY <1>1, <1>2

\* Undoing the alias gives the address back: each borrow is the carry it undoes.
LEMMA AliasUndone ==
  ASSUME NEW addr \in Bytes
  PROVE  UndoAlias(ApplyAlias(addr)) = addr
<1> DEFINE c == Carry(addr)
           s == ApplyAlias(addr)
           b == Borrow(s)
<1>1. /\ c[Width + 1] = 0
      /\ \A i \in 1..(Width + 1) : c[i] \in {0, 1}
  BY CarryIsComputed
<1>2. /\ s \in Bytes
      /\ \A i \in 1..Width :
           addr[i] + Offset[i] + c[i + 1] = s[i] + (IF c[i] = 1 THEN Base ELSE 0)
  BY AliasByte
<1> HIDE DEF s, c
<1>3. /\ b[Width + 1] = 0
      /\ \A i \in 1..Width :
           b[i] = IF s[i] - Offset[i] - b[i + 1] < 0 THEN 1 ELSE 0
  BY <1>2, BorrowIsComputed
<1> HIDE DEF b
<1> DEFINE Good == {i \in 1..(Width + 1) : b[i] = c[i]}
<1>4. ASSUME NEW i \in 1..Width
      PROVE  /\ (IF s[i] - Offset[i] - c[i + 1] < 0 THEN 1 ELSE 0) = c[i]
             /\ (s[i] - Offset[i] - c[i + 1]) % Base = addr[i]
  <2> DEFINE a == addr[i]
             o == Offset[i]
             z == s[i]
             d == c[i]
             e == c[i + 1]
  <2>1. i \in 1..(Width + 1) /\ i + 1 \in 1..(Width + 1)
    BY WidthAssumption
  <2>2. /\ a \in Nat /\ a < Base /\ o \in Nat /\ z \in Nat
        /\ d \in {0, 1} /\ e \in {0, 1}
        /\ a + o + e = z + (IF d = 1 THEN Base ELSE 0)
    BY <1>1, <1>2, <2>1, ByteIsSmall
  <2> HIDE DEF a, o, z, d, e
  <2>3. (IF z - o - e < 0 THEN 1 ELSE 0) = d /\ (z - o - e) % Base = a
    BY <2>2, ByteIsUndone
  <2> QED BY Zenon, <2>3 DEF a, o, z, d, e
<1>5. Width + 1 \in Good /\ Width + 1 \in Nat /\ (Width + 1) - 1 = Width
  BY <1>1, <1>3, WidthAssumption
<1>6. ASSUME NEW i \in 1..Width, i + 1 \in Good PROVE i \in Good
  <2>1. b[i + 1] = c[i + 1] /\ i \in 1..(Width + 1)
    BY <1>6, WidthAssumption
  <2>2. b[i] = IF s[i] - Offset[i] - c[i + 1] < 0 THEN 1 ELSE 0
    BY <1>3, <2>1
  <2>3. b[i] = c[i]
    BY Zenon, <1>4, <2>2
  <2> QED BY <2>1, <2>3
<1>7. \A i \in 1..(Width + 1) : i \in Good
  <2> HIDE DEF Good
  <2> QED BY <1>5, <1>6, PlaceInductionDown
<1>8. ASSUME NEW i \in 1..Width PROVE UndoAlias(s)[i] = addr[i]
  <2>1. i + 1 \in 1..(Width + 1)
    BY WidthAssumption
  <2>2. b[i + 1] = c[i + 1]
    BY <1>7, <2>1
  <2>3. UndoAlias(s)[i] = (s[i] - Offset[i] - b[i + 1]) % Base
    BY DEF UndoAlias, b
  <2> QED BY Zenon, <1>4, <2>2, <2>3
<1>9. addr = [i \in 1..Width |-> addr[i]] /\ DOMAIN addr = 1..Width
  BY DEF Bytes
<1>10. UndoAlias(s) = [i \in 1..Width |-> UndoAlias(s)[i]]
  BY DEF UndoAlias
<1>11. UndoAlias(s) = addr
  BY <1>8, <1>9, <1>10
<1> QED BY <1>11 DEF s

-----------------------------------------------------------------------------
(* The answers of ArbSys.                                                  *)

Alias == "mapL1SenderContractAddressToL2Alias"

\* The bytes that Run takes for the number of an address are an address of it.
LEMMA AddressOfNumber ==
  ASSUME NEW arg \in Args(Alias)
  PROVE  \E addr \in Bytes :
           /\ Number(addr) = arg
           /\ \A gas, found, current, call, chain :
                Run(Alias, arg, gas, found, current, call, chain)
                  = Output(0, Number(ApplyAlias(addr)))
<1> DEFINE addr == CHOOSE x \in Bytes : Number(x) = arg
<1>1. \E x \in Bytes : Number(x) = arg
  BY DEF Args, Alias
<1>2. addr \in Bytes /\ Number(addr) = arg
  BY Zenon, <1>1
<1>3. \A gas, found, current, call, chain :
        Run(Alias, arg, gas, found, current, call, chain)
          = Output(0, Number(ApplyAlias(addr)))
  BY DEF Run, Alias, Unanswered
<1> HIDE DEF addr
<1> QED BY <1>2, <1>3

\* Every answer is a status with a number.
LEMMA AnswersAreTyped ==
  ASSUME NEW sel \in Selector, NEW arg \in Args(sel), NEW gas \in GasLimits,
         NEW found \in BOOLEAN,
         NEW current \in 0..MaxBlock, NEW call \in 0..MaxDepth
  PROVE  LET a == Run(sel, arg, gas, found, current, call, ChainId)
         IN  a.ok \in BOOLEAN /\ a.value \in Nat
<1>1. gas \in Nat /\ current \in Nat /\ call \in Nat /\ ChainId \in Nat
  BY BlockAssumption, ConfigAssumption
<1>2. CASE sel = Alias
  <2>1. arg \in Args(Alias)
    BY <1>2
  <2>2. PICK addr \in Bytes :
          Run(Alias, arg, gas, found, current, call, ChainId)
            = Output(0, Number(ApplyAlias(addr)))
    BY <2>1, AddressOfNumber
  <2>3. ApplyAlias(addr) \in Bytes
    BY AliasByte
  <2>4. Number(ApplyAlias(addr)) \in Nat
    BY <2>3, NumberFits
  <2> QED BY <1>2, <2>2, <2>4 DEF Output
<1>3. CASE sel = "arbBlockHash"
  <2>1. arg \in Nat
    BY <1>3, BlockAssumption DEF Args
  <2>2. Run(sel, arg, gas, found, current, call, ChainId)
          = ArbBlockHash(current, arg, gas, found)
    BY <1>3 DEF Run, Unanswered
  <2> QED BY <1>1, <2>1, <2>2, WindowAssumption
          DEF ArbBlockHash, Output, Error, ContextHash, HashOf, ZeroHash
<1>4. CASE sel = "arbBlockNumber"
  BY <1>1, <1>4 DEF Run, Output, Unanswered
<1>5. CASE sel = "arbChainID"
  BY <1>1, <1>5 DEF Run, Output, Unanswered
<1>6. CASE sel \in {"arbOSVersion", "getStorageGasAvailable"}
  BY <1>1, <1>6 DEF Run, Output, Unanswered
<1>7. CASE sel = "isTopLevelCall"
  BY <1>1, <1>7 DEF Run, Output, Unanswered, IsTopLevelCall
<1>8. CASE sel \in Unanswered
  BY <1>8 DEF Run, Error, Unanswered
<1> QED BY <1>2, <1>3, <1>4, <1>5, <1>6, <1>7, <1>8 DEF Selector, Alias

\* The answer about a hash is that of the window.
LEMMA HashAnswers ==
  ASSUME NEW arg \in Args("arbBlockHash"), NEW gas \in GasLimits,
         NEW found \in BOOLEAN, NEW current \in 0..MaxBlock, NEW call
  PROVE  LET a == Run("arbBlockHash", arg, gas, found, current, call, ChainId)
         IN  /\ a.ok <=> /\ gas >= HashGas
                         /\ arg \in (current - Window)..(current - 1)
             /\ a.ok => /\ a.gas <= gas
                        /\ a.value = IF found THEN HashOf(arg) ELSE ZeroHash
<1>1. /\ gas \in Nat /\ current \in Nat /\ arg \in Nat
      /\ Window \in Nat /\ HashGas \in Nat
  BY BlockAssumption, ConfigAssumption, WindowAssumption DEF Args
<1>2. Run("arbBlockHash", arg, gas, found, current, call, ChainId)
        = ArbBlockHash(current, arg, gas, found)
  BY DEF Run, Unanswered
<1>3. CASE gas < HashGas \/ Outside(current, arg)
  <2>1. ~(gas >= HashGas /\ arg \in (current - Window)..(current - 1))
    BY <1>1, <1>3 DEF Outside
  <2> QED BY <1>2, <1>3, <2>1 DEF ArbBlockHash, Error
<1>4. CASE ~(gas < HashGas \/ Outside(current, arg))
  <2>1. gas >= HashGas /\ arg \in (current - Window)..(current - 1)
    BY <1>1, <1>4 DEF Outside
  <2> QED BY <1>1, <1>2, <1>4, <2>1 DEF ArbBlockHash, Output, ContextHash
<1> QED BY <1>3, <1>4

\* The answer about an alias is the sum, and can be undone.
LEMMA AliasAnswers ==
  ASSUME NEW arg \in Args(Alias), NEW gas, NEW found, NEW current, NEW call
  PROVE  LET a == Run(Alias, arg, gas, found, current, call, ChainId)
         IN  /\ a.value < AddressCount
             /\ a.value = (arg + Number(Offset)) % AddressCount
             /\ \E x \in Bytes :
                  Number(x) = a.value /\ Number(UndoAlias(x)) = arg
<1>1. PICK addr \in Bytes :
        /\ Number(addr) = arg
        /\ \A g, f, n, d, chain :
             Run(Alias, arg, g, f, n, d, chain) = Output(0, Number(ApplyAlias(addr)))
  BY AddressOfNumber
<1> DEFINE a == Run(Alias, arg, gas, found, current, call, ChainId)
<1>2. a = Output(0, Number(ApplyAlias(addr)))
  BY <1>1
<1> HIDE DEF a
<1>3. a.value = Number(ApplyAlias(addr))
  BY <1>2 DEF Output
<1>4. ApplyAlias(addr) \in Bytes /\ UndoAlias(ApplyAlias(addr)) = addr
  BY AliasByte, AliasUndone
<1>5. a.value < AddressCount
  BY <1>3, <1>4, NumberFits
<1>6. a.value = (arg + Number(Offset)) % AddressCount
  BY Zenon, <1>1, <1>3, AliasIsSum
<1>7. \E x \in Bytes : Number(x) = a.value /\ Number(UndoAlias(x)) = arg
  <2>1. Number(UndoAlias(ApplyAlias(addr))) = arg
    BY Zenon, <1>1, <1>4
  <2> QED BY Zenon, <1>3, <1>4, <2>1
<1> QED BY <1>5, <1>6, <1>7 DEF a

-----------------------------------------------------------------------------
(* The life of an EVM.                                                     *)

\* The set in use is that of the spec in use, and within a transaction that is the
\* one configured.  Its addresses are warm, but for precompiles that were put in
\* place over a warm journal; between transactions there may be none yet.
SetInv ==
  /\ cfg \in Spec3
  /\ evm.spec \in Spec3
  /\ evm = NewWithSpec(evm.spec)
  /\ depth = 0 => warm \in {NothingWarm, evm.set} \/ replaced
  /\ depth > 0 => evm.spec = cfg /\ (warm = evm.set \/ replaced)

\* The answer in hand is that of Run to what was asked, at the block and the depth
\* of the call that asked, which are still those of the state.
AnswerInv ==
  /\ block \in 0..MaxBlock
  /\ depth \in 0..MaxDepth
  /\ \/ asked = NotAsked /\ answer = Error
     \/ /\ depth > 0
        /\ asked.sel \in Selector
        /\ asked.arg \in Args(asked.sel)
        /\ asked.gas \in GasLimits
        /\ asked.found \in BOOLEAN
        /\ answer = Run(asked.sel, asked.arg, asked.gas, asked.found,
                        block, depth, ChainId)

\* Precompiles put in place leave nothing warm, or are noted to be.
LEMMA PutKeeps ==
  ASSUME NEW spec \in Spec3, SetInv, PutInPlace(spec)
  PROVE  SetInv'
<1>1. evm'.spec = spec /\ evm' = NewWithSpec(evm'.spec)
  BY DEF PutInPlace, NewWithSpec
<1>2. warm' = NothingWarm \/ replaced'
  BY Zenon DEF PutInPlace
<1>3. cfg' = cfg /\ depth' = depth /\ depth = 0
  BY DEF PutInPlace
<1> QED BY <1>1, <1>2, <1>3 DEF SetInv

\* The set in use and the warm one are kept in step by the handler.
LEMMA SetInvInductive == Spec => []SetInv
<1>1. Init => SetInv
  <2>1. ASSUME Init PROVE evm.spec = cfg /\ evm = NewWithSpec(evm.spec)
    BY <2>1 DEF Init, NewWithSpec
  <2>2. ASSUME Init PROVE warm = NothingWarm \/ replaced
    BY Zenon, <2>2 DEF Init
  <2>3. ASSUME Init PROVE cfg \in Spec3 /\ depth = 0
    BY <2>3 DEF Init
  <2> QED BY <2>1, <2>2, <2>3 DEF SetInv
<1>2. SetInv /\ [Next]_vars => SetInv'
  <2> SUFFICES ASSUME SetInv, [Next]_vars PROVE SetInv'
    OBVIOUS
  <2>1. ASSUME NEW spec \in Spec3, WithPrecompiles(spec) PROVE SetInv'
    BY <2>1, PutKeeps DEF WithPrecompiles
  <2>2. ASSUME NEW spec \in Spec3, SetCfg(spec) PROVE SetInv'
    BY <2>2 DEF SetInv, SetCfg
  <2>3. CASE NextBlock
    BY <2>3 DEF SetInv, NextBlock
  <2>4. CASE BeginTx
    <3>1. /\ evm' = NewWithSpec(cfg) /\ cfg' = cfg /\ depth' = 1
      BY <2>4 DEF BeginTx, SetSpec, SetInv
    <3>2. evm'.spec = cfg
      BY <3>1 DEF NewWithSpec
    <3>3. warm' = evm'.set \/ replaced'
      <4>1. CASE SetSpecChanges(evm, cfg) \/ warm = NothingWarm
        BY <2>4, <4>1 DEF BeginTx
      <4>2. CASE ~(SetSpecChanges(evm, cfg) \/ warm = NothingWarm)
        BY <2>4, <4>2 DEF BeginTx, SetSpecChanges, SetSpec, SetInv
      <4> QED BY <4>1, <4>2
    <3> QED BY <3>1, <3>2, <3>3 DEF SetInv
  <2>9. CASE NewEvm
    BY <2>9, PutKeeps DEF NewEvm, SetInv
  <2>5. CASE EnterCall
    BY <2>5, BlockAssumption DEF SetInv, EnterCall, Frame
  <2>6. CASE LeaveCall
    BY <2>6 DEF SetInv, LeaveCall, Frame
  <2>7. ASSUME NEW sel \in Selector, NEW gas \in GasLimits, NEW arg \in Args(sel),
               NEW found \in Finds(sel), CallArbSys(sel, arg, gas, found)
        PROVE  SetInv'
    BY <2>7 DEF SetInv, CallArbSys
  <2>8. CASE UNCHANGED vars
    BY <2>8 DEF SetInv, vars
  <2> QED BY <2>1, <2>2, <2>3, <2>4, <2>5, <2>6, <2>7, <2>8, <2>9 DEF Next
<1> QED BY <1>1, <1>2, PTL DEF Spec

\* No answer outlives the call it was given to, nor the block.
LEMMA AnswerInvInductive == Spec => []AnswerInv
<1>1. Init => AnswerInv
  BY BlockAssumption DEF Init, AnswerInv
<1>2. AnswerInv /\ [Next]_vars => AnswerInv'
  <2> SUFFICES ASSUME AnswerInv, [Next]_vars PROVE AnswerInv'
    OBVIOUS
  <2>0. MaxBlock \in Nat /\ MaxDepth \in Nat \ {0} /\ block \in Nat /\ depth \in Nat
    BY BlockAssumption DEF AnswerInv
  <2>1. ASSUME NEW spec \in Spec3, WithPrecompiles(spec) PROVE AnswerInv'
    BY <2>1 DEF AnswerInv, WithPrecompiles, PutInPlace
  <2>2. ASSUME NEW spec \in Spec3, SetCfg(spec) PROVE AnswerInv'
    BY <2>2 DEF AnswerInv, SetCfg
  <2>3. CASE NextBlock
    BY <2>0, <2>3 DEF AnswerInv, NextBlock
  <2>4. CASE BeginTx
    BY <2>0, <2>4 DEF AnswerInv, BeginTx
  <2>9. CASE NewEvm
    BY <2>9 DEF AnswerInv, NewEvm, PutInPlace
  <2>5. CASE EnterCall
    BY <2>0, <2>5 DEF AnswerInv, EnterCall, Frame
  <2>6. CASE LeaveCall
    BY <2>0, <2>6 DEF AnswerInv, LeaveCall, Frame
  <2>7. ASSUME NEW sel \in Selector, NEW gas \in GasLimits, NEW arg \in Args(sel),
               NEW found \in Finds(sel), CallArbSys(sel, arg, gas, found)
        PROVE  AnswerInv'
    <3>1. /\ depth > 0
          /\ asked' = [sel |-> sel, arg |-> arg, gas |-> gas, found |-> found]
          /\ answer' = Run(sel, arg, gas, found, block, depth, ChainId)
          /\ block' = block /\ depth' = depth
      BY <2>7 DEF CallArbSys
    <3>2. /\ asked'.sel = sel /\ asked'.arg = arg
          /\ asked'.gas = gas /\ asked'.found = found
      BY <3>1
    <3>3. block \in 0..MaxBlock /\ depth \in 0..MaxDepth
      BY DEF AnswerInv
    <3>4. found \in BOOLEAN
      BY DEF Finds
    <3> QED BY <3>1, <3>2, <3>3, <3>4 DEF AnswerInv
  <2>8. CASE UNCHANGED vars
    BY <2>8 DEF AnswerInv, vars
  <2> QED BY <2>1, <2>2, <2>3, <2>4, <2>5, <2>6, <2>7, <2>8, <2>9 DEF Next
<1> QED BY <1>1, <1>2, PTL DEF Spec

-----------------------------------------------------------------------------
(* Theorems.                                                               *)

\* What a state holds is of its type, whatever was called, and an alias is below
\* the number of addresses.
THEOREM EvmTypeCorrect == Spec => []TypeOK
<1>1. SetInv /\ AnswerInv => TypeOK
  <2> SUFFICES ASSUME SetInv, AnswerInv PROVE TypeOK
    OBVIOUS
  <2>1. CASE asked = NotAsked /\ answer = Error
    BY <2>1 DEF SetInv, AnswerInv, TypeOK, NotAsked, Error
  <2>2. CASE /\ asked.sel \in Selector
             /\ asked.arg \in Args(asked.sel)
             /\ asked.gas \in GasLimits
             /\ asked.found \in BOOLEAN
             /\ answer = Run(asked.sel, asked.arg, asked.gas, asked.found,
                             block, depth, ChainId)
    <3>1. block \in 0..MaxBlock /\ depth \in 0..MaxDepth
      BY DEF AnswerInv
    <3>2. answer.ok \in BOOLEAN /\ answer.value \in Nat
      BY <2>2, <3>1, AnswersAreTyped
    <3>3. asked.sel = Alias => answer.value < AddressCount
      BY <2>2, AliasAnswers
    <3> QED BY <2>2, <3>1, <3>2, <3>3 DEF TypeOK, SetInv, Alias
  <2> QED BY <2>1, <2>2 DEF AnswerInv
<1> QED BY <1>1, SetInvInductive, AnswerInvInductive, PTL

\* A transaction runs with the precompiles of its configuration, and exactly those
\* are warm, unless some were put in place over a warm journal
\* (ArbPrecompiles::set_spec and what it returns).
THEOREM PrecompilesAreThoseConfigured == Spec => []PrecompilesFollowSpec
<1>1. SetInv => PrecompilesFollowSpec
  BY DEF SetInv, PrecompilesFollowSpec
<1> QED BY <1>1, SetInvInductive, PTL

\* The hashes given out are those of the last Window blocks that the context finds,
\* and a zero hash for one it does not find (arb_block_hash).
THEOREM HashesAreOfTheWindow == Spec => []HashesOfWindow
<1>1. AnswerInv => HashesOfWindow
  <2> SUFFICES ASSUME AnswerInv, asked.sel = "arbBlockHash" PROVE HashesOfWindow
    BY DEF HashesOfWindow
  <2>1. /\ asked.arg \in Args("arbBlockHash") /\ asked.gas \in GasLimits
        /\ block \in 0..MaxBlock /\ asked.found \in BOOLEAN
        /\ answer = Run("arbBlockHash", asked.arg, asked.gas, asked.found,
                        block, depth, ChainId)
    BY DEF AnswerInv, NotAsked
  <2> QED BY <2>1, HashAnswers DEF HashesOfWindow
<1> QED BY <1>1, AnswerInvInductive, PTL

\* The alias is the sum modulo the number of addresses, and undoing it byte by byte
\* gives the address back (apply_l1_to_l2_alias, undo_l1_to_l2_alias).
THEOREM AliasesAreUndone == Spec => []AliasIsUndone
<1>1. AnswerInv => AliasIsUndone
  <2> SUFFICES ASSUME AnswerInv, asked.sel = Alias PROVE AliasIsUndone
    BY DEF AliasIsUndone, Alias
  <2>1. /\ asked.arg \in Args(Alias)
        /\ answer = Run(Alias, asked.arg, asked.gas, asked.found,
                        block, depth, ChainId)
    BY DEF AnswerInv, NotAsked, Alias
  <2> QED BY <2>1, AliasAnswers DEF AliasIsUndone
<1> QED BY <1>1, AnswerInvInductive, PTL
=============================================================================
