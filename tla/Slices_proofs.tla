---------------------------- MODULE Slices_proofs ----------------------------
(***************************************************************************)
(* Both ways of dealing out 0 .. n-1 give every index to exactly one       *)
(* member, for every length and every number of members.                   *)
(***************************************************************************)
EXTENDS Slices, TLAPS

\* What integer division gives.
LEMMA Division ==
  ASSUME NEW n \in Nat, NEW d \in Nat, d > 0
  PROVE  /\ n \div d \in Nat /\ (n % d) \in 0 .. d - 1
         /\ n = d * (n \div d) + (n % d)
OBVIOUS

\* Products are monotone, and grow by at least one factor.
LEMMA ProductGrows ==
  ASSUME NEW a \in Nat, NEW b \in Nat, NEW q \in Nat, a < b
  PROVE  a * q + q <= b * q
OBVIOUS

LEMMA ProductIsNat ==
  ASSUME NEW a \in Nat, NEW b \in Nat
  PROVE  a * b \in Nat
OBVIOUS
-----------------------------------------------------------------------------
(* The static slices of the executors                                      *)

\* The slices lie one behind the other from 0 to n.
LEMMA SliceBounds ==
  ASSUME NEW n \in Nat, NEW threads \in Nat, threads > 0, NEW t \in 0 .. threads - 1
  PROVE  /\ Begin(t, n, threads) \in Nat /\ End(t, n, threads) \in Nat
         /\ Begin(t, n, threads) <= End(t, n, threads)
         /\ End(t, n, threads) <= n
<1> DEFINE q == n \div threads
           r == n % threads
<1>1. q \in Nat /\ r \in 0 .. threads - 1 /\ n = threads * q + r
  BY Division
<1>2. t * q \in Nat /\ t * q + q <= threads * q
  BY <1>1, ProductGrows, ProductIsNat
<1> HIDE DEF q, r
<1>3. threads * q \in Nat
  BY <1>1, ProductIsNat
<1>4. QED
  BY <1>1, <1>2, <1>3 DEF Begin, End, q, r

\* The slice of a later member starts where that of an earlier one has ended.
LEMMA SlicesOrdered ==
  ASSUME NEW n \in Nat, NEW threads \in Nat, threads > 0,
         NEW t \in 0 .. threads - 1, NEW u \in 0 .. threads - 1, t < u
  PROVE  End(t, n, threads) <= Begin(u, n, threads)
<1> DEFINE q == n \div threads
           r == n % threads
<1>1. q \in Nat /\ r \in 0 .. threads - 1
  BY Division
<1>2. t * q \in Nat /\ u * q \in Nat /\ t * q + q <= u * q
  BY <1>1, ProductGrows, ProductIsNat
<1> HIDE DEF q, r
<1>3. QED
  BY <1>1, <1>2 DEF Begin, End, q, r

\* No index is in two slices: the static slices of the bridge's executors
\* (spin_execute_slice, framework_team_exchange) run no task twice.
THEOREM SlicesDisjoint ==
  ASSUME NEW n \in Nat, NEW threads \in Nat, threads > 0,
         NEW t \in 0 .. threads - 1, NEW u \in 0 .. threads - 1,
         NEW k \in Slice(t, n, threads), k \in Slice(u, n, threads)
  PROVE  t = u
<1>1. /\ Begin(t, n, threads) \in Nat /\ End(t, n, threads) \in Nat
      /\ Begin(u, n, threads) \in Nat /\ End(u, n, threads) \in Nat
  BY SliceBounds
<1>2. /\ k \in Int
      /\ Begin(t, n, threads) <= k /\ k < End(t, n, threads)
      /\ Begin(u, n, threads) <= k /\ k < End(u, n, threads)
  BY <1>1 DEF Slice
<1>3. t < u => FALSE
  BY <1>1, <1>2, SlicesOrdered
<1>4. u < t => FALSE
  BY <1>1, <1>2, SlicesOrdered
<1>5. QED
  BY <1>3, <1>4

\* Every index is in a slice: they leave no task out.
THEOREM SlicesCover ==
  ASSUME NEW n \in Nat, NEW threads \in Nat, threads > 0, NEW k \in 0 .. n - 1
  PROVE  \E t \in 0 .. threads - 1 : k \in Slice(t, n, threads)
<1> DEFINE q == n \div threads
           r == n % threads
<1>1. q \in Nat /\ r \in 0 .. threads - 1 /\ n = threads * q + r
  BY Division
<1> HIDE DEF q, r
<1>2. r * (q + 1) \in Nat /\ r * (q + 1) = r * q + r /\ r * q \in Nat /\ threads * q \in Nat
  BY <1>1, ProductIsNat
<1>3. CASE k < r * (q + 1)
  <2> DEFINE t == k \div (q + 1)
             s == k % (q + 1)
  <2>1. t \in Nat /\ s \in 0 .. q /\ k = (q + 1) * t + s
    <3>1. q + 1 \in Nat /\ q + 1 > 0 /\ k \in Nat
      BY <1>1
    <3>2. QED
      BY <1>1, <3>1, Division
  <2> HIDE DEF t, s
  <2>2. t < r
    <3>1. SUFFICES ASSUME r <= t PROVE FALSE
      BY <1>1, <2>1
    <3>2. r * (q + 1) <= t * (q + 1)
      BY <1>1, <2>1, <3>1
    <3>3. QED
      BY <1>1, <1>2, <1>3, <2>1, <3>2
  <2>3. (q + 1) * t = t * q + t /\ t * q \in Nat
    BY <1>1, <2>1
  <2>4. k \in Slice(t, n, threads)
    BY <1>1, <2>1, <2>2, <2>3 DEF Slice, Begin, End, q, r
  <2>5. QED
    BY <1>1, <2>1, <2>2, <2>4
<1>4. CASE k >= r * (q + 1)
  <2> DEFINE j == k - r * (q + 1)
  <2>1. j \in Nat /\ threads * q = (threads - r) * q + r * q /\ (threads - r) * q \in Nat
    BY <1>1, <1>2, <1>4, ProductIsNat
  <2>2. q > 0 /\ j < (threads - r) * q
    <3>1. j < (threads - r) * q
      BY <1>1, <1>2, <1>4, <2>1
    <3>2. q # 0
      BY <1>1, <2>1, <3>1
    <3>3. QED
      BY <1>1, <3>1, <3>2
  <2> DEFINE i == j \div q
             s == j % q
  <2> HIDE DEF j
  <2>3. i \in Nat /\ s \in 0 .. q - 1 /\ j = q * i + s
    BY <1>1, <2>1, <2>2, Division
  <2> HIDE DEF i, s
  <2>4. i < threads - r
    <3>1. SUFFICES ASSUME threads - r <= i PROVE FALSE
      BY <1>1, <2>3
    <3>2. (threads - r) * q <= i * q
      BY <1>1, <2>3, <3>1
    <3>3. QED
      BY <1>1, <2>2, <2>3, <2>1, <3>2
  <2>5. (r + i) * q = r * q + q * i /\ q * i \in Nat
    BY <1>1, <2>3
  <2>6. k = r * q + r + q * i + s
    BY <1>1, <1>2, <2>1, <2>3, <2>5 DEF j
  <2>7. r + i \in 0 .. threads - 1 /\ ~(r + i < r)
    BY <1>1, <2>3, <2>4
  <2>8. k \in Slice(r + i, n, threads)
    BY <1>1, <1>2, <2>3, <2>5, <2>6, <2>7 DEF Slice, Begin, End, q, r
  <2>9. QED
    BY <2>7, <2>8
<1>5. QED
  BY <1>2, <1>3, <1>4
-----------------------------------------------------------------------------
(* The proportional shares of the grid kernels                             *)

\* The shares lie one behind the other from 0 to n.
LEMMA ShareBounds ==
  ASSUME NEW n \in Nat, NEW parts \in Nat, parts > 0
  PROVE  /\ \A i \in Nat : ShareFrom(i, n, parts) \in Nat
         /\ \A i, j \in Nat : i <= j => ShareFrom(i, n, parts) <= ShareFrom(j, n, parts)
         /\ ShareFrom(0, n, parts) = 0 /\ ShareFrom(parts, n, parts) = n
<1>1. ASSUME NEW i \in Nat PROVE ShareFrom(i, n, parts) \in Nat
  BY ProductIsNat, Division DEF ShareFrom
<1>2. ASSUME NEW i \in Nat, NEW j \in Nat, i <= j
      PROVE  ShareFrom(i, n, parts) <= ShareFrom(j, n, parts)
  <2> DEFINE x == n * i
             y == n * j
  <2>1. x \in Nat /\ y \in Nat /\ x <= y
    BY <1>2, ProductIsNat
  <2> HIDE DEF x, y
  <2>2. x \div parts <= y \div parts
    <3> DEFINE a == x \div parts
               b == y \div parts
    <3>1. a \in Nat /\ (x % parts) \in 0 .. parts - 1 /\ x = parts * a + (x % parts)
      BY <2>1, Division
    <3>2. b \in Nat /\ (y % parts) \in 0 .. parts - 1 /\ y = parts * b + (y % parts)
      BY <2>1, Division
    <3> HIDE DEF a, b
    <3>3. b < a => b * parts + parts <= a * parts
      BY <3>1, <3>2, ProductGrows
    <3>4. ~(b < a)
      BY <2>1, <3>1, <3>2, <3>3
    <3>5. QED
      BY <3>1, <3>2, <3>4 DEF a, b
  <2>3. QED
    BY <2>2 DEF ShareFrom, x, y
<1>3. ShareFrom(0, n, parts) = 0
  BY DEF ShareFrom
<1>4. ShareFrom(parts, n, parts) = n
  <2>1. n * parts \in Nat
    BY ProductIsNat
  <2>2. (n * parts) \div parts = n
    BY <2>1
  <2>3. QED
    BY <2>2 DEF ShareFrom
<1>5. QED
  BY <1>1, <1>2, <1>3, <1>4

\* No index is in two shares: no panel is packed by two tasks of a grid kernel.
THEOREM SharesDisjoint ==
  ASSUME NEW n \in Nat, NEW parts \in Nat, parts > 0,
         NEW i \in Nat, NEW j \in Nat,
         NEW k \in Share(i, n, parts), k \in Share(j, n, parts)
  PROVE  i = j
<1>1. /\ ShareFrom(i, n, parts) \in Nat /\ ShareFrom(i + 1, n, parts) \in Nat
      /\ ShareFrom(j, n, parts) \in Nat /\ ShareFrom(j + 1, n, parts) \in Nat
  <2>1. i + 1 \in Nat /\ j + 1 \in Nat
    OBVIOUS
  <2>2. QED
    BY <2>1, ShareBounds
<1>2. /\ k \in Int
      /\ ShareFrom(i, n, parts) <= k /\ k < ShareFrom(i + 1, n, parts)
      /\ ShareFrom(j, n, parts) <= k /\ k < ShareFrom(j + 1, n, parts)
  BY <1>1 DEF Share
<1>3. i < j => FALSE
  <2>1. i < j => ShareFrom(i + 1, n, parts) <= ShareFrom(j, n, parts)
    <3>1. i + 1 \in Nat /\ (i < j => i + 1 <= j)
      OBVIOUS
    <3>2. QED
      BY <3>1, ShareBounds
  <2>2. QED
    BY <1>1, <1>2, <2>1
<1>4. j < i => FALSE
  <2>1. j < i => ShareFrom(j + 1, n, parts) <= ShareFrom(i, n, parts)
    <3>1. j + 1 \in Nat /\ (j < i => j + 1 <= i)
      OBVIOUS
    <3>2. QED
      BY <3>1, ShareBounds
  <2>2. QED
    BY <1>1, <1>2, <2>1
<1>5. QED
  BY <1>3, <1>4

\* Every index is in a share, and a share holds indices only.
THEOREM SharesCover ==
  ASSUME NEW n \in Nat, NEW parts \in Nat, parts > 0
  PROVE  /\ \A k \in 0 .. n - 1 : \E i \in 0 .. parts - 1 : k \in Share(i, n, parts)
         /\ \A i \in 0 .. parts - 1 : Share(i, n, parts) \subseteq 0 .. n - 1
<1>1. ASSUME NEW k \in 0 .. n - 1
      PROVE  \E i \in 0 .. parts - 1 : k \in Share(i, n, parts)
  <2> DEFINE x == parts * (k + 1) - 1
             i == x \div n
             s == x % n
  <2>1. parts * (k + 1) \in Nat /\ parts <= parts * (k + 1) /\ parts * n \in Nat
        /\ parts * (k + 1) <= parts * n
    BY ProductIsNat
  <2>2. x \in Nat /\ n > 0
    BY <2>1
  <2> HIDE DEF x
  <2>3. i \in Nat /\ s \in 0 .. n - 1 /\ x = n * i + s
    BY <2>2, Division
  <2> HIDE DEF i, s
  <2>4. n * i \in Nat /\ n * (i + 1) = n * i + n
    BY <2>3, ProductIsNat
  <2>5. n * i < parts * (k + 1) /\ parts * (k + 1) <= n * (i + 1)
    BY <2>1, <2>2, <2>3, <2>4 DEF x
  <2>6. i < parts
    <3>1. parts <= i => n * parts <= n * i
      BY <2>3
    <3>2. n * parts = parts * n
      OBVIOUS
    <3>3. QED
      BY <2>1, <2>3, <2>4, <2>5, <3>1, <3>2
  <2>7. ShareFrom(i, n, parts) <= k
    <3> DEFINE y == n * i
               a == y \div parts
    <3>1. y \in Nat
      BY <2>4
    <3> HIDE DEF y
    <3>2. a \in Nat /\ (y % parts) \in 0 .. parts - 1 /\ y = parts * a + (y % parts)
      BY <3>1, Division
    <3> HIDE DEF a
    <3>3. k + 1 <= a => parts * (k + 1) <= parts * a
      BY <3>2
    <3>4. y < parts * (k + 1)
      BY <2>5 DEF y
    <3>5. ~(k + 1 <= a)
      BY <2>1, <3>1, <3>2, <3>3, <3>4, ProductIsNat
    <3>6. QED
      BY <3>2, <3>5 DEF ShareFrom, a, y
  <2>8. k < ShareFrom(i + 1, n, parts)
    <3> DEFINE y == n * (i + 1)
               a == y \div parts
    <3>1. y \in Nat
      BY <2>4, <2>3, ProductIsNat
    <3> HIDE DEF y
    <3>2. a \in Nat /\ (y % parts) \in 0 .. parts - 1 /\ y = parts * a + (y % parts)
      BY <3>1, Division
    <3> HIDE DEF a
    <3>3. a <= k => a * parts + parts <= (k + 1) * parts
      BY <3>2, ProductGrows
    <3>4. parts * (k + 1) <= y
      BY <2>5 DEF y
    <3>5. ~(a <= k)
      BY <2>1, <3>1, <3>2, <3>3, <3>4, ProductIsNat
    <3>6. QED
      BY <3>2, <3>5 DEF ShareFrom, a, y
  <2>9. ShareFrom(i, n, parts) \in Nat /\ ShareFrom(i + 1, n, parts) \in Nat
    <3>1. i + 1 \in Nat
      BY <2>3
    <3>2. QED
      BY <2>3, <3>1, ShareBounds
  <2>10. QED
    BY <2>3, <2>6, <2>7, <2>8, <2>9 DEF Share
<1>2. ASSUME NEW i \in 0 .. parts - 1
      PROVE  Share(i, n, parts) \subseteq 0 .. n - 1
  <2>1. /\ ShareFrom(i, n, parts) \in Nat /\ ShareFrom(i + 1, n, parts) \in Nat
        /\ ShareFrom(i + 1, n, parts) <= n
    <3>1. i \in Nat /\ i + 1 \in Nat /\ parts \in Nat /\ i + 1 <= parts
      OBVIOUS
    <3>2. ShareFrom(i, n, parts) \in Nat /\ ShareFrom(i + 1, n, parts) \in Nat
      BY <3>1, ShareBounds
    <3>3. ShareFrom(i + 1, n, parts) <= ShareFrom(parts, n, parts)
      BY <3>1, ShareBounds
    <3>4. QED
      BY <3>2, <3>3, ShareBounds
  <2>2. QED
    BY <2>1 DEF Share
<1>3. QED
  BY <1>1, <1>2
=============================================================================
