-------------------------- MODULE GridKernels_proofs --------------------------
(***************************************************************************)
(* The inductive invariant of GridKernels and what follows from it for     *)
(* every grid, every number of panels and every number of depth blocks.    *)
(***************************************************************************)
EXTENDS GridKernels, Slices_proofs, FiniteSetTheorems

RowThreads(r)    == {t \in Threads : Row(t) = r}
ColumnThreads(c) == {t \in Threads : Column(t) = c}

\* A barrier counter whose threads S have arrived arr[t] times each: nobody is
\* two arrivals ahead of anybody, and the counter is the sum of the arrivals.
Counted(S, arr, v) ==
  \E q \in Nat : /\ \A t \in S : arr[t] \in {q, q + 1}
                 /\ v = Cardinality(S) * q + Cardinality({t \in S : arr[t] = q + 1})

\* How often each thread has arrived at its counters, and how many barriers it
\* has seen complete.
SharedArrivals ==
  [t \in Threads |-> IF pc[t] \in {"touch", "pack", "arrive"} THEN 0 ELSE 1]
RowArrivals ==
  [t \in Threads |-> IF pc[t] \in {"touch", "pack", "arrive"} THEN Phase(t) - 1 ELSE Phase(t)]
ColumnArrivals ==
  [t \in Threads |-> IF pc[t] \in {"touch", "pack", "arrive", "arrive column"}
                     THEN Phase(t) - 1 ELSE Phase(t)]
SharedPassed(t) == IF pc[t] \in {"compute", "done"} THEN 1 ELSE 0
RowPassed(t) ==
  IF pc[t] \in {"await column", "compute", "done"} THEN Phase(t) ELSE Phase(t) - 1
ColumnPassed(t) ==
  IF pc[t] \in {"compute", "done"} THEN Phase(t) ELSE Phase(t) - 1

\* Which states of a thread each kernel has.
PlaceInv ==
  \A t \in Threads :
    /\ kernel = "shared" => /\ pc[t] \notin {"arrive column", "await row", "await column"}
                            /\ block[t] = 1 /\ (half[t] = 1 \/ pc[t] = "done")
    /\ kernel = "stream" => pc[t] # "await"
    /\ pc[t] \in {"touch", "pack", "compute"} => half[t] = 1

\* The counters are what the threads have added to them.
CountInv ==
  /\ kernel = "shared" => Counted(Threads, SharedArrivals, ready)
  /\ kernel = "stream" =>
       /\ \A r \in 0 .. Rows - 1 : Counted(RowThreads(r), RowArrivals, rowReady[r])
       /\ \A c \in 0 .. Columns - 1 :
            Counted(ColumnThreads(c), ColumnArrivals, columnReady[c])

\* Whoever has passed a barrier has passed it after everybody's arrival.
PassInv ==
  \A t, u \in Threads :
    /\ kernel = "shared" => SharedPassed(t) <= SharedArrivals[u]
    /\ kernel = "stream" /\ Row(t) = Row(u) => RowPassed(t) <= RowArrivals[u]
    /\ kernel = "stream" /\ Column(t) = Column(u) => ColumnPassed(t) <= ColumnArrivals[u]

\* A panel holds the last block that the thread it belongs to has packed.
Packed(t) == IF pc[t] \in {"touch", "pack"} THEN block[t] - 1 ELSE block[t]
PanelInv ==
  \A t \in Threads :
    /\ \A g \in APacks(t) : aVersion[g] = Packed(t)
    /\ \A g \in BPacks(t) : bVersion[Column(t)][g] = Packed(t)

IInv == TypeOK /\ PlaceInv /\ CountInv /\ PassInv /\ PanelInv
-----------------------------------------------------------------------------
(* The grid                                                                *)

\* The sizes of the grid are positive.
LEMMA GridFacts ==
  /\ Rows \in Nat /\ Rows > 0 /\ Columns \in Nat /\ Columns > 0
  /\ AGroups \in Nat /\ BGroups \in Nat /\ Blocks \in Nat /\ Blocks > 0
  /\ N \in Nat /\ N > 0 /\ N = Columns * Rows
<1>1. /\ Rows \in Nat /\ Rows > 0 /\ Columns \in Nat /\ Columns > 0
      /\ AGroups \in Nat /\ BGroups \in Nat /\ Blocks \in Nat /\ Blocks > 0
  BY GridAssumption
<1>2. Rows * Columns = Columns * Rows /\ Columns * Rows \in Nat /\ Rows <= Columns * Rows
  BY <1>1, ProductIsNat
<1>3. QED
  BY <1>1, <1>2 DEF N

\* A thread is in one row and one column of the grid.
LEMMA PlaceOfThread ==
  ASSUME NEW t \in Threads
  PROVE  /\ t \in Nat /\ Row(t) \in 0 .. Rows - 1 /\ Column(t) \in 0 .. Columns - 1
         /\ t = Rows * Column(t) + Row(t)
<1>1. t \in Nat /\ t < Columns * Rows
  BY GridFacts DEF Threads
<1>2. Row(t) \in 0 .. Rows - 1 /\ Column(t) \in Nat /\ t = Rows * Column(t) + Row(t)
  BY <1>1, GridFacts, Division DEF Row, Column
<1>3. Column(t) < Columns
  <2>1. Columns <= Column(t) => Columns * Rows <= Column(t) * Rows
    BY <1>2, GridFacts
  <2>2. Column(t) * Rows = Rows * Column(t) /\ Rows * Column(t) \in Nat
    BY <1>2, GridFacts, ProductIsNat
  <2>3. QED
    BY <1>1, <1>2, <2>1, <2>2, GridFacts
<1>4. QED
  BY <1>1, <1>2, <1>3, GridFacts

\* There is one thread at every place.
LEMMA ThreadOfPlace ==
  ASSUME NEW r \in 0 .. Rows - 1, NEW c \in 0 .. Columns - 1
  PROVE  /\ Rows * c + r \in Threads /\ Row(Rows * c + r) = r /\ Column(Rows * c + r) = c
         /\ \A u \in Threads : Row(u) = r /\ Column(u) = c => u = Rows * c + r
<1> DEFINE t == Rows * c + r
<1>1. /\ r \in Nat /\ r < Rows /\ c \in Nat /\ c < Columns
      /\ Rows * c \in Nat /\ c * Rows = Rows * c /\ t \in Nat
  BY GridFacts, ProductIsNat
<1>2. c * Rows + Rows <= Columns * Rows
  BY <1>1, GridFacts, ProductGrows
<1>3. t \in Threads
  BY <1>1, <1>2, GridFacts DEF Threads
<1> HIDE DEF t
<1>4. Row(t) \in 0 .. Rows - 1 /\ Column(t) \in Nat /\ t = Rows * Column(t) + Row(t)
  BY <1>3, PlaceOfThread, GridFacts
<1>5. Rows * Column(t) = Column(t) * Rows /\ Rows * Column(t) \in Nat
  BY <1>4, GridFacts, ProductIsNat
<1>6. c < Column(t) => FALSE
  <2>1. c < Column(t) => c * Rows + Rows <= Column(t) * Rows
    BY <1>1, <1>4, GridFacts, ProductGrows
  <2>2. QED
    BY <1>1, <1>4, <1>5, <2>1, GridFacts DEF t
<1>7. Column(t) < c => FALSE
  <2>1. Column(t) < c => Column(t) * Rows + Rows <= c * Rows
    BY <1>1, <1>4, GridFacts, ProductGrows
  <2>2. QED
    BY <1>1, <1>4, <1>5, <2>1, GridFacts DEF t
<1>8. Column(t) = c
  BY <1>1, <1>4, <1>6, <1>7
<1>9. Row(t) = r
  BY <1>1, <1>4, <1>8, GridFacts DEF t
<1>10. \A u \in Threads : Row(u) = r /\ Column(u) = c => u = t
  BY PlaceOfThread DEF t
<1>11. QED
  BY <1>3, <1>8, <1>9, <1>10 DEF t

\* A row has as many threads as there are columns, a column as many as there
\* are rows.
LEMMA GroupSizes ==
  /\ IsFiniteSet(Threads) /\ Cardinality(Threads) = N
  /\ \A r \in 0 .. Rows - 1 :
       IsFiniteSet(RowThreads(r)) /\ Cardinality(RowThreads(r)) = Columns
  /\ \A c \in 0 .. Columns - 1 :
       IsFiniteSet(ColumnThreads(c)) /\ Cardinality(ColumnThreads(c)) = Rows
<1>1. IsFiniteSet(Threads) /\ Cardinality(Threads) = N
  <2>1. 0 \in Int /\ N - 1 \in Int /\ ~(0 > N - 1) /\ N - 1 - 0 + 1 = N
    BY GridFacts
  <2>2. /\ IsFiniteSet(0 .. N - 1)
        /\ Cardinality(0 .. N - 1) = IF 0 > N - 1 THEN 0 ELSE N - 1 - 0 + 1
    BY ONLY <2>1, FS_Interval
  <2>3. QED
    BY ONLY <2>1, <2>2 DEF Threads
<1>2. ASSUME NEW r \in 0 .. Rows - 1
      PROVE  IsFiniteSet(RowThreads(r)) /\ Cardinality(RowThreads(r)) = Columns
  <2> DEFINE f == [c \in 0 .. Columns - 1 |-> Rows * c + r]
  <2>1. f \in [0 .. Columns - 1 -> RowThreads(r)]
    BY ThreadOfPlace DEF RowThreads
  <2>2. \A c, d \in 0 .. Columns - 1 : f[c] = f[d] => c = d
    BY ThreadOfPlace
  <2>3. \A t \in RowThreads(r) : \E c \in 0 .. Columns - 1 : f[c] = t
    <3>1. SUFFICES ASSUME NEW t \in RowThreads(r)
                   PROVE  f[Column(t)] = t /\ Column(t) \in 0 .. Columns - 1
      OBVIOUS
    <3>2. QED
      BY PlaceOfThread DEF RowThreads
  <2>4. ExistsBijection(0 .. Columns - 1, RowThreads(r))
    BY <2>1, <2>2, <2>3 DEF ExistsBijection, Bijection, Injection, Surjection, IsInjective
  <2>5. IsFiniteSet(0 .. Columns - 1) /\ Cardinality(0 .. Columns - 1) = Columns
    BY GridFacts, FS_Interval
  <2>6. QED
    BY <2>4, <2>5, FS_Bijection
<1>3. ASSUME NEW c \in 0 .. Columns - 1
      PROVE  IsFiniteSet(ColumnThreads(c)) /\ Cardinality(ColumnThreads(c)) = Rows
  <2> DEFINE f == [r \in 0 .. Rows - 1 |-> Rows * c + r]
  <2>1. f \in [0 .. Rows - 1 -> ColumnThreads(c)]
    BY ThreadOfPlace DEF ColumnThreads
  <2>2. \A r, s \in 0 .. Rows - 1 : f[r] = f[s] => r = s
    BY ThreadOfPlace
  <2>3. \A t \in ColumnThreads(c) : \E r \in 0 .. Rows - 1 : f[r] = t
    <3>1. SUFFICES ASSUME NEW t \in ColumnThreads(c)
                   PROVE  f[Row(t)] = t /\ Row(t) \in 0 .. Rows - 1
      OBVIOUS
    <3>2. QED
      BY PlaceOfThread DEF ColumnThreads
  <2>4. ExistsBijection(0 .. Rows - 1, ColumnThreads(c))
    BY <2>1, <2>2, <2>3 DEF ExistsBijection, Bijection, Injection, Surjection, IsInjective
  <2>5. IsFiniteSet(0 .. Rows - 1) /\ Cardinality(0 .. Rows - 1) = Rows
    BY GridFacts, FS_Interval
  <2>6. QED
    BY <2>4, <2>5, FS_Bijection
<1>4. QED
  BY <1>1, <1>2, <1>3
-----------------------------------------------------------------------------
(* The barrier counters                                                    *)

\* A counter that has not yet been added to.
LEMMA CountStarts ==
  ASSUME NEW S, NEW arr, IsFiniteSet(S), \A t \in S : arr[t] = 0
  PROVE  Counted(S, arr, 0)
<1>1. {t \in S : arr[t] = 0 + 1} = {}
  OBVIOUS
<1>2. Cardinality({t \in S : arr[t] = 0 + 1}) = 0
  BY <1>1, FS_EmptySet
<1>3. Cardinality(S) * 0 = 0
  BY FS_CardinalityType
<1>4. QED
  BY <1>2, <1>3 DEF Counted

\* An arrival of a thread that nobody is behind keeps the counter the sum.
LEMMA CountArrival ==
  ASSUME NEW S, IsFiniteSet(S), NEW arr, NEW next, NEW v, Counted(S, arr, v),
         NEW t \in S, \A u \in S : arr[t] <= arr[u],
         next[t] = arr[t] + 1, \A u \in S : u # t => next[u] = arr[u]
  PROVE  Counted(S, next, v + 1)
<1>1. PICK q \in Nat : /\ \A u \in S : arr[u] \in {q, q + 1}
                       /\ v = Cardinality(S) * q + Cardinality({u \in S : arr[u] = q + 1})
  BY DEF Counted
<1> DEFINE A == {u \in S : arr[u] = q + 1}
<1>2. IsFiniteSet(A) /\ Cardinality(A) \in Nat /\ Cardinality(S) \in Nat
      /\ Cardinality(S) * q \in Nat
  BY <1>1, FS_Subset, FS_CardinalityType, ProductIsNat
<1>3. CASE arr[t] = q
  <2>1. {u \in S : next[u] = q + 1} = A \union {t}
    BY <1>1, <1>3
  <2>2. t \notin A
    BY <1>1, <1>3
  <2>3. Cardinality({u \in S : next[u] = q + 1}) = Cardinality(A) + 1
    BY <1>2, <2>1, <2>2, FS_AddElement
  <2>4. \A u \in S : next[u] \in {q, q + 1}
    BY <1>1, <1>3
  <2>5. v + 1 = Cardinality(S) * q + Cardinality({u \in S : next[u] = q + 1})
    BY <1>1, <1>2, <2>3
  <2>6. QED
    BY <1>1, <2>4, <2>5 DEF Counted
<1>4. CASE arr[t] = q + 1
  <2>1. \A u \in S : arr[u] = q + 1
    BY <1>1, <1>4
  <2>2. A = S
    BY <2>1
  <2>3. {u \in S : next[u] = (q + 1) + 1} = {t}
    BY <1>1, <2>1
  <2>4. Cardinality({u \in S : next[u] = (q + 1) + 1}) = 1
    BY <2>3, FS_Singleton
  <2>5. v = Cardinality(S) * (q + 1)
    <3>1. Cardinality(S) * (q + 1) = Cardinality(S) * q + Cardinality(S)
      BY <1>1, <1>2
    <3>2. QED
      BY <1>1, <2>2, <3>1
  <2>6. \A u \in S : next[u] \in {q + 1, (q + 1) + 1}
    BY <1>1, <2>1
  <2>7. q + 1 \in Nat
    BY <1>1
  <2>8. QED
    BY <2>4, <2>5, <2>6, <2>7 DEF Counted
<1>5. QED
  BY <1>1, <1>3, <1>4

\* A counter that has reached its target has been added to by everybody.
LEMMA CountComplete ==
  ASSUME NEW S, IsFiniteSet(S), NEW arr, NEW v, Counted(S, arr, v),
         NEW p \in Nat, v >= Cardinality(S) * p, NEW t \in S
  PROVE  p <= arr[t]
<1>1. PICK q \in Nat : /\ \A u \in S : arr[u] \in {q, q + 1}
                       /\ v = Cardinality(S) * q + Cardinality({u \in S : arr[u] = q + 1})
  BY DEF Counted
<1> DEFINE A == {u \in S : arr[u] = q + 1}
           n == Cardinality(S)
           c == Cardinality(A)
<1>2. n \in Nat /\ c \in Nat /\ c <= n /\ (c = n => A = S)
  BY FS_Subset, FS_CardinalityType
<1>3. n > 0
  BY FS_EmptySet, FS_CardinalityType
<1>4. v = n * q + c /\ v >= n * p
  BY <1>1
<1> HIDE DEF n, c
<1>5. CASE p <= q
  BY <1>1, <1>5
<1>6. CASE p = q + 1
  <2>1. n * p = n * q + n /\ n * q \in Nat
    BY <1>1, <1>2, <1>6
  <2>2. c = n
    BY <1>2, <1>4, <2>1
  <2>3. t \in A
    BY <1>2, <2>2
  <2>4. QED
    BY <1>1, <1>6, <2>3
<1>7. CASE p > q + 1
  <2>1. (q + 1) * n + n <= p * n
    BY <1>1, <1>2, <1>7, ProductGrows
  <2>2. (q + 1) * n = n * q + n /\ p * n = n * p /\ n * q \in Nat /\ n * p \in Nat
    BY <1>1, <1>2
  <2>3. QED
    BY <1>2, <1>3, <1>4, <2>1, <2>2
<1>8. QED
  BY <1>1, <1>5, <1>6, <1>7

\* A counter is bounded by what its threads can add.
LEMMA CountBounded ==
  ASSUME NEW S, IsFiniteSet(S), S # {}, NEW arr, NEW v, Counted(S, arr, v),
         NEW m \in Nat, \A t \in S : arr[t] <= m
  PROVE  v \in Nat /\ v <= Cardinality(S) * m
<1>1. PICK q \in Nat : /\ \A u \in S : arr[u] \in {q, q + 1}
                       /\ v = Cardinality(S) * q + Cardinality({u \in S : arr[u] = q + 1})
  BY DEF Counted
<1> DEFINE A == {u \in S : arr[u] = q + 1}
           n == Cardinality(S)
           c == Cardinality(A)
<1>2. n \in Nat /\ c \in Nat /\ c <= n /\ (A = {} => c = 0)
  BY FS_Subset, FS_CardinalityType, FS_EmptySet
<1>3. v = n * q + c
  BY <1>1
<1>4. A # {} => q + 1 <= m
  OBVIOUS
<1>5. q <= m
  BY <1>1
<1>6. SUFFICES v \in Nat /\ v <= n * m
  OBVIOUS
<1> HIDE DEF n, c, A
<1>7. n * q \in Nat /\ n * m \in Nat
  BY <1>1, <1>2, ProductIsNat
<1>8. CASE q < m
  <2>1. q * n + n <= m * n
    BY <1>1, <1>2, <1>8, ProductGrows
  <2>2. q * n = n * q /\ m * n = n * m
    BY <1>1, <1>2
  <2>3. QED
    BY <1>2, <1>3, <1>7, <2>1, <2>2
<1>9. CASE q = m
  <2>1. c = 0
    BY <1>1, <1>2, <1>4, <1>9
  <2>2. QED
    BY <1>3, <1>7, <1>9, <2>1
<1>10. QED
  BY <1>1, <1>5, <1>8, <1>9
-----------------------------------------------------------------------------
(* Which thread packs a panel                                              *)

\* The shares of A that the rows read split the panels of A.
LEMMA RowShares ==
  ASSUME NEW r \in 0 .. Rows - 1
  PROVE  /\ ShareFrom(r, AGroups, Rows) \in Nat
         /\ ShareFrom(r + 1, AGroups, Rows) - ShareFrom(r, AGroups, Rows) \in Nat
         /\ Share(r, AGroups, Rows) \subseteq 0 .. AGroups - 1
<1>1. r \in Nat /\ r + 1 \in Nat /\ r <= r + 1
  BY GridFacts
<1>2. \A i \in Nat : ShareFrom(i, AGroups, Rows) \in Nat
  BY GridFacts, ShareBounds
<1>3. ShareFrom(r, AGroups, Rows) <= ShareFrom(r + 1, AGroups, Rows)
  BY <1>1, GridFacts, ShareBounds
<1>4. Share(r, AGroups, Rows) \subseteq 0 .. AGroups - 1
  BY GridFacts, SharesCover
<1>5. QED
  BY <1>1, <1>2, <1>3, <1>4

\* The panels of a row are dealt out to the row's threads: stream32_task.
LEMMA DealtInRow ==
  ASSUME NEW r \in 0 .. Rows - 1
  PROVE  LET first == ShareFrom(r, AGroups, Rows)
             count == ShareFrom(r + 1, AGroups, Rows) - first
             dealt(c) == {first + g : g \in Share(c, count, Columns)}
         IN  /\ \A c \in 0 .. Columns - 1 : dealt(c) \subseteq Share(r, AGroups, Rows)
             /\ \A g \in Share(r, AGroups, Rows) : \E c \in 0 .. Columns - 1 : g \in dealt(c)
             /\ \A c, d \in 0 .. Columns - 1 : \A g \in dealt(c) : g \in dealt(d) => c = d
<1> DEFINE first == ShareFrom(r, AGroups, Rows)
           count == ShareFrom(r + 1, AGroups, Rows) - first
           dealt(c) == {first + g : g \in Share(c, count, Columns)}
<1>1. first \in Nat /\ count \in Nat
  BY RowShares
<1>2. Share(r, AGroups, Rows) = first .. first + count - 1
  <2>1. ShareFrom(r + 1, AGroups, Rows) \in Nat
    BY GridFacts, ShareBounds
  <2>2. first + count = ShareFrom(r + 1, AGroups, Rows)
    BY <1>1, <2>1
  <2>3. /\ first = ShareFrom(r, AGroups, Rows)
        /\ first + count - 1 = ShareFrom(r + 1, AGroups, Rows) - 1
    BY <1>1, <2>1, <2>2
  <2> HIDE DEF first, count
  <2>4. Share(r, AGroups, Rows) = ShareFrom(r, AGroups, Rows) .. ShareFrom(r + 1, AGroups, Rows) - 1
    BY DEF Share
  <2>5. ShareFrom(r, AGroups, Rows) .. ShareFrom(r + 1, AGroups, Rows) - 1
          = first .. first + count - 1
    BY ONLY <2>3, Zenon
  <2>6. QED
    BY ONLY <2>4, <2>5, Zenon
<1> HIDE DEF first, count
<1>3. \A c \in 0 .. Columns - 1 : Share(c, count, Columns) \subseteq 0 .. count - 1
  BY <1>1, GridFacts, SharesCover
<1>4. \A c \in 0 .. Columns - 1 : dealt(c) \subseteq Share(r, AGroups, Rows)
  BY <1>1, <1>2, <1>3
<1>5. ASSUME NEW g \in Share(r, AGroups, Rows)
      PROVE  \E c \in 0 .. Columns - 1 : g \in dealt(c)
  <2>1. g - first \in 0 .. count - 1 /\ g = first + (g - first)
    BY <1>1, <1>2
  <2>2. PICK c \in 0 .. Columns - 1 : g - first \in Share(c, count, Columns)
    BY <1>1, <2>1, GridFacts, SharesCover
  <2>3. QED
    BY <2>1, <2>2
<1>6. ASSUME NEW c \in 0 .. Columns - 1, NEW d \in 0 .. Columns - 1,
             NEW g \in dealt(c), g \in dealt(d)
      PROVE  c = d
  <2>1. PICK i \in Share(c, count, Columns) : g = first + i
    OBVIOUS
  <2>2. PICK j \in Share(d, count, Columns) : g = first + j
    BY <1>6
  <2>3. i = j
    BY <1>1, <1>3, <2>1, <2>2
  <2>4. c \in Nat /\ d \in Nat
    BY GridFacts
  <2>5. QED
    BY <1>1, <2>3, <2>4, GridFacts, SharesDisjoint
<1>7. QED
  BY <1>4, <1>5, <1>6 DEF first, count

\* Every panel of A has exactly one thread that packs it, in the streaming
\* kernel one of the row that reads it.
LEMMA OwnerOfA ==
  ASSUME kernel \in {"shared", "stream"}
  PROVE  /\ \A t \in Threads : APacks(t) \subseteq 0 .. AGroups - 1
         /\ \A g \in 0 .. AGroups - 1 : \E t \in Threads : g \in APacks(t)
         /\ \A t, u \in Threads : \A g \in APacks(t) : g \in APacks(u) => t = u
         /\ kernel = "stream" => \A t \in Threads : APacks(t) \subseteq AReads(t)
<1>1. CASE kernel = "shared"
  <2>1. \A t \in Threads : APacks(t) = Share(t, AGroups, N) /\ t \in Nat
    BY <1>1, PlaceOfThread DEF APacks
  <2>2. \A t \in Threads : Share(t, AGroups, N) \subseteq 0 .. AGroups - 1
    BY GridFacts, SharesCover DEF Threads
  <2>3. \A g \in 0 .. AGroups - 1 : \E t \in Threads : g \in Share(t, AGroups, N)
    BY GridFacts, SharesCover DEF Threads
  <2>4. \A t, u \in Threads : \A g \in APacks(t) : g \in APacks(u) => t = u
    BY <2>1, GridFacts, SharesDisjoint
  <2>5. QED
    BY <1>1, <2>1, <2>2, <2>3, <2>4
<1>2. CASE kernel = "stream"
  <2>1. \A t \in Threads : Row(t) \in 0 .. Rows - 1 /\ Column(t) \in 0 .. Columns - 1
    BY PlaceOfThread
  <2>2. ASSUME NEW t \in Threads PROVE APacks(t) \subseteq AReads(t)
    BY <1>2, <2>1, DealtInRow DEF APacks, AReads
  <2>3. \A t \in Threads : AReads(t) \subseteq 0 .. AGroups - 1
    BY <2>1, RowShares DEF AReads
  <2>4. ASSUME NEW g \in 0 .. AGroups - 1 PROVE \E t \in Threads : g \in APacks(t)
    <3>1. PICK r \in 0 .. Rows - 1 : g \in Share(r, AGroups, Rows)
      BY GridFacts, SharesCover
    <3>2. PICK c \in 0 .. Columns - 1 :
            g \in {ShareFrom(r, AGroups, Rows) + i :
                     i \in Share(c, ShareFrom(r + 1, AGroups, Rows)
                                      - ShareFrom(r, AGroups, Rows), Columns)}
      BY <3>1, DealtInRow
    <3>3. PICK t \in Threads : Row(t) = r /\ Column(t) = c
      BY ThreadOfPlace
    <3>4. g \in APacks(t)
      BY <1>2, <3>2, <3>3 DEF APacks
    <3>5. QED
      BY <3>4
  <2>5. ASSUME NEW t \in Threads, NEW u \in Threads, NEW g \in APacks(t), g \in APacks(u)
        PROVE  t = u
    <3>1. g \in Share(Row(t), AGroups, Rows) /\ g \in Share(Row(u), AGroups, Rows)
      BY <2>2, <2>5 DEF AReads
    <3>2. Row(t) \in Nat /\ Row(u) \in Nat
      BY <2>1, GridFacts
    <3>3. Row(t) = Row(u)
      BY <3>1, <3>2, GridFacts, SharesDisjoint
    <3>4. Column(t) = Column(u)
      BY <1>2, <2>1, <2>5, <3>3, DealtInRow DEF APacks
    <3>5. QED
      BY <3>3, <3>4, PlaceOfThread
  <2>6. QED
    BY <2>2, <2>3, <2>4, <2>5
<1>3. QED
  BY <1>1, <1>2

\* The panels of A that a row reads are packed by the row in the streaming kernel.
LEMMA OwnerInRow ==
  ASSUME kernel = "stream", NEW t \in Threads, NEW g \in AReads(t)
  PROVE  \E u \in Threads : Row(u) = Row(t) /\ g \in APacks(u)
<1>1. Row(t) \in 0 .. Rows - 1 /\ Row(t) \in Nat
  BY PlaceOfThread, GridFacts
<1>2. g \in 0 .. AGroups - 1
  BY <1>1, RowShares DEF AReads
<1>3. PICK u \in Threads : g \in APacks(u)
  BY <1>2, OwnerOfA
<1>4. g \in AReads(u)
  BY <1>3, OwnerOfA
<1>5. Row(u) \in Nat
  BY PlaceOfThread, GridFacts
<1>6. Row(u) = Row(t)
  BY <1>1, <1>4, <1>5, GridFacts, SharesDisjoint DEF AReads
<1>7. QED
  BY <1>3, <1>6

\* Every panel of B of a column group has exactly one thread of the column that
\* packs it.
LEMMA OwnerOfB ==
  /\ \A t \in Threads : BPacks(t) \subseteq 0 .. BGroups - 1
  /\ \A c \in 0 .. Columns - 1, g \in 0 .. BGroups - 1 :
       \E t \in Threads : Column(t) = c /\ g \in BPacks(t)
  /\ \A t, u \in Threads : Column(t) = Column(u) =>
       \A g \in BPacks(t) : g \in BPacks(u) => t = u
<1>1. \A t \in Threads : Row(t) \in 0 .. Rows - 1 /\ Row(t) \in Nat
  BY PlaceOfThread, GridFacts
<1>2. \A t \in Threads : BPacks(t) \subseteq 0 .. BGroups - 1
  BY <1>1, GridFacts, SharesCover DEF BPacks
<1>3. ASSUME NEW c \in 0 .. Columns - 1, NEW g \in 0 .. BGroups - 1
      PROVE  \E t \in Threads : Column(t) = c /\ g \in BPacks(t)
  <2>1. PICK r \in 0 .. Rows - 1 : g \in Share(r, BGroups, Rows)
    BY GridFacts, SharesCover
  <2>2. PICK t \in Threads : Row(t) = r /\ Column(t) = c
    BY ThreadOfPlace
  <2>3. QED
    BY <2>1, <2>2 DEF BPacks
<1>4. ASSUME NEW t \in Threads, NEW u \in Threads, Column(t) = Column(u),
             NEW g \in BPacks(t), g \in BPacks(u)
      PROVE  t = u
  <2>1. Row(t) = Row(u)
    BY <1>1, <1>4, GridFacts, SharesDisjoint DEF BPacks
  <2>2. QED
    BY <1>4, <2>1, PlaceOfThread
<1>5. QED
  BY <1>2, <1>3, <1>4
-----------------------------------------------------------------------------
(* One thread's step                                                       *)

\* The phase is a positive number, the last one that of the last block.
LEMMA PhaseTypes ==
  ASSUME TypeOK, NEW t \in Threads
  PROVE  /\ block[t] \in Nat /\ block[t] >= 1 /\ block[t] <= Blocks
         /\ half[t] \in {1, 2} /\ half[t] \in Nat
         /\ Phase(t) \in Nat /\ Phase(t) = 2 * block[t] - 2 + half[t]
         /\ Phase(t) >= 1 /\ Phase(t) <= 2 * Blocks
<1>1. block[t] \in 1 .. Blocks /\ half[t] \in {1, 2}
  BY DEF TypeOK
<1>2. QED
  BY <1>1, GridFacts DEF Phase

\* What a thread has contributed, by where it is.
LEMMA Contributions ==
  ASSUME NEW t \in Threads
  PROVE  /\ pc[t] \in {"touch", "pack", "arrive"} =>
              SharedArrivals[t] = 0 /\ RowArrivals[t] = Phase(t) - 1
         /\ pc[t] \notin {"touch", "pack", "arrive"} =>
              SharedArrivals[t] = 1 /\ RowArrivals[t] = Phase(t)
         /\ pc[t] \in {"touch", "pack", "arrive", "arrive column"} =>
              ColumnArrivals[t] = Phase(t) - 1
         /\ pc[t] \notin {"touch", "pack", "arrive", "arrive column"} =>
              ColumnArrivals[t] = Phase(t)
         /\ pc[t] \in {"compute", "done"} =>
              SharedPassed(t) = 1 /\ ColumnPassed(t) = Phase(t)
         /\ pc[t] \notin {"compute", "done"} =>
              SharedPassed(t) = 0 /\ ColumnPassed(t) = Phase(t) - 1
         /\ pc[t] \in {"await column", "compute", "done"} => RowPassed(t) = Phase(t)
         /\ pc[t] \notin {"await column", "compute", "done"} => RowPassed(t) = Phase(t) - 1
BY DEF SharedArrivals, RowArrivals, ColumnArrivals, SharedPassed, RowPassed, ColumnPassed

\* The same after a step.
LEMMA ContributionsAfter ==
  ASSUME NEW t \in Threads
  PROVE  /\ pc'[t] \in {"touch", "pack", "arrive"} =>
              SharedArrivals'[t] = 0 /\ RowArrivals'[t] = Phase(t)' - 1
         /\ pc'[t] \notin {"touch", "pack", "arrive"} =>
              SharedArrivals'[t] = 1 /\ RowArrivals'[t] = Phase(t)'
         /\ pc'[t] \in {"touch", "pack", "arrive", "arrive column"} =>
              ColumnArrivals'[t] = Phase(t)' - 1
         /\ pc'[t] \notin {"touch", "pack", "arrive", "arrive column"} =>
              ColumnArrivals'[t] = Phase(t)'
         /\ pc'[t] \in {"compute", "done"} =>
              SharedPassed(t)' = 1 /\ ColumnPassed(t)' = Phase(t)'
         /\ pc'[t] \notin {"compute", "done"} =>
              SharedPassed(t)' = 0 /\ ColumnPassed(t)' = Phase(t)' - 1
         /\ pc'[t] \in {"await column", "compute", "done"} => RowPassed(t)' = Phase(t)'
         /\ pc'[t] \notin {"await column", "compute", "done"} => RowPassed(t)' = Phase(t)' - 1
BY DEF SharedArrivals, RowArrivals, ColumnArrivals, SharedPassed, RowPassed, ColumnPassed

\* The contributions are numbers.
LEMMA ContributionTypes ==
  ASSUME TypeOK, NEW t \in Threads
  PROVE  /\ SharedArrivals[t] \in Nat /\ RowArrivals[t] \in Nat /\ ColumnArrivals[t] \in Nat
         /\ SharedPassed(t) \in Nat /\ RowPassed(t) \in Nat /\ ColumnPassed(t) \in Nat
<1>1. Phase(t) \in Nat /\ Phase(t) - 1 \in Nat
  BY PhaseTypes
<1>2. /\ SharedArrivals[t] \in {0, 1} /\ SharedPassed(t) \in {0, 1}
      /\ RowArrivals[t] \in {Phase(t) - 1, Phase(t)}
      /\ ColumnArrivals[t] \in {Phase(t) - 1, Phase(t)}
      /\ RowPassed(t) \in {Phase(t) - 1, Phase(t)}
      /\ ColumnPassed(t) \in {Phase(t) - 1, Phase(t)}
  BY Contributions, Zenon
<1>3. QED
  BY ONLY <1>1, <1>2

\* What the others have contributed stays.
LEMMA OthersKept ==
  ASSUME NEW t \in Threads,
         pc' = [pc EXCEPT ![t] = pc'[t]], block' = [block EXCEPT ![t] = block'[t]],
         half' = [half EXCEPT ![t] = half'[t]], TypeOK
  PROVE  \A u \in Threads : u # t =>
           /\ pc'[u] = pc[u] /\ block'[u] = block[u] /\ half'[u] = half[u]
           /\ SharedArrivals'[u] = SharedArrivals[u] /\ RowArrivals'[u] = RowArrivals[u]
           /\ ColumnArrivals'[u] = ColumnArrivals[u] /\ SharedPassed(u)' = SharedPassed(u)
           /\ RowPassed(u)' = RowPassed(u) /\ ColumnPassed(u)' = ColumnPassed(u)
           /\ Packed(u)' = Packed(u)
<1> SUFFICES ASSUME NEW u \in Threads, u # t
             PROVE  /\ pc'[u] = pc[u] /\ block'[u] = block[u] /\ half'[u] = half[u]
                    /\ SharedArrivals'[u] = SharedArrivals[u] /\ RowArrivals'[u] = RowArrivals[u]
                    /\ ColumnArrivals'[u] = ColumnArrivals[u] /\ SharedPassed(u)' = SharedPassed(u)
                    /\ RowPassed(u)' = RowPassed(u) /\ ColumnPassed(u)' = ColumnPassed(u)
                    /\ Packed(u)' = Packed(u)
  OBVIOUS
<1>1. pc'[u] = pc[u] /\ block'[u] = block[u] /\ half'[u] = half[u]
  BY DEF TypeOK
<1>2. Phase(u)' = Phase(u) /\ Packed(u)' = Packed(u)
  BY <1>1 DEF Phase, Packed
<1>3. SharedArrivals'[u] = SharedArrivals[u] /\ RowArrivals'[u] = RowArrivals[u]
      /\ ColumnArrivals'[u] = ColumnArrivals[u]
  BY <1>1, <1>2 DEF SharedArrivals, RowArrivals, ColumnArrivals
<1>4. SharedPassed(u)' = SharedPassed(u) /\ RowPassed(u)' = RowPassed(u)
      /\ ColumnPassed(u)' = ColumnPassed(u)
  BY <1>1, <1>2 DEF SharedPassed, RowPassed, ColumnPassed
<1>5. QED
  BY <1>1, <1>2, <1>3, <1>4

\* Arrivals that differ nowhere in a group leave its counter the sum.
LEMMA CountKept ==
  ASSUME NEW S, NEW arr, NEW next, NEW v, Counted(S, arr, v), \A t \in S : next[t] = arr[t]
  PROVE  Counted(S, next, v)
<1>1. PICK q \in Nat : /\ \A t \in S : arr[t] \in {q, q + 1}
                       /\ v = Cardinality(S) * q + Cardinality({t \in S : arr[t] = q + 1})
  BY DEF Counted
<1>2. {t \in S : next[t] = q + 1} = {t \in S : arr[t] = q + 1}
  OBVIOUS
<1>3. QED
  BY <1>1, <1>2 DEF Counted

\* A step that leaves the arrivals and the counters alone, whatever it passes.
LEMMA NoArrival ==
  ASSUME CountInv, kernel' = kernel, counterVars' = counterVars,
         \A u \in Threads :
           /\ kernel = "shared" => SharedArrivals'[u] = SharedArrivals[u]
           /\ kernel = "stream" => /\ RowArrivals'[u] = RowArrivals[u]
                                   /\ ColumnArrivals'[u] = ColumnArrivals[u]
  PROVE  CountInv'
<1>1. ready' = ready /\ rowReady' = rowReady /\ columnReady' = columnReady
  BY DEF counterVars
<1>2. ASSUME kernel = "shared" PROVE Counted(Threads, SharedArrivals', ready)
  BY <1>2, CountKept DEF CountInv
<1>3. ASSUME kernel = "stream", NEW r \in 0 .. Rows - 1
      PROVE  Counted(RowThreads(r), RowArrivals', rowReady[r])
  <2>1. Counted(RowThreads(r), RowArrivals, rowReady[r])
    BY <1>3 DEF CountInv
  <2>2. \A u \in RowThreads(r) : RowArrivals'[u] = RowArrivals[u]
    BY <1>3 DEF RowThreads
  <2>3. QED
    BY <2>1, <2>2, CountKept
<1>4. ASSUME kernel = "stream", NEW c \in 0 .. Columns - 1
      PROVE  Counted(ColumnThreads(c), ColumnArrivals', columnReady[c])
  <2>1. Counted(ColumnThreads(c), ColumnArrivals, columnReady[c])
    BY <1>4 DEF CountInv
  <2>2. \A u \in ColumnThreads(c) : ColumnArrivals'[u] = ColumnArrivals[u]
    BY <1>4 DEF ColumnThreads
  <2>3. QED
    BY <2>1, <2>2, CountKept
<1>5. QED
  BY <1>1, <1>2, <1>3, <1>4 DEF CountInv

\* A step that takes no arrival back, and passes only what all have arrived at.
LEMMA PassKept ==
  ASSUME TypeOK, PassInv, kernel' = kernel, NEW t \in Threads,
         \A u \in Threads : u # t =>
           /\ SharedArrivals'[u] = SharedArrivals[u] /\ RowArrivals'[u] = RowArrivals[u]
           /\ ColumnArrivals'[u] = ColumnArrivals[u] /\ SharedPassed(u)' = SharedPassed(u)
           /\ RowPassed(u)' = RowPassed(u) /\ ColumnPassed(u)' = ColumnPassed(u),
         kernel = "shared" => /\ SharedArrivals'[t] \in {SharedArrivals[t], SharedArrivals[t] + 1}
                              /\ \A u \in Threads : SharedPassed(t)' <= SharedArrivals[u],
         kernel = "stream" => /\ RowArrivals'[t] \in {RowArrivals[t], RowArrivals[t] + 1}
                              /\ \A u \in Threads : Row(u) = Row(t) =>
                                   RowPassed(t)' <= RowArrivals[u],
         kernel = "stream" => /\ ColumnArrivals'[t] \in {ColumnArrivals[t], ColumnArrivals[t] + 1}
                              /\ \A u \in Threads : Column(u) = Column(t) =>
                                   ColumnPassed(t)' <= ColumnArrivals[u],
         SharedPassed(t)' \in Nat, RowPassed(t)' \in Nat, ColumnPassed(t)' \in Nat
  PROVE  PassInv'
<1>1. SUFFICES ASSUME NEW x \in Threads, NEW u \in Threads
      PROVE  /\ kernel = "shared" => SharedPassed(x)' <= SharedArrivals'[u]
             /\ kernel = "stream" /\ Row(x) = Row(u) => RowPassed(x)' <= RowArrivals'[u]
             /\ kernel = "stream" /\ Column(x) = Column(u) =>
                  ColumnPassed(x)' <= ColumnArrivals'[u]
  BY DEF PassInv
<1>2. /\ SharedArrivals[u] \in Nat /\ RowArrivals[u] \in Nat /\ ColumnArrivals[u] \in Nat
      /\ SharedPassed(x)' \in Nat /\ RowPassed(x)' \in Nat /\ ColumnPassed(x)' \in Nat
  BY ContributionTypes
<1>3. ASSUME kernel = "shared" PROVE SharedPassed(x)' <= SharedArrivals'[u]
  <2>1. SharedPassed(x)' <= SharedArrivals[u]
    BY <1>3 DEF PassInv
  <2>2. SharedArrivals'[u] = SharedArrivals[u] \/ SharedArrivals'[u] = SharedArrivals[u] + 1
    BY <1>3
  <2>3. QED
    BY <1>2, <2>1, <2>2
<1>4. ASSUME kernel = "stream", Row(x) = Row(u) PROVE RowPassed(x)' <= RowArrivals'[u]
  <2>1. RowPassed(x)' <= RowArrivals[u]
    BY <1>4 DEF PassInv
  <2>2. RowArrivals'[u] = RowArrivals[u] \/ RowArrivals'[u] = RowArrivals[u] + 1
    BY <1>4
  <2>3. QED
    BY <1>2, <2>1, <2>2
<1>5. ASSUME kernel = "stream", Column(x) = Column(u)
      PROVE  ColumnPassed(x)' <= ColumnArrivals'[u]
  <2>1. ColumnPassed(x)' <= ColumnArrivals[u]
    BY <1>5 DEF PassInv
  <2>2. ColumnArrivals'[u] = ColumnArrivals[u] \/ ColumnArrivals'[u] = ColumnArrivals[u] + 1
    BY <1>5
  <2>3. QED
    BY <1>2, <2>1, <2>2
<1>6. QED
  BY <1>3, <1>4, <1>5

\* A step that packs nothing keeps what the panels hold.
LEMMA NothingPacked ==
  ASSUME PanelInv, kernel' = kernel, panelVars' = panelVars,
         \A u \in Threads : Packed(u)' = Packed(u)
  PROVE  PanelInv'
<1>1. aVersion' = aVersion /\ bVersion' = bVersion
  BY DEF panelVars
<1>2. \A u \in Threads : APacks(u)' = APacks(u)
  BY DEF APacks
<1>3. QED
  BY <1>1, <1>2 DEF PanelInv
\* The phase and the contributions after a step.
LEMMA TypesAfter ==
  ASSUME TypeOK', NEW t \in Threads
  PROVE  /\ Phase(t)' \in Nat /\ Phase(t)' = 2 * block'[t] - 2 + half'[t]
         /\ Phase(t)' >= 1 /\ Phase(t)' <= 2 * Blocks
         /\ SharedPassed(t)' \in Nat /\ RowPassed(t)' \in Nat /\ ColumnPassed(t)' \in Nat
<1>1. block'[t] \in 1 .. Blocks /\ half'[t] \in {1, 2}
  BY DEF TypeOK
<1>2. Phase(t)' \in Nat /\ Phase(t)' = 2 * block'[t] - 2 + half'[t]
      /\ Phase(t)' >= 1 /\ Phase(t)' <= 2 * Blocks
  BY <1>1, GridFacts DEF Phase
<1>3. /\ SharedPassed(t)' \in {0, 1}
      /\ RowPassed(t)' \in {Phase(t)' - 1, Phase(t)'}
      /\ ColumnPassed(t)' \in {Phase(t)' - 1, Phase(t)'}
  BY ContributionsAfter, Zenon
<1>4. SharedPassed(t)' \in Nat /\ RowPassed(t)' \in Nat /\ ColumnPassed(t)' \in Nat
  BY ONLY <1>2, <1>3
<1>5. QED
  BY <1>2, <1>4

\* A step of thread t: nobody else moves, and t stays where its
\* kernel has places.
Moves(t) ==
  /\ kernel' = kernel
  /\ pc' = [pc EXCEPT ![t] = pc'[t]]
  /\ block' = [block EXCEPT ![t] = block'[t]]
  /\ half' = [half EXCEPT ![t] = half'[t]]
  /\ block'[t] \in 1 .. Blocks /\ half'[t] \in {1, 2}
  /\ pc'[t] \in {"touch", "pack", "arrive", "await", "arrive column", "await row",
                 "await column", "compute", "done"}
  /\ kernel = "shared" => /\ pc'[t] \notin {"arrive column", "await row", "await column"}
                          /\ block'[t] = 1 /\ (half'[t] = 1 \/ pc'[t] = "done")
  /\ kernel = "stream" => pc'[t] # "await"
  /\ pc'[t] \in {"touch", "pack", "compute"} => half'[t] = 1

\* Such a step keeps every thread at a place of its kernel.
LEMMA PlaceKept ==
  ASSUME TypeOK, PlaceInv, NEW t \in Threads, Moves(t)
  PROVE  /\ PlaceInv'
         /\ pc' \in [Threads -> {"touch", "pack", "arrive", "await", "arrive column",
                                 "await row", "await column", "compute", "done"}]
         /\ block' \in [Threads -> 1 .. Blocks] /\ half' \in [Threads -> {1, 2}]
<1>1. \A u \in Threads : u # t => pc'[u] = pc[u] /\ block'[u] = block[u] /\ half'[u] = half[u]
  BY DEF Moves, TypeOK
<1>2. PlaceInv'
  BY <1>1 DEF Moves, PlaceInv
<1>3. pc' \in [Threads -> {"touch", "pack", "arrive", "await", "arrive column",
                           "await row", "await column", "compute", "done"}]
  BY DEF Moves, TypeOK
<1>4. block' \in [Threads -> 1 .. Blocks] /\ half' \in [Threads -> {1, 2}]
  BY DEF Moves, TypeOK
<1>5. QED
  BY <1>2, <1>3, <1>4

\* A step that arrives nowhere and passes only what all have arrived at.
LEMMA SilentStep ==
  ASSUME IInv, NEW t \in Threads, Moves(t), counterVars' = counterVars,
         aVersion' \in [0 .. AGroups - 1 -> 0 .. Blocks],
         bVersion' \in [0 .. Columns - 1 -> [0 .. BGroups - 1 -> 0 .. Blocks]],
         PanelInv',
         kernel = "shared" => /\ SharedArrivals'[t] = SharedArrivals[t]
                              /\ \A u \in Threads : SharedPassed(t)' <= SharedArrivals[u],
         kernel = "stream" => /\ RowArrivals'[t] = RowArrivals[t]
                              /\ ColumnArrivals'[t] = ColumnArrivals[t]
                              /\ \A u \in Threads : Row(u) = Row(t) =>
                                   RowPassed(t)' <= RowArrivals[u]
                              /\ \A u \in Threads : Column(u) = Column(t) =>
                                   ColumnPassed(t)' <= ColumnArrivals[u]
  PROVE  IInv'
<1>1. TypeOK /\ PlaceInv /\ CountInv /\ PassInv
  BY DEF IInv
<1>2. PlaceInv'
  BY <1>1, PlaceKept
<1>3. TypeOK'
  <2>1. pc' \in [Threads -> {"touch", "pack", "arrive", "await", "arrive column",
                             "await row", "await column", "compute", "done"}]
        /\ block' \in [Threads -> 1 .. Blocks] /\ half' \in [Threads -> {1, 2}]
    BY <1>1, PlaceKept
  <2>2. kernel' \in {"shared", "stream"}
    BY <1>1 DEF TypeOK, Moves
  <2>3. ready' \in 0 .. N
    BY <1>1 DEF TypeOK, counterVars
  <2>4. /\ rowReady' \in [0 .. Rows - 1 -> 0 .. 2 * Blocks * Columns]
        /\ columnReady' \in [0 .. Columns - 1 -> 0 .. 2 * Blocks * Rows]
    BY <1>1 DEF TypeOK, counterVars
  <2>5. QED
    BY <2>1, <2>2, <2>3, <2>4 DEF TypeOK
<1>4. \A u \in Threads : u # t =>
        /\ SharedArrivals'[u] = SharedArrivals[u] /\ RowArrivals'[u] = RowArrivals[u]
        /\ ColumnArrivals'[u] = ColumnArrivals[u] /\ SharedPassed(u)' = SharedPassed(u)
        /\ RowPassed(u)' = RowPassed(u) /\ ColumnPassed(u)' = ColumnPassed(u)
  BY <1>1, OthersKept DEF Moves
<1>5. kernel' = kernel
  BY DEF Moves
<1>6. CountInv'
  <2>1. \A u \in Threads :
          /\ kernel = "shared" => SharedArrivals'[u] = SharedArrivals[u]
          /\ kernel = "stream" => /\ RowArrivals'[u] = RowArrivals[u]
                                  /\ ColumnArrivals'[u] = ColumnArrivals[u]
    BY <1>4
  <2>2. QED
    BY <1>1, <1>5, <2>1, NoArrival
<1>7. PassInv'
  <2>1. SharedPassed(t)' \in Nat /\ RowPassed(t)' \in Nat /\ ColumnPassed(t)' \in Nat
    BY <1>3, TypesAfter
  <2>2. QED
    BY <1>1, <1>4, <1>5, <2>1, PassKept
<1>8. QED
  BY <1>2, <1>3, <1>6, <1>7 DEF IInv

\* The panels after a step that packs nothing.
LEMMA PanelsKept ==
  ASSUME IInv, NEW t \in Threads, Moves(t), panelVars' = panelVars, Packed(t)' = Packed(t)
  PROVE  /\ aVersion' \in [0 .. AGroups - 1 -> 0 .. Blocks]
         /\ bVersion' \in [0 .. Columns - 1 -> [0 .. BGroups - 1 -> 0 .. Blocks]]
         /\ PanelInv'
<1>1. TypeOK /\ PanelInv
  BY DEF IInv
<1>2. \A u \in Threads : Packed(u)' = Packed(u)
  BY <1>1, OthersKept DEF Moves
<1>3. kernel' = kernel
  BY DEF Moves
<1>4. PanelInv'
  BY <1>1, <1>2, <1>3, NothingPacked
<1>5. QED
  BY <1>1, <1>4 DEF TypeOK, panelVars

\* What the invariant says of thread t before its step.
LEMMA HasPassed ==
  ASSUME IInv, NEW t \in Threads
  PROVE  /\ kernel = "shared" => \A u \in Threads : SharedPassed(t) <= SharedArrivals[u]
         /\ kernel = "stream" => /\ \A u \in Threads : Row(u) = Row(t) =>
                                      RowPassed(t) <= RowArrivals[u]
                                 /\ \A u \in Threads : Column(u) = Column(t) =>
                                      ColumnPassed(t) <= ColumnArrivals[u]
BY DEF IInv, PassInv
-----------------------------------------------------------------------------
(* The invariant holds                                                     *)

\* Nobody has arrived anywhere when the tasks start.
LEMMA InitInv ==
  ASSUME Init
  PROVE  IInv
<1>1. TypeOK
  <2>1. N \in Nat /\ 1 \in 1 .. Blocks /\ 0 \in 0 .. N /\ 0 \in 0 .. Blocks
    BY GridFacts
  <2>2. 0 \in 0 .. 2 * Blocks * Columns /\ 0 \in 0 .. 2 * Blocks * Rows
    <3>1. 2 * Blocks \in Nat
      BY GridFacts
    <3>2. 2 * Blocks * Columns \in Nat /\ 2 * Blocks * Rows \in Nat
      BY ONLY <3>1, GridFacts, ProductIsNat
    <3>3. QED
      BY ONLY <3>2
  <2>3. QED
    BY <2>1, <2>2 DEF Init, TypeOK
<1>2. PlaceInv
  BY DEF Init, PlaceInv
<1>3. \A t \in Threads : pc[t] = "touch" /\ Phase(t) = 1 /\ Packed(t) = 0
  BY DEF Init, Phase, Packed
<1>4. \A t \in Threads : /\ SharedArrivals[t] = 0 /\ RowArrivals[t] = 0 /\ ColumnArrivals[t] = 0
                         /\ SharedPassed(t) = 0 /\ RowPassed(t) = 0 /\ ColumnPassed(t) = 0
  <2>1. ASSUME NEW t \in Threads
        PROVE  /\ SharedArrivals[t] = 0 /\ RowArrivals[t] = Phase(t) - 1
               /\ ColumnArrivals[t] = Phase(t) - 1 /\ SharedPassed(t) = 0
               /\ RowPassed(t) = Phase(t) - 1 /\ ColumnPassed(t) = Phase(t) - 1
    BY <1>3, Contributions, Zenon
  <2>2. QED
    BY <1>3, <2>1
<1>5. CountInv
  <2>1. Counted(Threads, SharedArrivals, 0)
    BY <1>4, GroupSizes, CountStarts
  <2>2. ASSUME NEW r \in 0 .. Rows - 1 PROVE Counted(RowThreads(r), RowArrivals, 0)
    BY <1>4, GroupSizes, CountStarts DEF RowThreads
  <2>3. ASSUME NEW c \in 0 .. Columns - 1 PROVE Counted(ColumnThreads(c), ColumnArrivals, 0)
    BY <1>4, GroupSizes, CountStarts DEF ColumnThreads
  <2>4. QED
    BY <2>1, <2>2, <2>3 DEF Init, CountInv
<1>6. PassInv
  BY <1>4 DEF PassInv
<1>7. PanelInv
  <2>1. kernel \in {"shared", "stream"}
    BY DEF Init
  <2>2. \A t \in Threads : \A g \in APacks(t) : aVersion[g] = 0
    BY <2>1, OwnerOfA DEF Init
  <2>3. \A t \in Threads : \A g \in BPacks(t) : bVersion[Column(t)][g] = 0
    BY PlaceOfThread, OwnerOfB DEF Init
  <2>4. QED
    BY <1>3, <2>2, <2>3 DEF PanelInv
<1>8. QED
  BY <1>1, <1>2, <1>5, <1>6, <1>7 DEF IInv
-----------------------------------------------------------------------------
(* Every step keeps it                                                     *)

\* The preparation of the output touches no barrier and no panel.
LEMMA TouchSliceKeeps ==
  ASSUME IInv, NEW t \in Threads, TouchSlice(t)
  PROVE  IInv'
<1>1. /\ pc[t] = "touch" /\ pc'[t] = "pack" /\ block'[t] = block[t] /\ half'[t] = half[t]
      /\ panelVars' = panelVars /\ counterVars' = counterVars /\ kernel' = kernel
  BY DEF TouchSlice, Goto, IInv, TypeOK
<1>2. Moves(t)
  BY <1>1 DEF TouchSlice, Goto, Moves, IInv, TypeOK, PlaceInv
<1>3. Phase(t)' = Phase(t) /\ Packed(t)' = Packed(t)
  BY <1>1 DEF Phase, Packed
<1>4. /\ SharedArrivals'[t] = SharedArrivals[t] /\ SharedPassed(t)' = SharedPassed(t)
      /\ RowArrivals'[t] = RowArrivals[t] /\ RowPassed(t)' = RowPassed(t)
      /\ ColumnArrivals'[t] = ColumnArrivals[t] /\ ColumnPassed(t)' = ColumnPassed(t)
  BY <1>1, <1>3, Contributions, ContributionsAfter, Zenon
<1>5. /\ aVersion' \in [0 .. AGroups - 1 -> 0 .. Blocks]
      /\ bVersion' \in [0 .. Columns - 1 -> [0 .. BGroups - 1 -> 0 .. Blocks]]
      /\ PanelInv'
  BY <1>1, <1>2, <1>3, PanelsKept
<1>6. QED
  BY <1>1, <1>2, <1>4, <1>5, HasPassed, SilentStep

\* A thread packs its own panels only, at the block it is at.
LEMMA PackKeeps ==
  ASSUME IInv, NEW t \in Threads, Pack(t)
  PROVE  IInv'
<1>1. /\ pc[t] = "pack" /\ pc'[t] = "arrive" /\ block'[t] = block[t] /\ half'[t] = half[t]
      /\ counterVars' = counterVars /\ kernel' = kernel
  BY DEF Pack, Goto, IInv, TypeOK
<1>2. Moves(t)
  BY <1>1 DEF Pack, Goto, Moves, IInv, TypeOK, PlaceInv
<1>3. Phase(t)' = Phase(t)
  BY <1>1 DEF Phase
<1>4. /\ SharedArrivals'[t] = SharedArrivals[t] /\ SharedPassed(t)' = SharedPassed(t)
      /\ RowArrivals'[t] = RowArrivals[t] /\ RowPassed(t)' = RowPassed(t)
      /\ ColumnArrivals'[t] = ColumnArrivals[t] /\ ColumnPassed(t)' = ColumnPassed(t)
  BY <1>1, <1>3, Contributions, ContributionsAfter, Zenon
<1>5. TypeOK /\ PanelInv /\ kernel \in {"shared", "stream"} /\ block[t] \in 0 .. Blocks
  <2>1. TypeOK /\ PanelInv /\ kernel \in {"shared", "stream"}
    BY DEF IInv, TypeOK
  <2>2. block[t] \in 1 .. Blocks
    BY <2>1 DEF TypeOK
  <2>3. QED
    BY <2>1, <2>2, GridFacts
<1>6. Column(t) \in 0 .. Columns - 1
  BY PlaceOfThread
<1>7. /\ aVersion' \in [0 .. AGroups - 1 -> 0 .. Blocks]
      /\ \A g \in 0 .. AGroups - 1 :
           aVersion'[g] = IF g \in APacks(t) THEN block[t] ELSE aVersion[g]
  BY <1>5 DEF Pack, TypeOK
<1>8. bVersion' = [bVersion EXCEPT ![Column(t)] =
                     [g \in 0 .. BGroups - 1 |->
                        IF g \in BPacks(t) THEN block[t] ELSE bVersion[Column(t)][g]]]
  <2>1. bVersion \in [0 .. Columns - 1 -> [0 .. BGroups - 1 -> 0 .. Blocks]]
    BY <1>5 DEF TypeOK
  <2>2. DOMAIN bVersion[Column(t)] = 0 .. BGroups - 1
    BY <1>6, <2>1
  <2>3. QED
    BY <2>2 DEF Pack
<1>9. [g \in 0 .. BGroups - 1 |-> IF g \in BPacks(t) THEN block[t] ELSE bVersion[Column(t)][g]]
        \in [0 .. BGroups - 1 -> 0 .. Blocks]
  <2>1. bVersion[Column(t)] \in [0 .. BGroups - 1 -> 0 .. Blocks]
    BY <1>5, <1>6 DEF TypeOK
  <2>2. QED
    BY <1>5, <2>1
<1>10. /\ bVersion' \in [0 .. Columns - 1 -> [0 .. BGroups - 1 -> 0 .. Blocks]]
       /\ \A c \in 0 .. Columns - 1, g \in 0 .. BGroups - 1 :
            bVersion'[c][g] = IF c = Column(t) /\ g \in BPacks(t) THEN block[t]
                              ELSE bVersion[c][g]
  BY <1>5, <1>6, <1>8, <1>9 DEF TypeOK
<1>11. /\ Packed(t)' = block[t]
       /\ \A u \in Threads : u # t => Packed(u)' = Packed(u)
  <2>1. Packed(t)' = block[t]
    BY <1>1 DEF Packed
  <2>2. QED
    BY <1>2, <1>5, <2>1, OthersKept DEF Moves
<1>12. PanelInv'
  <2>1. SUFFICES ASSUME NEW u \in Threads
        PROVE  /\ \A g \in APacks(u)' : aVersion'[g] = Packed(u)'
               /\ \A g \in BPacks(u) : bVersion'[Column(u)][g] = Packed(u)'
    BY DEF PanelInv
  <2>2. APacks(u)' = APacks(u)
    BY <1>1 DEF APacks
  <2>3. ASSUME NEW g \in APacks(u) PROVE aVersion'[g] = Packed(u)'
    <3>1. g \in 0 .. AGroups - 1 /\ (g \in APacks(t) => u = t)
      BY <1>5, OwnerOfA
    <3>2. aVersion[g] = Packed(u)
      BY <1>5 DEF PanelInv
    <3>3. QED
      BY <1>7, <1>11, <3>1, <3>2
  <2>4. ASSUME NEW g \in BPacks(u) PROVE bVersion'[Column(u)][g] = Packed(u)'
    <3>1. g \in 0 .. BGroups - 1 /\ Column(u) \in 0 .. Columns - 1
          /\ (Column(u) = Column(t) /\ g \in BPacks(t) => u = t)
      BY OwnerOfB, PlaceOfThread
    <3>2. bVersion[Column(u)][g] = Packed(u)
      BY <1>5 DEF PanelInv
    <3>3. QED
      BY <1>10, <1>11, <3>1, <3>2
  <2>5. QED
    BY <2>2, <2>3, <2>4
<1>13. QED
  BY <1>1, <1>2, <1>4, <1>7, <1>10, <1>12, HasPassed, SilentStep

\* Who finds ready at N has everybody's arrival.
LEMMA PassSharedKeeps ==
  ASSUME IInv, NEW t \in Threads, PassShared(t)
  PROVE  IInv'
<1>1. /\ pc[t] = "await" /\ pc'[t] = "compute" /\ block'[t] = block[t] /\ half'[t] = half[t]
      /\ panelVars' = panelVars /\ counterVars' = counterVars /\ kernel' = kernel
      /\ kernel = "shared" /\ ready = N
  BY DEF PassShared, AllReady, Goto, IInv, TypeOK
<1>2. half[t] = 1
  BY <1>1 DEF IInv, PlaceInv
<1>3. Moves(t)
  BY <1>1, <1>2 DEF PassShared, Goto, Moves, IInv, TypeOK, PlaceInv
<1>4. Packed(t)' = Packed(t)
  BY <1>1 DEF Packed
<1>5. SharedArrivals'[t] = SharedArrivals[t] /\ SharedPassed(t)' = 1
  BY <1>1, Contributions, ContributionsAfter, Zenon
<1>6. \A u \in Threads : 1 <= SharedArrivals[u]
  <2>1. Counted(Threads, SharedArrivals, ready)
    BY <1>1 DEF IInv, CountInv
  <2>2. ready >= Cardinality(Threads) * 1
    BY <1>1, GridFacts, GroupSizes
  <2>3. QED
    BY <2>1, <2>2, GroupSizes, CountComplete
<1>7. /\ aVersion' \in [0 .. AGroups - 1 -> 0 .. Blocks]
      /\ bVersion' \in [0 .. Columns - 1 -> [0 .. BGroups - 1 -> 0 .. Blocks]]
      /\ PanelInv'
  BY <1>1, <1>3, <1>4, PanelsKept
<1>8. kernel # "stream"
  BY <1>1
<1>9. QED
  BY <1>1, <1>3, <1>5, <1>6, <1>7, <1>8, SilentStep

\* The products end a block's first half without an arrival.
LEMMA ComputeKeeps ==
  ASSUME IInv, NEW t \in Threads, Compute(t)
  PROVE  IInv'
<1>1. /\ pc[t] = "compute" /\ block'[t] = block[t] /\ half'[t] = 2 /\ half[t] = 1
      /\ pc'[t] = IF kernel = "shared" THEN "done" ELSE "arrive"
      /\ panelVars' = panelVars /\ counterVars' = counterVars /\ kernel' = kernel
  BY DEF Compute, Goto, IInv, TypeOK, PlaceInv
<1>2. Moves(t)
  BY <1>1 DEF Compute, Goto, Moves, IInv, TypeOK, PlaceInv
<1>3. Packed(t)' = Packed(t)
  BY <1>1 DEF Packed
<1>4. ASSUME kernel = "shared"
      PROVE  SharedArrivals'[t] = SharedArrivals[t] /\ SharedPassed(t)' = SharedPassed(t)
  BY <1>1, <1>4, Contributions, ContributionsAfter, Zenon
<1>5. ASSUME kernel = "stream"
      PROVE  /\ RowArrivals'[t] = RowArrivals[t] /\ RowPassed(t)' = RowPassed(t)
             /\ ColumnArrivals'[t] = ColumnArrivals[t] /\ ColumnPassed(t)' = ColumnPassed(t)
  <2>1. block[t] \in Nat
    BY PhaseTypes DEF IInv
  <2>2. Phase(t)' - 1 = Phase(t)
    BY <1>1, <2>1 DEF Phase
  <2>3. pc'[t] = "arrive"
    BY <1>1, <1>5
  <2>4. /\ RowArrivals[t] = Phase(t) /\ RowArrivals'[t] = Phase(t)' - 1
        /\ ColumnArrivals[t] = Phase(t) /\ ColumnArrivals'[t] = Phase(t)' - 1
        /\ RowPassed(t) = Phase(t) /\ RowPassed(t)' = Phase(t)' - 1
        /\ ColumnPassed(t) = Phase(t) /\ ColumnPassed(t)' = Phase(t)' - 1
    BY <1>1, <2>3, Contributions, ContributionsAfter, Zenon
  <2>5. QED
    BY <2>2, <2>4, Zenon
<1>6. /\ aVersion' \in [0 .. AGroups - 1 -> 0 .. Blocks]
      /\ bVersion' \in [0 .. Columns - 1 -> [0 .. BGroups - 1 -> 0 .. Blocks]]
      /\ PanelInv'
  BY <1>1, <1>2, <1>3, PanelsKept
<1>7. QED
  BY <1>1, <1>2, <1>4, <1>5, <1>6, HasPassed, SilentStep

\* Who finds the row's counter at its phase has the arrival of the whole row.
LEMMA AwaitRowKeeps ==
  ASSUME IInv, NEW t \in Threads, AwaitRow(t)
  PROVE  IInv'
<1>1. /\ pc[t] = "await row" /\ pc'[t] = "await column"
      /\ block'[t] = block[t] /\ half'[t] = half[t]
      /\ panelVars' = panelVars /\ counterVars' = counterVars /\ kernel' = kernel
      /\ rowReady[Row(t)] >= Columns * Phase(t)
  BY DEF AwaitRow, RowReady, Goto, IInv, TypeOK
<1>2. kernel = "stream"
  BY <1>1 DEF IInv, TypeOK, PlaceInv
<1>3. Moves(t)
  BY <1>1, <1>2 DEF AwaitRow, Goto, Moves, IInv, TypeOK, PlaceInv
<1>4. Phase(t)' = Phase(t) /\ Packed(t)' = Packed(t)
  BY <1>1 DEF Phase, Packed
<1>5. /\ RowArrivals'[t] = RowArrivals[t] /\ RowPassed(t)' = Phase(t)
      /\ ColumnArrivals'[t] = ColumnArrivals[t] /\ ColumnPassed(t)' = ColumnPassed(t)
  BY <1>1, <1>4, Contributions, ContributionsAfter, Zenon
<1>6. \A u \in Threads : Row(u) = Row(t) => Phase(t) <= RowArrivals[u]
  <2>1. Row(t) \in 0 .. Rows - 1 /\ Phase(t) \in Nat
    BY PlaceOfThread, PhaseTypes DEF IInv
  <2>2. Counted(RowThreads(Row(t)), RowArrivals, rowReady[Row(t)])
    BY <1>2, <2>1 DEF IInv, CountInv
  <2>3. IsFiniteSet(RowThreads(Row(t)))
        /\ rowReady[Row(t)] >= Cardinality(RowThreads(Row(t))) * Phase(t)
    BY <1>1, <2>1, GroupSizes
  <2>4. \A u \in RowThreads(Row(t)) : Phase(t) <= RowArrivals[u]
    BY <2>1, <2>2, <2>3, CountComplete
  <2>5. QED
    BY <2>4 DEF RowThreads
<1>7. /\ aVersion' \in [0 .. AGroups - 1 -> 0 .. Blocks]
      /\ bVersion' \in [0 .. Columns - 1 -> [0 .. BGroups - 1 -> 0 .. Blocks]]
      /\ PanelInv'
  BY <1>1, <1>3, <1>4, PanelsKept
<1>8. kernel # "shared"
  BY <1>2
<1>9. QED
  BY <1>1, <1>3, <1>5, <1>6, <1>7, <1>8, HasPassed, SilentStep

\* Past the column's counter there are three ways on: the products, the next block, or the end.
LEMMA AwaitColumnKeeps ==
  ASSUME IInv, NEW t \in Threads, AwaitColumn(t)
  PROVE  IInv'
<1>1. /\ pc[t] = "await column" /\ columnReady[Column(t)] >= Rows * Phase(t)
      /\ panelVars' = panelVars /\ counterVars' = counterVars /\ kernel' = kernel
  BY DEF AwaitColumn, ColumnReady
<1>2. kernel = "stream" /\ kernel # "shared" /\ TypeOK
  BY <1>1 DEF IInv, TypeOK, PlaceInv
<1>3. /\ block[t] \in Nat /\ half[t] \in {1, 2} /\ Phase(t) \in Nat
      /\ block[t] >= 1 /\ block[t] <= Blocks
  BY <1>2, PhaseTypes
<1>4. \/ /\ half[t] = 1 /\ pc'[t] = "compute" /\ block'[t] = block[t] /\ half'[t] = 1
      \/ /\ half[t] = 2 /\ pc'[t] = "pack" /\ block'[t] = block[t] + 1 /\ half'[t] = 1
         /\ block[t] < Blocks
      \/ /\ half[t] = 2 /\ pc'[t] = "done" /\ block'[t] = block[t] /\ half'[t] = 2
  BY <1>2 DEF AwaitColumn, Goto, TypeOK, Passes
<1>5. /\ pc' = [pc EXCEPT ![t] = pc'[t]]
      /\ block' = [block EXCEPT ![t] = block'[t]]
      /\ half' = [half EXCEPT ![t] = half'[t]]
  BY <1>2 DEF AwaitColumn, Goto, TypeOK
<1>6. block'[t] \in 1 .. Blocks /\ half'[t] \in {1, 2}
  <2>1. block[t] < Blocks => block[t] + 1 \in 1 .. Blocks
    BY <1>3, GridFacts
  <2>2. block[t] \in 1 .. Blocks
    BY <1>2 DEF TypeOK
  <2>3. QED
    BY <1>3, <1>4, <2>1, <2>2
<1>7. pc'[t] \in {"compute", "pack", "done"} /\ (half'[t] = 1 \/ pc'[t] = "done")
  BY <1>4
<1>8. Moves(t)
  BY <1>1, <1>2, <1>5, <1>6, <1>7 DEF Moves
<1>9. /\ RowArrivals[t] = Phase(t) /\ RowPassed(t) = Phase(t) /\ ColumnArrivals[t] = Phase(t)
      /\ Packed(t) = block[t]
  BY <1>1, Contributions, Zenon DEF Packed
<1>10. /\ Packed(t)' = block[t]
       /\ RowArrivals'[t] = Phase(t) /\ RowPassed(t)' = Phase(t)
       /\ ColumnArrivals'[t] = Phase(t) /\ ColumnPassed(t)' = Phase(t)
  <2>1. CASE pc'[t] = "pack"
    <3>1. block'[t] = block[t] + 1 /\ half'[t] = 1 /\ half[t] = 2
      BY <1>4, <2>1
    <3>2. Phase(t)' - 1 = Phase(t)
      BY <1>3, <3>1 DEF Phase
    <3>3. /\ RowArrivals'[t] = Phase(t)' - 1 /\ RowPassed(t)' = Phase(t)' - 1
          /\ ColumnArrivals'[t] = Phase(t)' - 1 /\ ColumnPassed(t)' = Phase(t)' - 1
      BY <2>1, ContributionsAfter, Zenon
    <3>4. Packed(t)' = block'[t] - 1
      BY <2>1 DEF Packed
    <3>5. Packed(t)' = block[t]
      BY ONLY <1>3, <3>1, <3>4
    <3>6. QED
      BY <3>2, <3>3, <3>5, Zenon
  <2>2. CASE pc'[t] \in {"compute", "done"}
    <3>1. block'[t] = block[t] /\ half'[t] = half[t]
      BY <1>4, <2>2
    <3>2. Phase(t)' = Phase(t)
      BY <3>1 DEF Phase
    <3>3. /\ RowArrivals'[t] = Phase(t)' /\ RowPassed(t)' = Phase(t)'
          /\ ColumnArrivals'[t] = Phase(t)' /\ ColumnPassed(t)' = Phase(t)'
      BY <2>2, ContributionsAfter, Zenon
    <3>4. Packed(t)' = block'[t]
      BY <2>2 DEF Packed
    <3>5. QED
      BY <3>1, <3>2, <3>3, <3>4, Zenon
  <2>3. QED
    BY <1>7, <2>1, <2>2
<1>11. \A u \in Threads : Column(u) = Column(t) => Phase(t) <= ColumnArrivals[u]
  <2>1. Column(t) \in 0 .. Columns - 1
    BY PlaceOfThread
  <2>2. Counted(ColumnThreads(Column(t)), ColumnArrivals, columnReady[Column(t)])
    BY <1>2, <2>1 DEF IInv, CountInv
  <2>3. IsFiniteSet(ColumnThreads(Column(t)))
        /\ columnReady[Column(t)] >= Cardinality(ColumnThreads(Column(t))) * Phase(t)
    BY <1>1, <2>1, GroupSizes
  <2>4. \A u \in ColumnThreads(Column(t)) : Phase(t) <= ColumnArrivals[u]
    BY <1>3, <2>2, <2>3, CountComplete
  <2>5. QED
    BY <2>4 DEF ColumnThreads
<1>12. /\ aVersion' \in [0 .. AGroups - 1 -> 0 .. Blocks]
       /\ bVersion' \in [0 .. Columns - 1 -> [0 .. BGroups - 1 -> 0 .. Blocks]]
       /\ PanelInv'
  BY <1>1, <1>8, <1>9, <1>10, PanelsKept
<1>13. \A u \in Threads : Row(u) = Row(t) => RowPassed(t)' <= RowArrivals[u]
  BY <1>2, <1>9, <1>10, HasPassed
<1>14. \A u \in Threads : Column(u) = Column(t) => ColumnPassed(t)' <= ColumnArrivals[u]
  BY <1>10, <1>11
<1>15. RowArrivals'[t] = RowArrivals[t] /\ ColumnArrivals'[t] = ColumnArrivals[t]
  BY <1>9, <1>10, Zenon
<1>16. QED
  BY <1>1, <1>2, <1>8, <1>12, <1>13, <1>14, <1>15, SilentStep

\* A thread's arrival at a counter of the threads S, of which nobody is behind it.
LEMMA GroupArrival ==
  ASSUME NEW S, IsFiniteSet(S), NEW arr, NEW next, NEW v, Counted(S, arr, v),
         NEW t \in S, \A u \in S : arr[t] <= arr[u],
         next[t] = arr[t] + 1, \A u \in S : u # t => next[u] = arr[u],
         NEW m \in Nat, \A u \in S : next[u] <= m
  PROVE  Counted(S, next, v + 1) /\ v + 1 \in Nat /\ v + 1 <= Cardinality(S) * m
<1>1. Counted(S, next, v + 1)
  BY CountArrival
<1>2. v + 1 \in Nat /\ v + 1 <= Cardinality(S) * m
  <2>1. S # {}
    OBVIOUS
  <2>2. QED
    BY <1>1, <2>1, CountBounded
<1>3. QED
  BY <1>1, <1>2

\* An arrival at the one-shot barrier.
LEMMA ArriveSharedKeeps ==
  ASSUME IInv, NEW t \in Threads, ArriveShared(t)
  PROVE  IInv'
<1>1. /\ pc[t] = "arrive" /\ pc'[t] = "await" /\ block'[t] = block[t] /\ half'[t] = half[t]
      /\ panelVars' = panelVars /\ kernel' = kernel /\ kernel = "shared" /\ kernel # "stream"
      /\ ready' = ready + 1 /\ rowReady' = rowReady /\ columnReady' = columnReady
  BY DEF ArriveShared, Goto, IInv, TypeOK
<1>2. Moves(t)
  BY <1>1 DEF ArriveShared, Goto, Moves, IInv, TypeOK, PlaceInv
<1>3. TypeOK /\ PlaceInv /\ CountInv /\ PassInv
  BY DEF IInv
<1>4. Packed(t)' = Packed(t)
  BY <1>1 DEF Packed
<1>5. SharedArrivals[t] = 0 /\ SharedArrivals'[t] = 1 /\ SharedPassed(t)' = 0
  BY <1>1, Contributions, ContributionsAfter, Zenon
<1>6. \A u \in Threads : u # t =>
        /\ SharedArrivals'[u] = SharedArrivals[u] /\ RowArrivals'[u] = RowArrivals[u]
        /\ ColumnArrivals'[u] = ColumnArrivals[u] /\ SharedPassed(u)' = SharedPassed(u)
        /\ RowPassed(u)' = RowPassed(u) /\ ColumnPassed(u)' = ColumnPassed(u)
  BY <1>2, <1>3, OthersKept DEF Moves
<1>7. Counted(Threads, SharedArrivals', ready + 1) /\ ready + 1 \in Nat /\ ready + 1 <= N * 1
  <2> DEFINE S == Threads
             v == ready
             m == 1
  <2>1. Counted(S, SharedArrivals, v)
    BY <1>1, <1>3 DEF CountInv
  <2>2. \A u \in S : SharedArrivals[u] \in {0, 1} /\ SharedArrivals'[u] \in {0, 1}
    BY Contributions, ContributionsAfter, Zenon
  <2>3. \A u \in S : SharedArrivals[t] <= SharedArrivals[u]
    BY ONLY <1>5, <2>2
  <2>4. m \in Nat /\ \A u \in S : SharedArrivals'[u] <= m
    BY ONLY <2>2
  <2>5. SharedArrivals'[t] = SharedArrivals[t] + 1
    BY <1>5
  <2>6. \A u \in S : u # t => SharedArrivals'[u] = SharedArrivals[u]
    BY <1>6
  <2>7. IsFiniteSet(S) /\ Cardinality(S) = N
    BY GroupSizes
  <2>8. t \in S
    OBVIOUS
  <2> HIDE DEF S, v, m
  <2>9. Counted(S, SharedArrivals', v + 1)
    BY ONLY <2>1, <2>3, <2>5, <2>6, <2>7, <2>8, CountArrival
  <2>10. S # {}
    BY ONLY <2>8
  <2>11. v + 1 \in Nat /\ v + 1 <= Cardinality(S) * m
    BY ONLY <2>4, <2>7, <2>9, <2>10, CountBounded
  <2>12. QED
    BY <2>7, <2>9, <2>11 DEF S, v, m
<1>8. CountInv'
  BY <1>1, <1>7 DEF CountInv
<1>9. PlaceInv'
  BY <1>2, <1>3, PlaceKept
<1>10. /\ aVersion' \in [0 .. AGroups - 1 -> 0 .. Blocks]
       /\ bVersion' \in [0 .. Columns - 1 -> [0 .. BGroups - 1 -> 0 .. Blocks]]
       /\ PanelInv'
  BY <1>1, <1>2, <1>4, PanelsKept
<1>11. TypeOK'
  <2>1. pc' \in [Threads -> {"touch", "pack", "arrive", "await", "arrive column",
                             "await row", "await column", "compute", "done"}]
        /\ block' \in [Threads -> 1 .. Blocks] /\ half' \in [Threads -> {1, 2}]
    BY <1>2, <1>3, PlaceKept
  <2>2. ready' \in 0 .. N
    BY <1>1, <1>7, GridFacts
  <2>3. QED
    BY <1>1, <1>3, <1>10, <2>1, <2>2 DEF TypeOK
<1>12. PassInv'
  <2>1. SharedPassed(t)' \in Nat /\ RowPassed(t)' \in Nat /\ ColumnPassed(t)' \in Nat
    BY <1>11, TypesAfter
  <2>2. \A u \in Threads : SharedPassed(t)' <= SharedArrivals[u]
    BY <1>3, <1>5, ContributionTypes
  <2>3. SharedArrivals'[t] = SharedArrivals[t] + 1
    BY <1>5
  <2>4. QED
    BY <1>1, <1>3, <1>6, <2>1, <2>2, <2>3, PassKept
<1>13. QED
  BY <1>8, <1>9, <1>10, <1>11, <1>12 DEF IInv

\* An arrival at the counter of the row.
LEMMA ArriveRowKeeps ==
  ASSUME IInv, NEW t \in Threads, ArriveRow(t)
  PROVE  IInv'
<1> DEFINE S == RowThreads(Row(t))
           v == rowReady[Row(t)]
<1>1. /\ pc[t] = "arrive" /\ pc'[t] = "arrive column"
      /\ block'[t] = block[t] /\ half'[t] = half[t]
      /\ panelVars' = panelVars /\ kernel' = kernel /\ kernel = "stream" /\ kernel # "shared"
      /\ ready' = ready /\ columnReady' = columnReady
      /\ rowReady' = [rowReady EXCEPT ![Row(t)] = v + 1]
  BY DEF ArriveRow, Goto, IInv, TypeOK
<1>2. Moves(t)
  BY <1>1 DEF ArriveRow, Goto, Moves, IInv, TypeOK, PlaceInv
<1>3. TypeOK /\ PlaceInv /\ CountInv /\ PassInv
  BY DEF IInv
<1>4. Packed(t)' = Packed(t) /\ Phase(t)' = Phase(t)
  BY <1>1 DEF Packed, Phase
<1>5. /\ RowArrivals[t] = Phase(t) - 1 /\ RowArrivals'[t] = Phase(t)
      /\ RowPassed(t) = Phase(t) - 1 /\ RowPassed(t)' = Phase(t) - 1
      /\ ColumnArrivals'[t] = ColumnArrivals[t] /\ ColumnPassed(t)' = ColumnPassed(t)
  BY <1>1, <1>4, Contributions, ContributionsAfter, Zenon
<1>6. \A u \in Threads : u # t =>
        /\ SharedArrivals'[u] = SharedArrivals[u] /\ RowArrivals'[u] = RowArrivals[u]
        /\ ColumnArrivals'[u] = ColumnArrivals[u] /\ SharedPassed(u)' = SharedPassed(u)
        /\ RowPassed(u)' = RowPassed(u) /\ ColumnPassed(u)' = ColumnPassed(u)
  BY <1>2, <1>3, OthersKept DEF Moves
<1>7. Row(t) \in 0 .. Rows - 1 /\ Phase(t) \in Nat
  BY <1>3, PlaceOfThread, PhaseTypes
<1>8. RowArrivals'[t] = RowArrivals[t] + 1
  BY <1>5, <1>7
<1>9. Counted(S, RowArrivals', v + 1) /\ v + 1 \in Nat /\ v + 1 <= Columns * (2 * Blocks)
  <2>1. Counted(S, RowArrivals, v)
    BY <1>1, <1>3, <1>7 DEF CountInv
  <2>2. t \in S /\ S \subseteq Threads
    BY DEF RowThreads
  <2>3. \A u \in S : RowArrivals[t] <= RowArrivals[u]
    BY <1>1, <1>5, HasPassed DEF RowThreads
  <2>4. \A u \in Threads : RowArrivals'[u] <= 2 * Blocks
    <3>1. SUFFICES ASSUME NEW u \in Threads PROVE RowArrivals'[u] <= 2 * Blocks
      OBVIOUS
    <3>2. Phase(u) \in Nat /\ Phase(u) <= 2 * Blocks
      BY <1>3, PhaseTypes
    <3>3. RowArrivals[u] \in {Phase(u) - 1, Phase(u)}
      BY Contributions, Zenon
    <3>4. RowArrivals'[u] \in {Phase(u) - 1, Phase(u)}
      BY <1>5, <1>6, <3>3
    <3>5. QED
      BY ONLY <3>2, <3>4, GridFacts
  <2>5. IsFiniteSet(S) /\ Columns = Cardinality(S)
    BY <1>7, GroupSizes
  <2>6. Columns \in Nat /\ 2 * Blocks \in Nat
    BY GridFacts
  <2>7. /\ \A u \in S : u # t => RowArrivals'[u] = RowArrivals[u]
        /\ \A u \in S : RowArrivals'[u] <= 2 * Blocks
    BY <1>6, <2>2, <2>4
  <2> HIDE DEF S, v
  <2>8. /\ Counted(S, RowArrivals', v + 1)
        /\ v + 1 \in Nat /\ v + 1 <= Cardinality(S) * (2 * Blocks)
    BY ONLY <1>8, <2>1, <2>2, <2>3, <2>5, <2>6, <2>7, GroupArrival
  <2>9. QED
    BY ONLY <2>5, <2>8
<1>10. ASSUME NEW r \in 0 .. Rows - 1
       PROVE  Counted(RowThreads(r), RowArrivals', rowReady'[r])
  <2>1. CASE r = Row(t)
    BY <1>1, <1>3, <1>7, <1>9, <2>1 DEF TypeOK
  <2>2. CASE r # Row(t)
    <3>1. rowReady'[r] = rowReady[r] /\ Counted(RowThreads(r), RowArrivals, rowReady[r])
      BY <1>1, <1>3, <2>2 DEF TypeOK, CountInv
    <3>2. \A u \in RowThreads(r) : RowArrivals'[u] = RowArrivals[u]
      BY <1>6, <2>2 DEF RowThreads
    <3>3. QED
      BY <3>1, <3>2, CountKept
  <2>3. QED
    BY <2>1, <2>2
<1>11. ASSUME NEW c \in 0 .. Columns - 1
       PROVE  Counted(ColumnThreads(c), ColumnArrivals', columnReady'[c])
  <2>1. Counted(ColumnThreads(c), ColumnArrivals, columnReady[c])
    BY <1>1, <1>3 DEF CountInv
  <2>2. \A u \in ColumnThreads(c) : ColumnArrivals'[u] = ColumnArrivals[u]
    BY <1>5, <1>6 DEF ColumnThreads
  <2>3. QED
    BY <1>1, <2>1, <2>2, CountKept
<1>12. CountInv'
  BY <1>1, <1>10, <1>11 DEF CountInv
<1>13. PlaceInv'
  BY <1>2, <1>3, PlaceKept
<1>14. /\ aVersion' \in [0 .. AGroups - 1 -> 0 .. Blocks]
       /\ bVersion' \in [0 .. Columns - 1 -> [0 .. BGroups - 1 -> 0 .. Blocks]]
       /\ PanelInv'
  BY <1>1, <1>2, <1>4, PanelsKept
<1>15. TypeOK'
  <2>1. pc' \in [Threads -> {"touch", "pack", "arrive", "await", "arrive column",
                             "await row", "await column", "compute", "done"}]
        /\ block' \in [Threads -> 1 .. Blocks] /\ half' \in [Threads -> {1, 2}]
    BY <1>2, <1>3, PlaceKept
  <2>2. v + 1 \in 0 .. 2 * Blocks * Columns
    <3>1. Columns * (2 * Blocks) = 2 * Blocks * Columns
      BY GridFacts
    <3> HIDE DEF v
    <3>2. QED
      BY ONLY <1>9, <3>1
  <2>3. rowReady' \in [0 .. Rows - 1 -> 0 .. 2 * Blocks * Columns]
    <3>1. rowReady \in [0 .. Rows - 1 -> 0 .. 2 * Blocks * Columns]
      BY <1>3 DEF TypeOK
    <3> HIDE DEF v
    <3>2. QED
      BY ONLY <1>1, <2>2, <3>1
  <2>4. QED
    BY <1>1, <1>3, <1>14, <2>1, <2>3 DEF TypeOK
<1>16. PassInv'
  <2>1. SharedPassed(t)' \in Nat /\ RowPassed(t)' \in Nat /\ ColumnPassed(t)' \in Nat
    BY <1>15, TypesAfter
  <2>2. /\ \A u \in Threads : Row(u) = Row(t) => RowPassed(t)' <= RowArrivals[u]
        /\ \A u \in Threads : Column(u) = Column(t) => ColumnPassed(t)' <= ColumnArrivals[u]
    BY <1>1, <1>5, HasPassed
  <2>3. QED
    BY <1>1, <1>3, <1>5, <1>6, <1>8, <2>1, <2>2, PassKept
<1>17. QED
  BY <1>12, <1>13, <1>14, <1>15, <1>16 DEF IInv

\* An arrival at the counter of the column.
LEMMA ArriveColumnKeeps ==
  ASSUME IInv, NEW t \in Threads, ArriveColumn(t)
  PROVE  IInv'
<1> DEFINE S == ColumnThreads(Column(t))
           v == columnReady[Column(t)]
<1>1. /\ pc[t] = "arrive column" /\ pc'[t] = "await row"
      /\ block'[t] = block[t] /\ half'[t] = half[t]
      /\ panelVars' = panelVars /\ kernel' = kernel /\ kernel = "stream" /\ kernel # "shared"
      /\ ready' = ready /\ rowReady' = rowReady
      /\ columnReady' = [columnReady EXCEPT ![Column(t)] = v + 1]
  <2>1. pc[t] = "arrive column"
    BY DEF ArriveColumn
  <2>2. kernel = "stream"
    BY <2>1 DEF IInv, TypeOK, PlaceInv
  <2>3. QED
    BY <2>1, <2>2 DEF ArriveColumn, Goto, IInv, TypeOK
<1>2. Moves(t)
  BY <1>1 DEF ArriveColumn, Goto, Moves, IInv, TypeOK, PlaceInv
<1>3. TypeOK /\ PlaceInv /\ CountInv /\ PassInv
  BY DEF IInv
<1>4. Packed(t)' = Packed(t) /\ Phase(t)' = Phase(t)
  BY <1>1 DEF Packed, Phase
<1>5. /\ ColumnArrivals[t] = Phase(t) - 1 /\ ColumnArrivals'[t] = Phase(t)
      /\ ColumnPassed(t) = Phase(t) - 1 /\ ColumnPassed(t)' = Phase(t) - 1
      /\ RowArrivals'[t] = RowArrivals[t] /\ RowPassed(t)' = RowPassed(t)
  BY <1>1, <1>4, Contributions, ContributionsAfter, Zenon
<1>6. \A u \in Threads : u # t =>
        /\ SharedArrivals'[u] = SharedArrivals[u] /\ ColumnArrivals'[u] = ColumnArrivals[u]
        /\ RowArrivals'[u] = RowArrivals[u] /\ SharedPassed(u)' = SharedPassed(u)
        /\ ColumnPassed(u)' = ColumnPassed(u) /\ RowPassed(u)' = RowPassed(u)
  BY <1>2, <1>3, OthersKept DEF Moves
<1>7. Column(t) \in 0 .. Columns - 1 /\ Phase(t) \in Nat
  BY <1>3, PlaceOfThread, PhaseTypes
<1>8. ColumnArrivals'[t] = ColumnArrivals[t] + 1
  BY <1>5, <1>7
<1>9. Counted(S, ColumnArrivals', v + 1) /\ v + 1 \in Nat /\ v + 1 <= Rows * (2 * Blocks)
  <2>1. Counted(S, ColumnArrivals, v)
    BY <1>1, <1>3, <1>7 DEF CountInv
  <2>2. t \in S /\ S \subseteq Threads
    BY DEF ColumnThreads
  <2>3. \A u \in S : ColumnArrivals[t] <= ColumnArrivals[u]
    BY <1>1, <1>5, HasPassed DEF ColumnThreads
  <2>4. \A u \in Threads : ColumnArrivals'[u] <= 2 * Blocks
    <3>1. SUFFICES ASSUME NEW u \in Threads PROVE ColumnArrivals'[u] <= 2 * Blocks
      OBVIOUS
    <3>2. Phase(u) \in Nat /\ Phase(u) <= 2 * Blocks
      BY <1>3, PhaseTypes
    <3>3. ColumnArrivals[u] \in {Phase(u) - 1, Phase(u)}
      BY Contributions, Zenon
    <3>4. ColumnArrivals'[u] \in {Phase(u) - 1, Phase(u)}
      BY <1>5, <1>6, <3>3
    <3>5. QED
      BY ONLY <3>2, <3>4, GridFacts
  <2>5. IsFiniteSet(S) /\ Rows = Cardinality(S)
    BY <1>7, GroupSizes
  <2>6. Rows \in Nat /\ 2 * Blocks \in Nat
    BY GridFacts
  <2>7. /\ \A u \in S : u # t => ColumnArrivals'[u] = ColumnArrivals[u]
        /\ \A u \in S : ColumnArrivals'[u] <= 2 * Blocks
    BY <1>6, <2>2, <2>4
  <2> HIDE DEF S, v
  <2>8. /\ Counted(S, ColumnArrivals', v + 1)
        /\ v + 1 \in Nat /\ v + 1 <= Cardinality(S) * (2 * Blocks)
    BY ONLY <1>8, <2>1, <2>2, <2>3, <2>5, <2>6, <2>7, GroupArrival
  <2>9. QED
    BY ONLY <2>5, <2>8
<1>10. ASSUME NEW c \in 0 .. Columns - 1
       PROVE  Counted(ColumnThreads(c), ColumnArrivals', columnReady'[c])
  <2>1. CASE c = Column(t)
    BY <1>1, <1>3, <1>7, <1>9, <2>1 DEF TypeOK
  <2>2. CASE c # Column(t)
    <3>1. columnReady'[c] = columnReady[c]
          /\ Counted(ColumnThreads(c), ColumnArrivals, columnReady[c])
      BY <1>1, <1>3, <2>2 DEF TypeOK, CountInv
    <3>2. \A u \in ColumnThreads(c) : ColumnArrivals'[u] = ColumnArrivals[u]
      BY <1>6, <2>2 DEF ColumnThreads
    <3>3. QED
      BY <3>1, <3>2, CountKept
  <2>3. QED
    BY <2>1, <2>2
<1>11. ASSUME NEW r \in 0 .. Rows - 1
       PROVE  Counted(RowThreads(r), RowArrivals', rowReady'[r])
  <2>1. Counted(RowThreads(r), RowArrivals, rowReady[r])
    BY <1>1, <1>3 DEF CountInv
  <2>2. \A u \in RowThreads(r) : RowArrivals'[u] = RowArrivals[u]
    BY <1>5, <1>6 DEF RowThreads
  <2>3. QED
    BY <1>1, <2>1, <2>2, CountKept
<1>12. CountInv'
  BY <1>1, <1>10, <1>11 DEF CountInv
<1>13. PlaceInv'
  BY <1>2, <1>3, PlaceKept
<1>14. /\ aVersion' \in [0 .. AGroups - 1 -> 0 .. Blocks]
       /\ bVersion' \in [0 .. Columns - 1 -> [0 .. BGroups - 1 -> 0 .. Blocks]]
       /\ PanelInv'
  BY <1>1, <1>2, <1>4, PanelsKept
<1>15. TypeOK'
  <2>1. pc' \in [Threads -> {"touch", "pack", "arrive", "await", "arrive column",
                             "await row", "await column", "compute", "done"}]
        /\ block' \in [Threads -> 1 .. Blocks] /\ half' \in [Threads -> {1, 2}]
    BY <1>2, <1>3, PlaceKept
  <2>2. v + 1 \in 0 .. 2 * Blocks * Rows
    <3>1. Rows * (2 * Blocks) = 2 * Blocks * Rows
      BY GridFacts
    <3> HIDE DEF v
    <3>2. QED
      BY ONLY <1>9, <3>1
  <2>3. columnReady' \in [0 .. Columns - 1 -> 0 .. 2 * Blocks * Rows]
    <3>1. columnReady \in [0 .. Columns - 1 -> 0 .. 2 * Blocks * Rows]
      BY <1>3 DEF TypeOK
    <3> HIDE DEF v
    <3>2. QED
      BY ONLY <1>1, <2>2, <3>1
  <2>4. QED
    BY <1>1, <1>3, <1>14, <2>1, <2>3 DEF TypeOK
<1>16. PassInv'
  <2>1. SharedPassed(t)' \in Nat /\ ColumnPassed(t)' \in Nat /\ RowPassed(t)' \in Nat
    BY <1>15, TypesAfter
  <2>2. /\ \A u \in Threads : Column(u) = Column(t) => ColumnPassed(t)' <= ColumnArrivals[u]
        /\ \A u \in Threads : Row(u) = Row(t) => RowPassed(t)' <= RowArrivals[u]
    BY <1>1, <1>5, HasPassed
  <2>3. QED
    BY <1>1, <1>3, <1>5, <1>6, <1>8, <2>1, <2>2, PassKept
<1>17. QED
  BY <1>12, <1>13, <1>14, <1>15, <1>16 DEF IInv
-----------------------------------------------------------------------------
(* What follows                                                            *)

\* Every reachable state satisfies the invariant.
THEOREM InvariantHolds == Spec => []IInv
<1>1. Init => IInv
  BY InitInv
<1>2. IInv /\ [Next]_vars => IInv'
  <2> SUFFICES ASSUME IInv, [Next]_vars PROVE IInv'
    OBVIOUS
  <2>1. ASSUME NEW t \in Threads, Step(t) PROVE IInv'
    <3>1. CASE TouchSlice(t)
      BY <3>1, TouchSliceKeeps
    <3>2. CASE Pack(t)
      BY <3>2, PackKeeps
    <3>3. CASE ArriveShared(t)
      BY <3>3, ArriveSharedKeeps
    <3>4. CASE PassShared(t)
      BY <3>4, PassSharedKeeps
    <3>5. CASE ArriveRow(t)
      BY <3>5, ArriveRowKeeps
    <3>6. CASE ArriveColumn(t)
      BY <3>6, ArriveColumnKeeps
    <3>7. CASE AwaitRow(t)
      BY <3>7, AwaitRowKeeps
    <3>8. CASE AwaitColumn(t)
      BY <3>8, AwaitColumnKeeps
    <3>9. CASE Compute(t)
      BY <3>9, ComputeKeeps
    <3>10. QED
      BY <2>1, <3>1, <3>2, <3>3, <3>4, <3>5, <3>6, <3>7, <3>8, <3>9 DEF Step
  <2>2. CASE UNCHANGED vars
    <3>1. kernel' = kernel /\ pc' = pc /\ block' = block /\ half' = half
          /\ panelVars' = panelVars /\ counterVars' = counterVars
      BY <2>2 DEF vars
    <3>2. aVersion' = aVersion /\ bVersion' = bVersion
          /\ ready' = ready /\ rowReady' = rowReady /\ columnReady' = columnReady
      BY <3>1 DEF panelVars, counterVars
    <3>3. TypeOK' /\ PlaceInv'
      BY <3>1, <3>2 DEF IInv, TypeOK, PlaceInv
    <3>4. /\ SharedArrivals' = SharedArrivals /\ RowArrivals' = RowArrivals
          /\ ColumnArrivals' = ColumnArrivals
      BY <3>1 DEF SharedArrivals, RowArrivals, ColumnArrivals, Phase
    <3>5. \A t \in Threads : /\ SharedPassed(t)' = SharedPassed(t)
                             /\ RowPassed(t)' = RowPassed(t)
                             /\ ColumnPassed(t)' = ColumnPassed(t)
                             /\ Packed(t)' = Packed(t) /\ APacks(t)' = APacks(t)
      BY <3>1 DEF SharedPassed, RowPassed, ColumnPassed, Phase, Packed, APacks
    <3>6. CountInv'
      BY <3>1, <3>2, <3>4 DEF IInv, CountInv
    <3>7. PassInv'
      BY <3>1, <3>4, <3>5 DEF IInv, PassInv
    <3>8. PanelInv'
      BY <3>2, <3>5 DEF IInv, PanelInv
    <3>9. QED
      BY <3>3, <3>6, <3>7, <3>8 DEF IInv
  <2>3. QED
    BY <2>1, <2>2 DEF Next, Terminated
<1>3. QED
  BY <1>1, <1>2, PTL DEF Spec

\* The counters never exceed what the threads can add to them.
THEOREM TypeCorrect == Spec => []TypeOK
<1>1. IInv => TypeOK
  BY DEF IInv
<1>2. QED
  BY <1>1, InvariantHolds, PTL

\* While a thread multiplies, the threads of its row and of its column are at
\* its block and have packed their panels of it.
LEMMA Together ==
  ASSUME IInv, kernel = "stream", NEW t \in Threads, pc[t] = "compute",
         NEW u \in Threads, Row(u) = Row(t) \/ Column(u) = Column(t)
  PROVE  block[u] = block[t] /\ pc[u] \notin {"touch", "pack"}
<1>1. /\ block[t] \in Nat /\ half[t] = 1 /\ Phase(t) = 2 * block[t] - 2 + half[t]
      /\ block[u] \in Nat /\ half[u] \in {1, 2} /\ Phase(u) = 2 * block[u] - 2 + half[u]
  BY PhaseTypes DEF IInv, PlaceInv
<1>2. /\ RowArrivals[t] = Phase(t) /\ RowPassed(t) = Phase(t)
      /\ ColumnArrivals[t] = Phase(t) /\ ColumnPassed(t) = Phase(t)
  BY Contributions, Zenon
<1>3. /\ Row(u) = Row(t) => Phase(t) <= RowArrivals[u] /\ RowPassed(u) <= Phase(t)
      /\ Column(u) = Column(t) => Phase(t) <= ColumnArrivals[u] /\ ColumnPassed(u) <= Phase(t)
  BY <1>2 DEF IInv, PassInv
<1>4. CASE pc[u] \in {"touch", "pack"}
  <2>1. RowArrivals[u] = Phase(u) - 1 /\ RowPassed(u) = Phase(u) - 1
        /\ ColumnArrivals[u] = Phase(u) - 1 /\ ColumnPassed(u) = Phase(u) - 1
    BY <1>4, Contributions, Zenon
  <2>2. half[u] = 1
    BY <1>4 DEF IInv, PlaceInv
  <2>3. Phase(t) <= Phase(u) - 1 /\ Phase(u) - 1 <= Phase(t)
    BY <1>3, <2>1
  <2>4. FALSE
    BY ONLY <1>1, <2>2, <2>3
  <2>5. QED
    BY <2>4
<1>5. CASE pc[u] \notin {"touch", "pack"}
  <2>1. /\ RowArrivals[u] \in {Phase(u) - 1, Phase(u)} /\ RowPassed(u) \in {Phase(u) - 1, Phase(u)}
        /\ ColumnArrivals[u] \in {Phase(u) - 1, Phase(u)}
        /\ ColumnPassed(u) \in {Phase(u) - 1, Phase(u)}
        /\ RowArrivals[u] = Phase(u) - 1 => RowPassed(u) = Phase(u) - 1
    BY Contributions, Zenon
  <2>2. Phase(t) <= Phase(u) /\ Phase(u) - 1 <= Phase(t)
    BY <1>1, <1>3, <2>1
  <2>3. block[u] = block[t]
    BY ONLY <1>1, <2>2
  <2>4. QED
    BY <1>5, <2>3
<1>6. QED
  BY <1>4, <1>5

\* Once a thread multiplies in the shared kernel, every thread has packed.
LEMMA AllPacked ==
  ASSUME IInv, kernel = "shared", NEW t \in Threads, pc[t] \in {"compute", "done"},
         NEW u \in Threads
  PROVE  block[u] = block[t] /\ pc[u] \notin {"touch", "pack"}
<1>1. block[u] = block[t]
  BY DEF IInv, PlaceInv
<1>2. SharedPassed(t) = 1
  BY Contributions, Zenon
<1>3. 1 <= SharedArrivals[u]
  BY <1>2 DEF IInv, PassInv
<1>4. SharedArrivals[u] # 0
  BY <1>3
<1>5. pc[u] \notin {"touch", "pack"}
  BY <1>4, Contributions, Zenon
<1>6. QED
  BY <1>1, <1>5

\* A thread multiplies only panels of its own block, whoever packed them:
\* shared32_task and stream32_task after their barriers, for every grid.
THEOREM OnlyPackedPanelsRead == Spec => []ReadsPackedPanels
<1>1. IInv => ReadsPackedPanels
  <2> SUFFICES ASSUME IInv, NEW t \in Threads, pc[t] = "compute"
               PROVE  /\ \A g \in AReads(t) : aVersion[g] = block[t]
                      /\ \A g \in 0 .. BGroups - 1 : bVersion[Column(t)][g] = block[t]
    BY DEF ReadsPackedPanels
  <2>1. kernel \in {"shared", "stream"} /\ PanelInv
    BY DEF IInv, TypeOK
  <2>2. Row(t) \in 0 .. Rows - 1 /\ Column(t) \in 0 .. Columns - 1
    BY PlaceOfThread
  <2>3. ASSUME NEW u \in Threads, block[u] = block[t], pc[u] \notin {"touch", "pack"}
        PROVE  /\ \A g \in APacks(u) : aVersion[g] = block[t]
               /\ \A g \in BPacks(u) : bVersion[Column(u)][g] = block[t]
    BY <2>1, <2>3 DEF PanelInv, Packed
  <2>4. ASSUME NEW g \in AReads(t) PROVE aVersion[g] = block[t]
    <3>1. CASE kernel = "stream"
      <4>1. PICK u \in Threads : Row(u) = Row(t) /\ g \in APacks(u)
        BY <3>1, OwnerInRow
      <4>2. QED
        BY <2>3, <3>1, <4>1, Together
    <3>2. CASE kernel = "shared"
      <4>1. g \in 0 .. AGroups - 1
        BY <2>2, RowShares DEF AReads
      <4>2. PICK u \in Threads : g \in APacks(u)
        BY <2>1, <4>1, OwnerOfA
      <4>3. QED
        BY <2>3, <3>2, <4>2, AllPacked
    <3>3. QED
      BY <2>1, <3>1, <3>2
  <2>5. ASSUME NEW g \in 0 .. BGroups - 1 PROVE bVersion[Column(t)][g] = block[t]
    <3>1. PICK u \in Threads : Column(u) = Column(t) /\ g \in BPacks(u)
      BY <2>2, OwnerOfB
    <3>2. block[u] = block[t] /\ pc[u] \notin {"touch", "pack"}
      BY <2>1, <3>1, Together, AllPacked
    <3>3. QED
      BY <2>3, <3>1, <3>2
  <2>6. QED
    BY <2>4, <2>5
<1>2. QED
  BY <1>1, InvariantHolds, PTL

\* No thread packs the next block's panels while another still multiplies this
\* block's: what the second barrier of stream32_task is for.
THEOREM PanelsKeptWhileRead == Spec => []NoPanelOverwritten
<1>1. IInv => NoPanelOverwritten
  <2> SUFFICES ASSUME IInv, NEW t \in Threads, NEW u \in Threads,
                      pc[t] = "compute", pc[u] = "pack"
               PROVE  /\ AReads(t) \intersect APacks(u) = {}
                      /\ Column(t) = Column(u) => BPacks(u) = {}
    BY DEF NoPanelOverwritten
  <2>1. kernel = "stream"
    <3>1. kernel \in {"shared", "stream"}
      BY DEF IInv, TypeOK
    <3>2. QED
      BY <3>1, AllPacked
  <2>2. Row(u) # Row(t) /\ Column(u) # Column(t)
    BY <2>1, Together
  <2>3. ASSUME NEW g \in AReads(t), g \in APacks(u) PROVE FALSE
    <3>1. g \in AReads(u)
      BY <2>1, <2>3, OwnerOfA
    <3>2. Row(t) \in Nat /\ Row(u) \in Nat
      BY PlaceOfThread, GridFacts
    <3>3. Row(u) = Row(t)
      BY <3>1, <3>2, GridFacts, SharesDisjoint DEF AReads
    <3>4. QED
      BY <2>2, <3>3
  <2>4. QED
    BY <2>2, <2>3
<1>2. QED
  BY <1>1, InvariantHolds, PTL

\* Every panel of A and every panel of a column group of B has exactly one
\* thread that packs it, however the sizes divide.
THEOREM PanelsDealtOut == Spec => []OnePacker
<1>1. IInv => OnePacker
  <2> SUFFICES ASSUME IInv PROVE OnePacker
    OBVIOUS
  <2>1. kernel \in {"shared", "stream"}
    BY DEF IInv, TypeOK
  <2>2. ASSUME NEW g \in 0 .. AGroups - 1
        PROVE  \E t \in Threads : \A u \in Threads : g \in APacks(u) <=> u = t
    <3>1. PICK t \in Threads : g \in APacks(t)
      BY <2>1, OwnerOfA
    <3>2. \A u \in Threads : g \in APacks(u) => u = t
      BY <2>1, <3>1, OwnerOfA
    <3>3. QED
      BY <3>1, <3>2
  <2>3. ASSUME NEW c \in 0 .. Columns - 1, NEW g \in 0 .. BGroups - 1
        PROVE  \E t \in Threads :
                 \A u \in Threads : Column(u) = c /\ g \in BPacks(u) <=> u = t
    <3>1. PICK t \in Threads : Column(t) = c /\ g \in BPacks(t)
      BY OwnerOfB
    <3>2. \A u \in Threads : Column(u) = c /\ g \in BPacks(u) => u = t
      BY <3>1, OwnerOfB
    <3>3. QED
      BY <3>1, <3>2
  <2>4. QED
    BY <2>2, <2>3 DEF OnePacker
<1>2. QED
  BY <1>1, InvariantHolds, PTL

\* The first write of C comes after every thread has prepared its pages of it:
\* the one-shot barrier of shared32_task.
THEOREM PagesTouchedFirst == Spec => []TouchBeforeShared
<1>1. IInv => TouchBeforeShared
  BY AllPacked DEF TouchBeforeShared
<1>2. QED
  BY <1>1, InvariantHolds, PTL
=============================================================================
