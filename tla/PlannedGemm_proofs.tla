-------------------------- MODULE PlannedGemm_proofs --------------------------
(***************************************************************************)
(* The inductive invariant of PlannedGemm and what follows from it for     *)
(* every shape, blocking, workspace and executor: the call keeps the       *)
(* promise of Gemm, shared panels are packed before they are used, and the *)
(* buffers in the caller's workspace stay apart.                           *)
(***************************************************************************)
EXTENDS PlannedGemm, Slices_proofs, FiniteSetTheorems, SequenceTheorems

(***************************************************************************)
(* How far a tile is.  Its list is the beginning of the one Gemm promises: *)
(* Part(n), where the first element is beta's if beta is applied at all.   *)
(***************************************************************************)
Betas == IF call.output /\ call.beta # "one" THEN 1 ELSE 0
Full == Betas + (IF call.product THEN Depth ELSE 0)
Part(n) == [i \in 1 .. n |-> i - Betas]
Blocks(x) == IF Len(c[x]) = 0 THEN 0 ELSE Len(c[x]) - Betas

\* Every tile shows the beginning of its list.
CurrentParts == \A x \in Tiles : Len(c[x]) \in 0 .. Full /\ c[x] = Part(Len(c[x]))

\* The first k items of list have been done to the tiles X: the preparation,
\* unless the first block overwrites, and the products among them.
Did(list, X, k) ==
  \A x \in X :
    /\ k = 0 => Len(c[x]) = 0
    /\ k > 0 => Len(c[x]) = (IF packed_can_initialize /\ Blocks(x) = 0 THEN 0 ELSE Betas + Blocks(x))
    /\ \A i \in 2 .. Len(list) : list[i][2] = x => (list[i][3] <= Blocks(x) <=> i <= k)

\* What the items of a packing task leave in the shared panels.
Put(item) == IF item[1] = "A" THEN {item} ELSE {<<"B", j, item[3]>> : j \in item[2]}
PanelsOfA == {<<"A", rb, p>> : rb \in RowBlocks, p \in 1 .. Depth}
PanelsOfB == {<<"B", j, p>> : j \in 0 .. N - 1, p \in 1 .. Depth}

---------------------------------------------------------------------------
(* The invariant *)

Packing == {"packA", "packB", "packAB"}
Batches == Packing \cup {"tiles"}
Inside == Batches \cup {"prepareB", "prepareA", "release"}
Rectangle(t) == TileTasks[t][1] \X TileTasks[t][2]
Undone(t) == t \in todo \cup DOMAIN at

\* What each stage knows of the call and of the entry's own variables.
StageInv ==
  /\ stage \notin {"start", "done"} => call.valid /\ call.plan # "refused" /\ call.executor # "invalid"
  /\ stage \in Inside \cup {"packed", "serial", "sve", "returned", "rows"} => call.output
  /\ stage = "serial" => call.product
  /\ stage \notin Inside => heap = {} /\ inside = NoSpace /\ pending = {} /\ ~failed /\ run_rc = 0
  /\ stage \in Packing \cup {"prepareB", "prepareA"} => run_rc = 0
  /\ stage \in {"prepareA", "prepareB"} => ~failed
  /\ result = "running" <=> stage # "done"

\* The tasks that run are tasks of the batch, at one of its items.
TaskInv ==
  /\ stage \in Batches =>
       /\ todo \subseteq DOMAIN Items(stage, call.product)
       /\ DOMAIN at \subseteq DOMAIN Items(stage, call.product)
       /\ todo \cap DOMAIN at = {}
       /\ \A t \in DOMAIN at : at[t] \in 0 .. Len(MyItems(t)) - 1
  /\ stage = "serial" => \/ todo = {1} /\ at = << >>
                         \/ /\ todo = {} /\ DOMAIN at = {1} /\ at[1] \in 1 .. Len(SerialItems)
                            /\ call.product
  /\ stage = "rows" => todo \subseteq DOMAIN split_rows

\* Where the shared buffers are.
SpaceInv ==
  /\ inside["B"] \in {{}, 0 .. BBytes - 1}
  /\ inside["A"] \in {{}, BBytes .. BBytes + ABytes - 1}
  /\ inside["shapes"] \in {{}, ShapesAt .. ShapesAt + Slots - 1}
  /\ heap \subseteq Freed
  /\ stage = "prepareB" => heap = {} /\ inside = NoSpace
  /\ stage \in {"prepareA", "packB"} => "A" \notin heap /\ "shapes" \notin heap /\ inside["A"] = {} /\ inside["shapes"] = {}

\* What is packed when.
PendingInv ==
  /\ stage = "prepareB" => pending = {}
  /\ ~fused => pending = {} /\ stage # "packAB"
  /\ stage = "prepareA" => pending \subseteq {"B"}
  /\ stage = "packA" => "B" \notin pending
  /\ fused /\ stage = "packB" => pending = {"B"}
  /\ stage \in Inside /\ pending # {} => call.product
PanelInv ==
  /\ stage = "tiles" /\ Shares("A") => PanelsOfA \subseteq panels
  /\ stage = "tiles" /\ Shares("B") => PanelsOfB \subseteq panels
  /\ stage \in {"prepareA", "packA"} /\ Shares("B") /\ "B" \notin pending => PanelsOfB \subseteq panels
PackedInv ==
  stage \in Packing /\ ~failed =>
       \A t \in DOMAIN Items(stage, call.product) : \A i \in 1 .. Len(MyItems(t)) :
         Put(MyItems(t)[i]) \subseteq panels \/ t \in todo \/ (t \in DOMAIN at /\ at[t] < i)

\* How far every tile is.
PartInv ==
  /\ CurrentParts
  /\ stage \in {"start", "sve", "packed", "prepareB", "prepareA", "scalar"} \cup Packing =>
       \A x \in Tiles : Len(c[x]) = 0
  /\ stage = "tiles" =>
       \A t \in DOMAIN TileTasks :
         /\ t \in todo => Did(MyItems(t), Rectangle(t), 0)
         /\ t \in DOMAIN at => Did(MyItems(t), Rectangle(t), at[t])
         /\ ~Undone(t) /\ ~failed => Did(MyItems(t), Rectangle(t), Len(MyItems(t)))
  /\ stage = "serial" =>
       Did(SerialItems, Tiles, IF todo # {} THEN 0 ELSE at[1])
  /\ stage = "release" /\ run_rc = 0 /\ ~failed => \A x \in Tiles : Len(c[x]) = Full
  /\ stage = "returned" /\ rc = 0 => \A x \in Tiles : Len(c[x]) = Full
  /\ stage = "returned" /\ rc = UNAVAILABLE => \A x \in Tiles : Len(c[x]) = 0
  /\ stage = "rows" =>
       \A t \in DOMAIN split_rows : \A x \in Tiles :
         x[1] \in split_rows[t] => Len(c[x]) = (IF t \in todo THEN 0 ELSE Full)

IInv == TypeOK /\ StageInv /\ TaskInv /\ SpaceInv /\ PendingInv /\ PanelInv /\ PackedInv /\ PartInv

---------------------------------------------------------------------------
(* Ranges cut into chunks, and pairs of what two sequences list *)

\* ceil_div_positive is the number of chunks.
LEMMA CeilDiv ==
  ASSUME NEW n \in Nat \ {0}, NEW d \in Nat \ {0}
  PROVE  /\ ceil_div_positive(n, d) \in Nat \ {0}
         /\ (ceil_div_positive(n, d) - 1) * d < n /\ n <= ceil_div_positive(n, d) * d
<1> DEFINE q == n \div d
           r == n % d
<1>1. q \in Nat /\ r \in 0 .. d - 1 /\ n = d * q + r
  BY Division
<1>2. d * q = q * d /\ q * d \in Nat /\ (q + 1) * d = q * d + d /\ (q - 1) * d = q * d - d
  BY <1>1
<1>3. r = 0 => q # 0
  BY <1>1, <1>2
<1> HIDE DEF q, r
<1>4. CASE r = 0
  <2>1. q * d = n
    BY <1>1, <1>2, <1>4
  <2>2. (q - 1) * d < n /\ n <= q * d /\ q \in Nat \ {0}
    BY <1>1, <1>2, <1>3, <1>4, <2>1
  <2>3. ceil_div_positive(n, d) = q
    BY <1>1, <1>4 DEF ceil_div_positive, q, r
  <2> QED BY <2>2, <2>3
<1>5. CASE r # 0
  <2>1. q * d < n /\ n <= (q + 1) * d /\ q + 1 \in Nat \ {0} /\ (q + 1) - 1 = q
    BY <1>1, <1>2, <1>5
  <2>2. ceil_div_positive(n, d) = q + 1
    BY <1>1, <1>5 DEF ceil_div_positive, q, r
  <2> QED BY <2>1, <2>2
<1> QED BY <1>4, <1>5

\* The x-th chunk of 0 .. n-1.
Chunk(x, d, n) == (x - 1) * d .. (IF x * d < n THEN x * d ELSE n) - 1

\* Chunks are not empty, lie in the range, cover it and are disjoint.
LEMMA ChunkBounds ==
  ASSUME NEW n \in Nat \ {0}, NEW d \in Nat \ {0}, NEW x \in 1 .. ceil_div_positive(n, d)
  PROVE  \E a, b \in 0 .. n - 1 : a <= b /\ Chunk(x, d, n) = a .. b
<1> DEFINE m == ceil_div_positive(n, d)
           a == (x - 1) * d
           e == IF x * d < n THEN x * d ELSE n
<1>1. m \in Nat \ {0} /\ (m - 1) * d < n
  BY CeilDiv
<1> HIDE DEF m
<1>2. a \in Nat /\ x * d = a + d /\ x * d \in Nat
  <2>1. x \in Nat /\ x >= 1
    BY <1>1 DEF m
  <2> QED BY <2>1
<1>3. a <= (m - 1) * d
  <2>1. x - 1 \in Nat /\ m - 1 \in Nat /\ x - 1 <= m - 1
    BY <1>1 DEF m
  <2> DEFINE u == x - 1
             v == m - 1
  <2>2. ASSUME u < v PROVE u * d + d <= v * d
    BY <2>1, <2>2, ProductGrows
  <2>3. v * d \in Nat /\ u * d \in Nat
    BY <2>1
  <2> HIDE DEF u, v
  <2>4. u * d <= v * d
    BY <2>1, <2>2, <2>3 DEF u, v
  <2> QED BY <2>4 DEF u, v
<1>4. (m - 1) * d \in Int
  BY <1>1
<1> HIDE DEF a
<1>5. a < n /\ a \in Nat
  BY <1>1, <1>2, <1>3, <1>4
<1>6. e \in Nat /\ a < e /\ e <= n
  BY <1>2, <1>5
<1>7. a \in 0 .. n - 1 /\ e - 1 \in 0 .. n - 1 /\ a <= e - 1
  BY <1>5, <1>6
<1>8. Chunk(x, d, n) = a .. e - 1
  BY DEF Chunk, a
<1> QED BY <1>7, <1>8

\* Cutting at every d-th index reaches every index.
LEMMA ChunksCover ==
  ASSUME NEW n \in Nat \ {0}, NEW d \in Nat \ {0}, NEW k \in 0 .. n - 1
  PROVE  \E x \in 1 .. ceil_div_positive(n, d) : k \in Chunk(x, d, n)
<1> DEFINE m == ceil_div_positive(n, d)
           q == k \div d
           r == k % d
<1>1. m \in Nat \ {0} /\ n <= m * d /\ m * d \in Nat
  BY CeilDiv
<1>2. q \in Nat /\ r \in 0 .. d - 1 /\ k = d * q + r
  BY Division
<1>3. d * q = q * d /\ q * d \in Nat /\ (q + 1) * d = q * d + d /\ (q + 1) - 1 = q
  BY <1>2
<1> HIDE DEF m, q, r
<1>4. q < m
  <2>1. q * d <= k /\ k < m * d
    BY <1>1, <1>2, <1>3
  <2>2. ASSUME m <= q PROVE FALSE
    <3>1. m < q => m * d + d <= q * d
      BY <1>1, <1>2, ProductGrows
    <3>2. m * d <= q * d
      BY <1>1, <1>2, <1>3, <2>2, <3>1
    <3> QED BY <1>1, <1>3, <2>1, <3>2
  <2> QED BY <1>1, <1>2, <2>2
<1>5. q + 1 \in 1 .. m
  BY <1>1, <1>2, <1>4
<1>6. k \in Chunk(q + 1, d, n)
  <2>1. q * d <= k /\ k < (q + 1) * d /\ k < n
    BY <1>2, <1>3
  <2>2. (q + 1) * d \in Nat
    BY <1>3
  <2> HIDE DEF Chunk
  <2> DEFINE e == (q + 1) * d
             f == IF e < n THEN e ELSE n
  <2>3. Chunk(q + 1, d, n) = q * d .. f - 1
    BY <1>3 DEF Chunk
  <2> HIDE DEF e
  <2>4. k <= f - 1 /\ f - 1 \in Int
    BY <2>1, <2>2 DEF e
  <2> QED BY <1>3, <2>1, <2>3, <2>4
<1> QED BY <1>5, <1>6 DEF m

\* No index is in two chunks.
LEMMA ChunksDisjoint ==
  ASSUME NEW n \in Nat \ {0}, NEW d \in Nat \ {0}, NEW x \in Nat \ {0}, NEW y \in Nat \ {0},
         NEW k \in Chunk(x, d, n), k \in Chunk(y, d, n)
  PROVE  x = y
<1>1. /\ x * d \in Nat /\ (x - 1) * d \in Nat /\ x * d = (x - 1) * d + d
      /\ y * d \in Nat /\ (y - 1) * d \in Nat /\ y * d = (y - 1) * d + d
  OBVIOUS
<1>2. ASSUME NEW u \in Nat \ {0}, NEW v \in Nat \ {0}, u < v PROVE u * d <= (v - 1) * d
  <2>1. u < v - 1 => u * d + d <= (v - 1) * d
    BY <1>2, ProductGrows
  <2>2. u * d \in Nat /\ (v - 1) * d \in Nat
    OBVIOUS
  <2>3. CASE u = v - 1
    BY <2>2, <2>3
  <2>4. CASE u < v - 1
    BY <2>1, <2>2, <2>4
  <2> QED BY <1>2, <2>3, <2>4
<1>3. x < y => x * d <= (y - 1) * d
  BY <1>2
<1>4. y < x => y * d <= (x - 1) * d
  BY <1>2
<1> DEFINE xd == x * d
           yd == y * d
           xl == (x - 1) * d
           yl == (y - 1) * d
<1>5. k \in Int /\ xl <= k /\ k < xd /\ yl <= k /\ k < yd
  <2>1. k \in xl .. (IF xd < n THEN xd ELSE n) - 1 /\ k \in yl .. (IF yd < n THEN yd ELSE n) - 1
    BY DEF Chunk
  <2> HIDE DEF xd, yd, xl, yl
  <2> QED BY <1>1, <2>1 DEF xd, yd, xl, yl
<1> HIDE DEF xd, yd, xl, yl
<1>6. ~(x < y) /\ ~(y < x)
  BY <1>1, <1>3, <1>4, <1>5 DEF xd, yd, xl, yl
<1> QED BY <1>6

\* The pair of the x-th and the y-th element is the only one at its place.
LEMMA PairPlace ==
  ASSUME NEW k \in Nat, NEW l \in Nat \ {0}
  PROVE  /\ k * l \in Nat
         /\ \A t \in 1 .. k * l : /\ ((t - 1) \div l) + 1 \in 1 .. k /\ ((t - 1) % l) + 1 \in 1 .. l
                                  /\ t = ((t - 1) \div l) * l + ((t - 1) % l) + 1
         /\ \A x \in 1 .. k : \A y \in 1 .. l :
              LET t == (x - 1) * l + y IN
              t \in 1 .. k * l /\ (t - 1) \div l = x - 1 /\ (t - 1) % l = y - 1
<1>1. k * l \in Nat
  OBVIOUS
<1>2. ASSUME NEW t \in 1 .. k * l
      PROVE  /\ ((t - 1) \div l) + 1 \in 1 .. k /\ ((t - 1) % l) + 1 \in 1 .. l
             /\ t = ((t - 1) \div l) * l + ((t - 1) % l) + 1
  <2> DEFINE s == t - 1
             q == s \div l
             r == s % l
  <2>1. s \in Nat /\ s < k * l /\ t = s + 1
    BY <1>1
  <2>2. q \in Nat /\ r \in 0 .. l - 1 /\ s = l * q + r
    BY <2>1, Division
  <2>3. l * q = q * l /\ q * l \in Nat
    BY <2>2
  <2>4. q < k
    <3>1. k < q => k * l + l <= q * l
      BY <2>2, ProductGrows
    <3>2. k = q => k * l = q * l
      OBVIOUS
    <3> HIDE DEF s, q, r
    <3> QED BY <1>1, <2>1, <2>2, <2>3, <3>1, <3>2
  <2> HIDE DEF s, q, r
  <2>5. q + 1 \in 1 .. k /\ r + 1 \in 1 .. l /\ t = q * l + r + 1
    BY <2>1, <2>2, <2>3, <2>4
  <2>6. /\ ((t - 1) \div l) + 1 \in 1 .. k /\ ((t - 1) % l) + 1 \in 1 .. l
        /\ t = ((t - 1) \div l) * l + ((t - 1) % l) + 1
    BY ONLY <2>5, Zenon DEF s, q, r
  <2> QED BY ONLY <2>6, Zenon
<1>3. ASSUME NEW x \in 1 .. k, NEW y \in 1 .. l
      PROVE  LET t == (x - 1) * l + y IN
             t \in 1 .. k * l /\ (t - 1) \div l = x - 1 /\ (t - 1) % l = y - 1
  <2> DEFINE u == x - 1
             v == y - 1
             s == u * l + v
  <2>1. u \in Nat /\ v \in 0 .. l - 1 /\ u < k
    OBVIOUS
  <2>2. u * l \in Nat /\ u * l + l <= k * l
    BY <2>1, ProductGrows
  <2>3. s \div l = u /\ s % l = v
    <3> HIDE DEF u, v
    <3>1. s \in Nat
      BY <2>1, <2>2
    <3> DEFINE q == s \div l
               r == s % l
    <3>2. q \in Nat /\ r \in 0 .. l - 1 /\ s = l * q + r
      BY <3>1, Division
    <3>3. l * q = q * l /\ q * l \in Nat
      BY <3>2
    <3>4. (u < q => u * l + l <= q * l) /\ (q < u => q * l + l <= u * l)
      BY <2>1, <3>2, ProductGrows
    <3> HIDE DEF q, r
    <3>5. ~(u < q) /\ ~(q < u)
      BY <2>1, <2>2, <3>2, <3>3, <3>4
    <3>6. q = u
      BY <2>1, <3>2, <3>5
    <3>7. r = v
      <4>1. q * l = u * l
        BY <3>6
      <4> QED BY <2>1, <2>2, <3>2, <3>3, <4>1
    <3> QED BY <3>6, <3>7 DEF q, r
  <2>4. (x - 1) * l + y = s + 1
    <3>1. v = y - 1 /\ u * l \in Nat
      BY <2>2
    <3> HIDE DEF u, v
    <3>2. u * l + y = s + 1
      BY <2>1, <3>1
    <3> QED BY <3>2 DEF u
  <2> HIDE DEF u, v
  <2>5. s \in Nat /\ s + 1 <= k * l
    BY <1>1, <2>1, <2>2
  <2> HIDE DEF s
  <2>6. (s + 1) - 1 = s /\ s + 1 \in 1 .. k * l
    BY <1>1, <2>5
  <2> QED BY <2>3, <2>4, <2>6 DEF u, v
<1> QED BY <1>1, <1>2, <1>3

\* Pairs lists the pairs of two sequences, the second running faster.
Place(x, y, S) == (x - 1) * Len(S) + y
\* How long the list of pairs is, and what is at each place of it.
LEMMA PairsList ==
  ASSUME NEW R, NEW S, Len(R) \in Nat, Len(S) \in Nat \ {0}
  PROVE  /\ DOMAIN Pairs(R, S) = 1 .. Len(R) * Len(S) /\ Len(Pairs(R, S)) = Len(R) * Len(S)
         /\ Len(R) * Len(S) \in Nat
         /\ \A t \in DOMAIN Pairs(R, S) : \E x \in 1 .. Len(R) : \E y \in 1 .. Len(S) :
              t = Place(x, y, S) /\ Pairs(R, S)[t] = <<R[x], S[y]>>
         /\ \A x \in 1 .. Len(R) : \A y \in 1 .. Len(S) :
              Place(x, y, S) \in DOMAIN Pairs(R, S) /\ Pairs(R, S)[Place(x, y, S)] = <<R[x], S[y]>>
         /\ \A x, u \in 1 .. Len(R) : \A y, v \in 1 .. Len(S) :
              Place(x, y, S) = Place(u, v, S) => x = u /\ y = v
<1> DEFINE k == Len(R)
           l == Len(S)
<1>1. /\ k * l \in Nat
      /\ \A t \in 1 .. k * l : /\ ((t - 1) \div l) + 1 \in 1 .. k /\ ((t - 1) % l) + 1 \in 1 .. l
                               /\ t = ((t - 1) \div l) * l + ((t - 1) % l) + 1
      /\ \A x \in 1 .. k : \A y \in 1 .. l :
           LET t == (x - 1) * l + y IN
           t \in 1 .. k * l /\ (t - 1) \div l = x - 1 /\ (t - 1) % l = y - 1
  BY PairPlace
<1> DEFINE Item(t) == <<R[((t - 1) \div l) + 1], S[((t - 1) % l) + 1]>>
<1>2. /\ DOMAIN Pairs(R, S) = 1 .. k * l /\ Len(Pairs(R, S)) = k * l
      /\ \A t \in 1 .. k * l : Pairs(R, S)[t] = Item(t)
  <2>1. Pairs(R, S) = [t \in 1 .. k * l |-> Item(t)]
    BY Zenon DEF Pairs
  <2> DEFINE n == k * l
  <2>2. n \in Nat
    BY <1>1
  <2> HIDE DEF n, Item
  <2> SUFFICES ASSUME Pairs(R, S) = [t \in 1 .. n |-> Item(t)]
               PROVE  /\ DOMAIN Pairs(R, S) = 1 .. n /\ Len(Pairs(R, S)) = n
                      /\ \A t \in 1 .. n : Pairs(R, S)[t] = Item(t)
    BY <2>1 DEF n
  <2> QED BY <2>2
<1>3. ASSUME NEW t \in 1 .. k * l
      PROVE  \E x \in 1 .. k : \E y \in 1 .. l :
               t = Place(x, y, S) /\ Pairs(R, S)[t] = <<R[x], S[y]>>
  <2> DEFINE q == (t - 1) \div l
             r == (t - 1) % l
  <2>1. q + 1 \in 1 .. k /\ r + 1 \in 1 .. l /\ t = q * l + r + 1
        /\ Pairs(R, S)[t] = <<R[q + 1], S[r + 1]>>
    <3>1. q + 1 \in 1 .. k /\ r + 1 \in 1 .. l /\ t = q * l + r + 1
      BY ONLY <1>1, <1>3, Zenon
    <3>2. Pairs(R, S)[t] = <<R[q + 1], S[r + 1]>>
      BY ONLY <1>2, <1>3, Zenon
    <3> QED BY ONLY <3>1, <3>2, Zenon
  <2>2. q \in Nat /\ r \in Nat
    <3>1. t - 1 \in Nat
      BY <1>1
    <3> QED BY <3>1, Division
  <2> HIDE DEF q, r
  <2>3. q * l \in Nat /\ (q + 1) - 1 = q
    BY <2>2
  <2>4. t = Place(q + 1, r + 1, S)
    BY <2>1, <2>2, <2>3 DEF Place
  <2> QED BY <2>1, <2>4
<1>4. ASSUME NEW x \in 1 .. k, NEW y \in 1 .. l
      PROVE  /\ Place(x, y, S) \in 1 .. k * l
             /\ (Place(x, y, S) - 1) \div l = x - 1 /\ (Place(x, y, S) - 1) % l = y - 1
  BY <1>1 DEF Place
<1>5. ASSUME NEW x \in 1 .. k, NEW y \in 1 .. l
      PROVE  Pairs(R, S)[Place(x, y, S)] = <<R[x], S[y]>>
  <2> DEFINE t == Place(x, y, S)
             q == (t - 1) \div l
             r == (t - 1) % l
  <2>1. q = x - 1 /\ r = y - 1 /\ t \in 1 .. k * l
    BY <1>4
  <2>2. Pairs(R, S)[t] = <<R[q + 1], S[r + 1]>>
    BY ONLY <1>2, <2>1, Zenon
  <2> HIDE DEF q, r, t
  <2>3. q + 1 = x /\ r + 1 = y
    BY <2>1
  <2>4. Pairs(R, S)[t] = <<R[x], S[y]>>
    BY ONLY <2>2, <2>3
  <2> QED BY ONLY <2>4, Zenon DEF t
<1>6. ASSUME NEW x \in 1 .. k, NEW u \in 1 .. k, NEW y \in 1 .. l, NEW v \in 1 .. l,
             Place(x, y, S) = Place(u, v, S)
      PROVE  x = u /\ y = v
  <2>1. x - 1 = u - 1 /\ y - 1 = v - 1
    BY <1>4, <1>6
  <2> QED BY <2>1
<1> HIDE DEF Item
<1>7. /\ DOMAIN Pairs(R, S) = 1 .. k * l /\ Len(Pairs(R, S)) = k * l /\ k * l \in Nat
  BY <1>1, <1>2
<1>8. \A x \in 1 .. k : \A y \in 1 .. l :
        Place(x, y, S) \in DOMAIN Pairs(R, S) /\ Pairs(R, S)[Place(x, y, S)] = <<R[x], S[y]>>
  BY ONLY <1>4, <1>5, <1>7, Zenon
<1>9. \A t \in DOMAIN Pairs(R, S) : \E x \in 1 .. k : \E y \in 1 .. l :
        t = Place(x, y, S) /\ Pairs(R, S)[t] = <<R[x], S[y]>>
  BY ONLY <1>3, <1>7, Zenon
<1> QED BY ONLY <1>6, <1>7, <1>8, <1>9, Zenon

\* A list of the elements of a set, each once.
Lists(list, S) ==
  /\ Len(list) \in Nat \ {0} /\ DOMAIN list = 1 .. Len(list)
  /\ \A i \in 1 .. Len(list) : list[i] \in S
  /\ \A s \in S : \E i \in 1 .. Len(list) : list[i] = s
  /\ \A i, j \in 1 .. Len(list) : list[i] = list[j] => i = j

\* InOrder lists a range from its first element on.
LEMMA InOrderLists ==
  ASSUME NEW a \in Int, NEW b \in Int, a <= b
  PROVE  /\ Lists(InOrder(a .. b), a .. b) /\ Len(InOrder(a .. b)) = b - a + 1
         /\ \A i \in 1 .. b - a + 1 : InOrder(a .. b)[i] = a + i - 1
<1>1. Cardinality(a .. b) = b - a + 1
  BY FS_Interval
<1>2. (CHOOSE f \in a .. b : \A y \in a .. b : f <= y) = a
  OBVIOUS
<1>3. InOrder(a .. b) = [i \in 1 .. b - a + 1 |-> a + i - 1]
  <2> DEFINE m == CHOOSE f \in a .. b : \A y \in a .. b : f <= y
             k == Cardinality(a .. b)
  <2>1. InOrder(a .. b) = [i \in 1 .. k |-> m + i - 1]
    BY Zenon DEF InOrder
  <2>2. m = a /\ k = b - a + 1
    BY <1>1, <1>2
  <2> HIDE DEF m, k
  <2> QED BY ONLY <2>1, <2>2, Zenon
<1> DEFINE list == InOrder(a .. b)
           n == b - a + 1
<1>4. n \in Nat \ {0} /\ Len(list) = n /\ DOMAIN list = 1 .. n
      /\ \A i \in 1 .. n : list[i] = a + i - 1
  BY <1>3
<1> HIDE DEF list
<1>5. \A i \in 1 .. n : list[i] \in a .. b
  BY <1>4
<1>6. ASSUME NEW s \in a .. b PROVE \E i \in 1 .. n : list[i] = s
  <2>1. s - a + 1 \in 1 .. n /\ a + (s - a + 1) - 1 = s
    OBVIOUS
  <2> QED BY <1>4, <2>1
<1>7. ASSUME NEW i \in 1 .. n, NEW j \in 1 .. n, list[i] = list[j] PROVE i = j
  <2>1. a + i - 1 = a + j - 1
    BY <1>4, <1>7
  <2> QED BY <1>4, <2>1
<1>8. Lists(list, a .. b)
  BY <1>4, <1>5, <1>6, <1>7 DEF Lists
<1> QED BY <1>4, <1>8 DEF list

\* Pairs lists a product.
LEMMA PairsLists ==
  ASSUME NEW R, NEW S, NEW A, NEW B, Lists(R, A), Lists(S, B)
  PROVE  Lists(Pairs(R, S), A \X B)
<1> DEFINE list == Pairs(R, S)
           n == Len(R) * Len(S)
<1>1. /\ DOMAIN list = 1 .. n /\ Len(list) = n /\ n \in Nat
      /\ \A t \in DOMAIN list : \E x \in 1 .. Len(R) : \E y \in 1 .. Len(S) :
           t = Place(x, y, S) /\ list[t] = <<R[x], S[y]>>
      /\ \A x \in 1 .. Len(R) : \A y \in 1 .. Len(S) :
           Place(x, y, S) \in DOMAIN list /\ list[Place(x, y, S)] = <<R[x], S[y]>>
  BY PairsList DEF Lists
<1> HIDE DEF list, n
<1>2. n # 0
  <2>1. Place(1, 1, S) \in 1 .. n
    BY <1>1 DEF Lists
  <2> QED BY <1>1, <2>1
<1>3. ASSUME NEW i \in 1 .. n PROVE list[i] \in A \X B
  <2>1. PICK x \in 1 .. Len(R), y \in 1 .. Len(S) : list[i] = <<R[x], S[y]>>
    BY ONLY <1>1, ZenonT(60)
  <2>2. R[x] \in A /\ S[y] \in B
    BY Zenon DEF Lists
  <2> QED BY <2>1, <2>2
<1>4. ASSUME NEW s \in A \X B PROVE \E i \in 1 .. n : list[i] = s
  <2>1. PICK a \in A, b \in B : s = <<a, b>>
    OBVIOUS
  <2>2. PICK x \in 1 .. Len(R) : R[x] = a
    BY DEF Lists
  <2>3. PICK y \in 1 .. Len(S) : S[y] = b
    BY DEF Lists
  <2>4. Place(x, y, S) \in 1 .. n /\ list[Place(x, y, S)] = <<a, b>>
    BY ONLY <1>1, <2>2, <2>3
  <2> QED BY ONLY <2>1, <2>4, Zenon
<1>5. ASSUME NEW i \in 1 .. n, NEW j \in 1 .. n, list[i] = list[j] PROVE i = j
  <2>1. PICK x \in 1 .. Len(R), y \in 1 .. Len(S) :
          i = Place(x, y, S) /\ list[i] = <<R[x], S[y]>>
    BY ONLY <1>1, ZenonT(60)
  <2>2. PICK u \in 1 .. Len(R), v \in 1 .. Len(S) :
          j = Place(u, v, S) /\ list[j] = <<R[u], S[v]>>
    <3>1. j \in DOMAIN list
      BY <1>1
    <3>2. \E u \in 1 .. Len(R) : \E v \in 1 .. Len(S) :
            j = Place(u, v, S) /\ list[j] = <<R[u], S[v]>>
      BY ONLY <1>1, <3>1, Zenon
    <3> QED BY ONLY <3>2, Zenon
  <2>3. R[x] = R[u] /\ S[y] = S[v]
    BY <1>5, <2>1, <2>2
  <2>4. x = u /\ y = v
    BY <2>3 DEF Lists
  <2> QED BY <2>1, <2>2, <2>4
<1>6. Lists(list, A \X B)
  BY <1>1, <1>2, <1>3, <1>4, <1>5 DEF Lists
<1> QED BY <1>6 DEF list

\* A range of indices below n, not empty.
IsRange(S, n) == \E a, b \in 0 .. n - 1 : a <= b /\ S = a .. b
\* InOrder lists a range of indices, each once.
LEMMA RangeLists ==
  ASSUME NEW n \in Nat, NEW S, IsRange(S, n)
  PROVE  Lists(InOrder(S), S) /\ S \subseteq 0 .. n - 1
<1>1. PICK a \in 0 .. n - 1, b \in 0 .. n - 1 : a <= b /\ S = a .. b
  BY DEF IsRange
<1> QED BY <1>1, InOrderLists

\* A sequence of ranges that cuts 0 .. n-1 into pieces.
Cuts(list, n) ==
  /\ Len(list) \in Nat \ {0} /\ DOMAIN list = 1 .. Len(list)
  /\ \A x \in 1 .. Len(list) : IsRange(list[x], n)
  /\ \A k \in 0 .. n - 1 : \E x \in 1 .. Len(list) : k \in list[x]
  /\ \A x, y \in 1 .. Len(list) : \A k : k \in list[x] /\ k \in list[y] => x = y
\* Chunks of a fixed length cut a range.
LEMMA ChunksCut ==
  ASSUME NEW n \in Nat \ {0}, NEW d \in Nat \ {0}, NEW list,
         list = [x \in 1 .. ceil_div_positive(n, d) |-> Chunk(x, d, n)]
  PROVE  Cuts(list, n)
<1> DEFINE m == ceil_div_positive(n, d)
<1>1. m \in Nat \ {0}
  BY CeilDiv
<1>2. \A x \in 1 .. m : IsRange(Chunk(x, d, n), n)
  BY ChunkBounds DEF IsRange
<1>3. \A k \in 0 .. n - 1 : \E x \in 1 .. m : k \in Chunk(x, d, n)
  BY ChunksCover
<1>4. \A x, y \in 1 .. m : \A k : k \in Chunk(x, d, n) /\ k \in Chunk(y, d, n) => x = y
  BY <1>1, ChunksDisjoint
<1> HIDE DEF m, Chunk
<1>5. Len(list) = m /\ DOMAIN list = 1 .. m /\ \A x \in 1 .. m : list[x] = Chunk(x, d, n)
  BY <1>1 DEF m
<1> QED BY <1>1, <1>2, <1>3, <1>4, <1>5 DEF Cuts
\* So do the groups of create_task_ranges, however many are allowed.
LEMMA GroupsCut ==
  ASSUME NEW n \in Nat \ {0}, NEW most \in Nat \ {0}
  PROVE  Cuts(Groups(n, most), n)
<1> DEFINE per == ceil_div_positive(n, most)
<1>1. per \in Nat \ {0}
  BY CeilDiv
<1>2. Groups(n, most) = [x \in 1 .. ceil_div_positive(n, per) |-> Chunk(x, per, n)]
  BY Zenon DEF Groups, Chunk
<1> HIDE DEF per
<1> QED BY <1>1, <1>2, ChunksCut

\* The task grid cuts a product into rectangles.
LEMMA GridCuts ==
  ASSUME NEW rows \in Nat \ {0}, NEW cols \in Nat \ {0}
  PROVE  LET g == split_packed_tasks(rows, cols) IN
         /\ Len(g) \in Nat /\ DOMAIN g = 1 .. Len(g)
         /\ \A t \in DOMAIN g : IsRange(g[t][1], rows) /\ IsRange(g[t][2], cols)
         /\ \A x \in (0 .. rows - 1) \X (0 .. cols - 1) :
              \E t \in DOMAIN g : x \in g[t][1] \X g[t][2]
         /\ \A t, u \in DOMAIN g : \A x :
              x \in g[t][1] \X g[t][2] /\ x \in g[u][1] \X g[u][2] => t = u
<1> DEFINE R == Groups(rows, MaxSide)
           S == Groups(cols, MaxSide)
           g == Pairs(R, S)
<1>1. Cuts(R, rows) /\ Cuts(S, cols)
  BY GroupsCut, GridAssumption
<1> HIDE DEF R, S
<1>2. /\ DOMAIN g = 1 .. Len(g) /\ Len(g) \in Nat
      /\ \A t \in DOMAIN g : \E x \in 1 .. Len(R) : \E y \in 1 .. Len(S) :
           t = Place(x, y, S) /\ g[t] = <<R[x], S[y]>>
      /\ \A x \in 1 .. Len(R) : \A y \in 1 .. Len(S) :
           Place(x, y, S) \in DOMAIN g /\ g[Place(x, y, S)] = <<R[x], S[y]>>
  <2>1. Len(R) \in Nat /\ Len(S) \in Nat \ {0}
    BY <1>1 DEF Cuts
  <2> HIDE DEF g
  <2>2. g = Pairs(R, S)
    BY DEF g
  <2>3. DOMAIN g = 1 .. Len(R) * Len(S) /\ Len(g) = Len(R) * Len(S) /\ Len(R) * Len(S) \in Nat
    BY <2>1, <2>2, PairsList
  <2>4. /\ \A t \in DOMAIN g : \E x \in 1 .. Len(R) : \E y \in 1 .. Len(S) :
             t = Place(x, y, S) /\ g[t] = <<R[x], S[y]>>
        /\ \A x \in 1 .. Len(R) : \A y \in 1 .. Len(S) :
             Place(x, y, S) \in DOMAIN g /\ g[Place(x, y, S)] = <<R[x], S[y]>>
    <3>1. /\ \A t \in DOMAIN Pairs(R, S) : \E x \in 1 .. Len(R) : \E y \in 1 .. Len(S) :
               t = Place(x, y, S) /\ Pairs(R, S)[t] = <<R[x], S[y]>>
          /\ \A x \in 1 .. Len(R) : \A y \in 1 .. Len(S) :
               /\ Place(x, y, S) \in DOMAIN Pairs(R, S)
               /\ Pairs(R, S)[Place(x, y, S)] = <<R[x], S[y]>>
      BY ONLY <2>1, PairsList
    <3> QED BY ONLY <2>2, <3>1, ZenonT(60)
  <2>5. DOMAIN g = 1 .. Len(g) /\ Len(g) \in Nat
    BY ONLY <2>3
  <2> QED BY ONLY <2>4, <2>5, Zenon
<1> HIDE DEF g
<1>3. ASSUME NEW t \in DOMAIN g PROVE IsRange(g[t][1], rows) /\ IsRange(g[t][2], cols)
  <2>1. PICK i \in 1 .. Len(R), j \in 1 .. Len(S) : g[t] = <<R[i], S[j]>>
    BY ONLY <1>2, Zenon
  <2>2. IsRange(R[i], rows) /\ IsRange(S[j], cols)
    BY <1>1, Zenon DEF Cuts
  <2>3. g[t][1] = R[i] /\ g[t][2] = S[j]
    BY <2>1
  <2> QED BY <2>2, <2>3
<1>4. ASSUME NEW x \in (0 .. rows - 1) \X (0 .. cols - 1)
      PROVE  \E t \in DOMAIN g : x \in g[t][1] \X g[t][2]
  <2>1. PICK a \in 0 .. rows - 1, b \in 0 .. cols - 1 : x = <<a, b>>
    OBVIOUS
  <2>2. PICK i \in 1 .. Len(R) : a \in R[i]
    BY <1>1 DEF Cuts
  <2>3. PICK j \in 1 .. Len(S) : b \in S[j]
    BY <1>1 DEF Cuts
  <2>4. Place(i, j, S) \in DOMAIN g /\ g[Place(i, j, S)] = <<R[i], S[j]>>
    BY ONLY <1>2, Zenon
  <2> DEFINE t == Place(i, j, S)
  <2> HIDE DEF t
  <2>5. t \in DOMAIN g /\ g[t][1] = R[i] /\ g[t][2] = S[j]
    BY <2>4 DEF t
  <2> QED BY <2>1, <2>2, <2>3, <2>5
<1>5. ASSUME NEW t \in DOMAIN g, NEW u \in DOMAIN g, NEW x,
             x \in g[t][1] \X g[t][2], x \in g[u][1] \X g[u][2]
      PROVE  t = u
  <2>1. PICK i \in 1 .. Len(R), j \in 1 .. Len(S) : t = Place(i, j, S) /\ g[t] = <<R[i], S[j]>>
    BY ONLY <1>2, Zenon
  <2>2. PICK k \in 1 .. Len(R), l \in 1 .. Len(S) : u = Place(k, l, S) /\ g[u] = <<R[k], S[l]>>
    BY ONLY <1>2, Zenon
  <2>3. x[1] \in R[i] /\ x[1] \in R[k] /\ x[2] \in S[j] /\ x[2] \in S[l]
    BY <1>5, <2>1, <2>2
  <2>4. i = k /\ j = l
    BY <1>1, <2>3 DEF Cuts
  <2> QED BY <2>1, <2>2, <2>4
<1> QED BY <1>2, <1>3, <1>4, <1>5 DEF split_packed_tasks, g, R, S

---------------------------------------------------------------------------
(* The items of the tasks *)

\* The grid of tiles.
LEMMA Shape ==
  /\ ceil_div_positive(M, Mc) \in Nat \ {0} /\ ceil_div_positive(N, Nc) \in Nat \ {0}
  /\ Cardinality(RowBlocks) = ceil_div_positive(M, Mc) /\ Cardinality(ColBlocks) = ceil_div_positive(N, Nc)
  /\ Depth \in Nat \ {0} /\ N \in Nat \ {0} /\ Width \in Nat \ {0} /\ KStep \in Nat \ {0}
  /\ Mc \in Nat \ {0} /\ Alignment \in Nat \ {0} /\ MaxSide \in Nat \ {0}
<1>1. /\ M \in Nat \ {0} /\ Mc \in Nat \ {0} /\ N \in Nat \ {0} /\ Nc \in Nat \ {0}
      /\ Depth \in Nat \ {0} /\ Width \in Nat \ {0} /\ KStep \in Nat \ {0}
      /\ Alignment \in Nat \ {0} /\ MaxSide \in Nat \ {0}
  BY GridAssumption
<1>2. ceil_div_positive(M, Mc) \in Nat \ {0} /\ ceil_div_positive(N, Nc) \in Nat \ {0}
  BY <1>1, CeilDiv
<1> DEFINE r == ceil_div_positive(M, Mc)
           s == ceil_div_positive(N, Nc)
<1> HIDE DEF r, s
<1>3. r \in Nat \ {0} /\ s \in Nat \ {0} /\ RowBlocks = 0 .. r - 1 /\ ColBlocks = 0 .. s - 1
  BY <1>2 DEF RowBlocks, ColBlocks, r, s
<1>4. Cardinality(0 .. r - 1) = r /\ Cardinality(0 .. s - 1) = s
  BY <1>3, FS_Interval
<1> QED BY <1>1, <1>3, <1>4 DEF r, s

\* A list that prepares the tiles X and then adds every depth block to each of
\* them once, in order.
Products(list, X) ==
  /\ \A i \in 2 .. Len(list) : \E x \in X : \E p \in 1 .. Depth : list[i] = <<"tile", x, p>>
  /\ \A i, j \in 2 .. Len(list) : list[i] = list[j] => i = j
  /\ \A i \in 2 .. Len(list) : \A x \in X : \A p \in 2 .. Depth :
       list[i] = <<"tile", x, p>> => \E j \in 2 .. i - 1 : list[j] = <<"tile", x, p - 1>>
  /\ \A x \in X : \E i \in 2 .. Len(list) : list[i] = <<"tile", x, Depth>>
Prepares(list, X) == Len(list) \in Nat \ {0} /\ list[1] = <<"prepare", X>>
Computes(list, X) ==
  Prepares(list, X) /\ (IF call.product THEN Products(list, X) ELSE Len(list) = 1)

\* The n products of such a list, by tile and block.
Order(n, tile, block, X) ==
  /\ \A i \in 1 .. n : tile[i] \in X /\ block[i] \in 1 .. Depth
  /\ \A i, j \in 1 .. n : tile[i] = tile[j] /\ block[i] = block[j] => i = j
  /\ \A i \in 1 .. n : block[i] > 1 =>
       \E j \in 1 .. n : j < i /\ tile[j] = tile[i] /\ block[j] = block[i] - 1
  /\ \A x \in X : \E i \in 1 .. n : tile[i] = x /\ block[i] = Depth
\* A task whose list is a preparation and the products of its tiles, block
\* after block, computes those tiles.
LEMMA ComputesFrom ==
  ASSUME NEW n \in Nat \ {0}, NEW tile, NEW block, NEW X, NEW list, Order(n, tile, block, X),
         list = << <<"prepare", X>> >> \o [i \in 1 .. n |-> <<"tile", tile[i], block[i]>>]
  PROVE  Prepares(list, X) /\ Products(list, X)
<1>1. /\ Len(list) = n + 1 /\ list[1] = <<"prepare", X>>
      /\ \A i \in 2 .. n + 1 : list[i] = <<"tile", tile[i - 1], block[i - 1]>>
  <2> DEFINE rest == [i \in 1 .. n |-> <<"tile", tile[i], block[i]>>]
  <2>1. /\ rest = [i \in 1 .. n |-> rest[i]] /\ \A i \in 1 .. n : rest[i] = <<"tile", tile[i], block[i]>>
    OBVIOUS
  <2>2. list = << <<"prepare", X>> >> \o rest
    OBVIOUS
  <2> HIDE DEF rest
  <2>3. Len(list) = n + 1 /\ list[1] = <<"prepare", X>> /\ \A i \in 2 .. n + 1 : list[i] = rest[i - 1]
    BY ONLY <2>1, <2>2, n \in Nat
  <2> QED BY <2>1, <2>3
<1>2. \A i \in 2 .. n + 1 : i - 1 \in 1 .. n
  OBVIOUS
<1> USE DEF Order
<1>3. ASSUME NEW i \in 2 .. n + 1
      PROVE  \E x \in X : \E p \in 1 .. Depth : list[i] = <<"tile", x, p>>
  <2>1. tile[i - 1] \in X /\ block[i - 1] \in 1 .. Depth
    BY <1>2
  <2> QED BY ONLY <1>1, <2>1, i \in 2 .. n + 1
<1>4. ASSUME NEW i \in 2 .. n + 1, NEW j \in 2 .. n + 1, list[i] = list[j] PROVE i = j
  <2>1. tile[i - 1] = tile[j - 1] /\ block[i - 1] = block[j - 1]
    BY <1>1, <1>4
  <2>2. i - 1 = j - 1
    BY <1>2, <2>1
  <2> QED BY <2>2
<1>5. ASSUME NEW i \in 2 .. n + 1, NEW x \in X, NEW p \in 2 .. Depth, list[i] = <<"tile", x, p>>
      PROVE  \E j \in 2 .. i - 1 : list[j] = <<"tile", x, p - 1>>
  <2>1. tile[i - 1] = x /\ block[i - 1] = p
    BY <1>1, <1>5
  <2>2. PICK j \in 1 .. n : j < i - 1 /\ tile[j] = x /\ block[j] = p - 1
    <3>1. Depth \in Nat \ {0} /\ p > 1 /\ i - 1 \in 1 .. n
      BY <1>2, Shape
    <3>2. \E j \in 1 .. n : j < i - 1 /\ tile[j] = tile[i - 1] /\ block[j] = block[i - 1] - 1
      BY <2>1, <3>1
    <3> QED BY ONLY <2>1, <3>2
  <2>3. j + 1 \in 2 .. i - 1 /\ j + 1 \in 2 .. n + 1 /\ (j + 1) - 1 = j
    BY <2>2
  <2>4. list[j + 1] = <<"tile", x, p - 1>>
    BY ONLY <1>1, <2>2, <2>3
  <2> QED BY ONLY <2>3, <2>4
<1>6. ASSUME NEW x \in X PROVE \E i \in 2 .. n + 1 : list[i] = <<"tile", x, Depth>>
  <2>1. PICK i \in 1 .. n : tile[i] = x /\ block[i] = Depth
    OBVIOUS
  <2>2. i + 1 \in 2 .. n + 1 /\ (i + 1) - 1 = i
    OBVIOUS
  <2> QED BY <1>1, <2>1, <2>2
<1>7. Prepares(list, X)
  BY <1>1 DEF Prepares
<1>8. Len(list) = n + 1
  BY <1>1
<1> QED BY ONLY <1>3, <1>4, <1>5, <1>6, <1>7, <1>8, Zenon DEF Products

\* Pairs of all depth blocks with another list, block by block.
LEMMA DepthPairs ==
  ASSUME NEW r, Len(r) \in Nat \ {0}
  PROVE  LET s == Pairs(InOrder(1 .. Depth), r) IN
         /\ DOMAIN s = 1 .. Len(s) /\ Len(s) \in Nat
         /\ \A i \in 1 .. Len(s) : \E p \in 1 .. Depth : \E y \in 1 .. Len(r) :
              i = Place(p, y, r) /\ s[i] = <<p, r[y]>>
         /\ \A p \in 1 .. Depth : \A y \in 1 .. Len(r) :
              Place(p, y, r) \in 1 .. Len(s) /\ s[Place(p, y, r)] = <<p, r[y]>>
         /\ \A p \in 2 .. Depth : \A y \in 1 .. Len(r) :
              Place(p - 1, y, r) < Place(p, y, r)
<1> DEFINE D == InOrder(1 .. Depth)
           s == Pairs(D, r)
           n == Len(D) * Len(r)
<1>1. Depth \in Nat \ {0} /\ Len(D) = Depth /\ \A p \in 1 .. Depth : D[p] = p
  <2>1. Depth \in Nat \ {0}
    BY Shape
  <2>2. /\ Len(D) = Depth - 1 + 1
        /\ \A i \in 1 .. Depth - 1 + 1 : D[i] = 1 + i - 1
    <3>1. 1 \in Int /\ Depth \in Int /\ 1 <= Depth
      BY <2>1
    <3> QED BY ONLY <3>1, InOrderLists
  <2> HIDE DEF D
  <2> QED BY ONLY <2>1, <2>2
<1> HIDE DEF D
<1>2. Len(r) \in Nat \ {0}
  OBVIOUS
<1>3. /\ DOMAIN s = 1 .. n /\ Len(s) = n /\ n \in Nat
      /\ \A i \in 1 .. n : \E p \in 1 .. Depth : \E y \in 1 .. Len(r) :
           i = Place(p, y, r) /\ s[i] = <<p, r[y]>>
      /\ \A p \in 1 .. Depth : \A y \in 1 .. Len(r) :
           Place(p, y, r) \in 1 .. n /\ s[Place(p, y, r)] = <<p, r[y]>>
  <2>1. Len(D) \in Nat /\ Len(r) \in Nat \ {0}
    BY <1>1, <1>2
  <2>2. /\ DOMAIN s = 1 .. n /\ Len(s) = n /\ n \in Nat
        /\ \A i \in DOMAIN s : \E p \in 1 .. Len(D) : \E y \in 1 .. Len(r) :
             i = Place(p, y, r) /\ s[i] = <<D[p], r[y]>>
        /\ \A p \in 1 .. Len(D) : \A y \in 1 .. Len(r) :
             Place(p, y, r) \in DOMAIN s /\ s[Place(p, y, r)] = <<D[p], r[y]>>
    <3>1. DOMAIN s = 1 .. n /\ Len(s) = n /\ n \in Nat
      BY ONLY <2>1, PairsList
    <3>2. /\ \A i \in DOMAIN s : \E p \in 1 .. Len(D) : \E y \in 1 .. Len(r) :
               i = Place(p, y, r) /\ s[i] = <<D[p], r[y]>>
          /\ \A p \in 1 .. Len(D) : \A y \in 1 .. Len(r) :
               Place(p, y, r) \in DOMAIN s /\ s[Place(p, y, r)] = <<D[p], r[y]>>
      BY ONLY <2>1, PairsList
    <3> QED BY ONLY <3>1, <3>2, Zenon
  <2> HIDE DEF s, n
  <2>3. ASSUME NEW i \in 1 .. n
        PROVE  \E p \in 1 .. Depth : \E y \in 1 .. Len(r) :
                 i = Place(p, y, r) /\ s[i] = <<p, r[y]>>
    BY ONLY <1>1, <2>2, <2>3
  <2>4. ASSUME NEW p \in 1 .. Depth, NEW y \in 1 .. Len(r)
        PROVE  Place(p, y, r) \in 1 .. n /\ s[Place(p, y, r)] = <<p, r[y]>>
    BY ONLY <1>1, <2>2, <2>4
  <2> QED BY ONLY <2>2, <2>3, <2>4, Zenon
<1>4. ASSUME NEW p \in 2 .. Depth, NEW y \in 1 .. Len(r)
      PROVE  Place(p - 1, y, r) < Place(p, y, r)
  <2> DEFINE l == Len(r)
  <2>1. (p - 1) * l = ((p - 1) - 1) * l + l /\ (p - 1) * l \in Int /\ ((p - 1) - 1) * l \in Int
    BY <1>1
  <2> HIDE DEF l
  <2>2. ((p - 1) - 1) * l + y < (p - 1) * l + y
    BY <2>1 DEF l
  <2> QED BY <2>2 DEF Place, l
<1>5. n = Len(s)
  BY <1>3
<1> HIDE DEF s, n
<1>6. /\ DOMAIN s = 1 .. Len(s) /\ Len(s) \in Nat
      /\ \A i \in 1 .. Len(s) : \E p \in 1 .. Depth : \E y \in 1 .. Len(r) :
           i = Place(p, y, r) /\ s[i] = <<p, r[y]>>
      /\ \A p \in 1 .. Depth : \A y \in 1 .. Len(r) :
           Place(p, y, r) \in 1 .. Len(s) /\ s[Place(p, y, r)] = <<p, r[y]>>
  BY ONLY <1>3, <1>5, ZenonT(60)
<1> QED BY <1>4, <1>6 DEF s, D

\* A rectangle, depth block by depth block.
LEMMA TileTaskComputes ==
  ASSUME NEW A, NEW B, Lists(InOrder(A), A), Lists(InOrder(B), B)
  PROVE  LET list == << <<"prepare", A \X B>> >> \o sgemm_packed_task_fn(<<A, B>>)
         IN  Prepares(list, A \X B) /\ Products(list, A \X B)
<1> DEFINE D == InOrder(1 .. Depth)
           r == Pairs(InOrder(A), InOrder(B))
           s == Pairs(D, r)
           n == Len(s)
           tile == [i \in 1 .. n |-> s[i][2]]
           block == [i \in 1 .. n |-> s[i][1]]
<1>1. Depth \in Nat \ {0}
  BY Shape
<1>2. Lists(r, A \X B)
  BY PairsLists
<1> HIDE DEF r
<1>3. /\ DOMAIN s = 1 .. n /\ n \in Nat
      /\ \A i \in 1 .. n : \E p \in 1 .. Depth : \E y \in 1 .. Len(r) :
           i = Place(p, y, r) /\ s[i] = <<p, r[y]>>
      /\ \A p \in 1 .. Depth : \A y \in 1 .. Len(r) :
           Place(p, y, r) \in 1 .. n /\ s[Place(p, y, r)] = <<p, r[y]>>
      /\ \A p \in 2 .. Depth : \A y \in 1 .. Len(r) : Place(p - 1, y, r) < Place(p, y, r)
  BY <1>2, DepthPairs DEF Lists
<1>4. sgemm_packed_task_fn(<<A, B>>) = [i \in 1 .. n |-> <<"tile", tile[i], block[i]>>]
  <2>1. sgemm_packed_task_fn(<<A, B>>) = [i \in DOMAIN s |-> <<"tile", s[i][2], s[i][1]>>]
    BY DEF sgemm_packed_task_fn, r, D
  <2>2. DOMAIN s = 1 .. n
    BY <1>3
  <2> HIDE DEF s, n
  <2>3. \A i \in 1 .. n : tile[i] = s[i][2] /\ block[i] = s[i][1]
    OBVIOUS
  <2> HIDE DEF tile, block
  <2>4. [i \in DOMAIN s |-> <<"tile", s[i][2], s[i][1]>>] = [i \in 1 .. n |-> <<"tile", tile[i], block[i]>>]
    BY ONLY <2>2, <2>3
  <2> QED BY ONLY <2>1, <2>4, Zenon
<1> HIDE DEF s, n
<1>5. n # 0
  <2>1. Len(r) \in Nat \ {0}
    BY <1>2 DEF Lists
  <2>2. 1 \in 1 .. Depth /\ 1 \in 1 .. Len(r)
    BY ONLY <1>1, <2>1
  <2>3. Place(1, 1, r) \in 1 .. n
    BY ONLY <1>3, <2>2, Zenon
  <2> QED BY ONLY <1>3, <2>3
<1>6. /\ \A i \in 1 .. n : \E p \in 1 .. Depth : \E y \in 1 .. Len(r) :
           i = Place(p, y, r) /\ block[i] = p /\ tile[i] = r[y]
      /\ \A p \in 1 .. Depth : \A y \in 1 .. Len(r) :
           Place(p, y, r) \in 1 .. n /\ block[Place(p, y, r)] = p /\ tile[Place(p, y, r)] = r[y]
  <2>1. \A i \in 1 .. n : tile[i] = s[i][2] /\ block[i] = s[i][1]
    OBVIOUS
  <2> HIDE DEF tile, block
  <2>2. ASSUME NEW i \in 1 .. n
        PROVE  \E p \in 1 .. Depth : \E y \in 1 .. Len(r) :
                 i = Place(p, y, r) /\ block[i] = p /\ tile[i] = r[y]
    <3>1. PICK p \in 1 .. Depth, y \in 1 .. Len(r) : i = Place(p, y, r) /\ s[i] = <<p, r[y]>>
      BY ONLY <1>3, <2>2, Zenon
    <3>2. block[i] = p /\ tile[i] = r[y]
      BY ONLY <2>1, <2>2, <3>1
    <3> QED BY ONLY <3>1, <3>2, Zenon
  <2>3. ASSUME NEW p \in 1 .. Depth, NEW y \in 1 .. Len(r)
        PROVE  /\ Place(p, y, r) \in 1 .. n
               /\ block[Place(p, y, r)] = p /\ tile[Place(p, y, r)] = r[y]
    <3>1. Place(p, y, r) \in 1 .. n /\ s[Place(p, y, r)] = <<p, r[y]>>
      BY ONLY <1>3, <2>3, Zenon
    <3> QED BY ONLY <2>1, <3>1
  <2> QED BY ONLY <2>2, <2>3, Zenon
<1> HIDE DEF tile, block
<1>7. \A i \in 1 .. n : tile[i] \in A \X B /\ block[i] \in 1 .. Depth
  BY <1>2, <1>6 DEF Lists
<1>8. ASSUME NEW i \in 1 .. n, NEW j \in 1 .. n, tile[i] = tile[j] /\ block[i] = block[j]
      PROVE  i = j
  <2>1. PICK p \in 1 .. Depth, y \in 1 .. Len(r) : i = Place(p, y, r) /\ block[i] = p /\ tile[i] = r[y]
    BY ONLY <1>6, Zenon
  <2>2. PICK q \in 1 .. Depth, z \in 1 .. Len(r) : j = Place(q, z, r) /\ block[j] = q /\ tile[j] = r[z]
    BY ONLY <1>6
  <2>3. p = q /\ r[y] = r[z]
    BY ONLY <1>8, <2>1, <2>2, Zenon
  <2>4. y = z
    BY ONLY <1>2, <2>1, <2>2, <2>3, Zenon DEF Lists
  <2> QED BY ONLY <2>1, <2>2, <2>3, <2>4, Zenon
<1>9. ASSUME NEW i \in 1 .. n, block[i] > 1
      PROVE  \E j \in 1 .. n : j < i /\ tile[j] = tile[i] /\ block[j] = block[i] - 1
  <2>1. PICK p \in 1 .. Depth, y \in 1 .. Len(r) : i = Place(p, y, r) /\ block[i] = p /\ tile[i] = r[y]
    BY ONLY <1>6
  <2>2. p - 1 \in 1 .. Depth
    BY <1>1, <1>9, <2>1
  <2>3. Place(p - 1, y, r) < Place(p, y, r)
    <3>1. p \in 2 .. Depth
      BY ONLY <1>1, <1>9, <2>1
    <3> QED BY ONLY <1>3, <2>1, <3>1, Zenon
  <2>4. Place(p - 1, y, r) \in 1 .. n /\ block[Place(p - 1, y, r)] = p - 1
        /\ tile[Place(p - 1, y, r)] = r[y]
    BY ONLY <1>6, <2>1, <2>2, Zenon
  <2>5. Place(p - 1, y, r) < i /\ tile[Place(p - 1, y, r)] = tile[i]
        /\ block[Place(p - 1, y, r)] = block[i] - 1
    BY ONLY <2>1, <2>3, <2>4
  <2> QED BY ONLY <2>4, <2>5, Zenon
<1>10. ASSUME NEW x \in A \X B PROVE \E i \in 1 .. n : tile[i] = x /\ block[i] = Depth
  <2>1. PICK y \in 1 .. Len(r) : r[y] = x
    BY <1>2 DEF Lists
  <2>2. Depth \in 1 .. Depth
    BY <1>1
  <2> QED BY ONLY <1>6, <2>1, <2>2
<1> DEFINE list == << <<"prepare", A \X B>> >> \o sgemm_packed_task_fn(<<A, B>>)
<1>11. list = << <<"prepare", A \X B>> >> \o [i \in 1 .. n |-> <<"tile", tile[i], block[i]>>]
  BY ONLY <1>4, Zenon
<1>12. n \in Nat \ {0}
  BY <1>3, <1>5
<1> HIDE DEF list
<1> DEFINE X == A \X B
<1> HIDE DEF X
<1>13. Prepares(list, X) /\ Products(list, X)
  <2>1. list = << <<"prepare", X>> >> \o [i \in 1 .. n |-> <<"tile", tile[i], block[i]>>]
    BY ONLY <1>11, Zenon DEF X
  <2>2. Order(n, tile, block, X)
    BY ONLY <1>7, <1>8, <1>9, <1>10, Zenon DEF X, Order
  <2> HIDE DEF list
  <2> QED BY ONLY <1>12, <2>1, <2>2, ComputesFrom
<1> QED BY <1>13 DEF list, X

\* All of C, column block by column block.
LEMMA SerialComputes ==
  Prepares(SerialItems, Tiles) /\ Products(SerialItems, Tiles)
<1> DEFINE D == InOrder(1 .. Depth)
           C == InOrder(ColBlocks)
           R == InOrder(RowBlocks)
           q == Pairs(D, R)
           s == Pairs(C, q)
           n == Len(s)
           tile == [i \in 1 .. n |-> <<s[i][2][2], s[i][1]>>]
           block == [i \in 1 .. n |-> s[i][2][1]]
<1>1. Depth \in Nat \ {0}
  BY Shape
<1>2. Lists(R, RowBlocks) /\ Lists(C, ColBlocks)
  <2> DEFINE a == ceil_div_positive(M, Mc) - 1
             b == ceil_div_positive(N, Nc) - 1
  <2>1. 0 \in Int /\ a \in Int /\ b \in Int /\ 0 <= a /\ 0 <= b
    BY Shape
  <2>2. RowBlocks = 0 .. a /\ ColBlocks = 0 .. b
    BY DEF RowBlocks, ColBlocks
  <2> HIDE DEF a, b
  <2>3. Lists(InOrder(0 .. a), 0 .. a) /\ Lists(InOrder(0 .. b), 0 .. b)
    BY ONLY <2>1, InOrderLists
  <2> QED BY <2>2, <2>3
<1> HIDE DEF R, C
<1>3. Len(R) \in Nat \ {0} /\ Len(C) \in Nat \ {0}
  BY <1>2 DEF Lists
<1>4. /\ DOMAIN q = 1 .. Len(q) /\ Len(q) \in Nat
      /\ \A i \in 1 .. Len(q) : \E p \in 1 .. Depth : \E y \in 1 .. Len(R) :
           i = Place(p, y, R) /\ q[i] = <<p, R[y]>>
      /\ \A p \in 1 .. Depth : \A y \in 1 .. Len(R) :
           Place(p, y, R) \in 1 .. Len(q) /\ q[Place(p, y, R)] = <<p, R[y]>>
      /\ \A p \in 2 .. Depth : \A y \in 1 .. Len(R) : Place(p - 1, y, R) < Place(p, y, R)
  BY <1>3, DepthPairs
<1> HIDE DEF q
<1>5. Len(q) \in Nat \ {0}
  <2>1. 1 \in 1 .. Depth /\ 1 \in 1 .. Len(R)
    BY ONLY <1>1, <1>3
  <2>2. Place(1, 1, R) \in 1 .. Len(q)
    BY ONLY <1>4, <2>1, Zenon
  <2> QED BY ONLY <1>4, <2>2
<1>6. /\ DOMAIN s = 1 .. n /\ n \in Nat
      /\ \A i \in 1 .. n : \E x \in 1 .. Len(C) : \E z \in 1 .. Len(q) :
           i = Place(x, z, q) /\ s[i] = <<C[x], q[z]>>
      /\ \A x \in 1 .. Len(C) : \A z \in 1 .. Len(q) :
           Place(x, z, q) \in 1 .. n /\ s[Place(x, z, q)] = <<C[x], q[z]>>
      /\ \A x, u \in 1 .. Len(C) : \A z, v \in 1 .. Len(q) :
           Place(x, z, q) = Place(u, v, q) => x = u /\ z = v
  <2>1. Len(C) \in Nat /\ Len(q) \in Nat \ {0}
    BY <1>3, <1>5
  <2> DEFINE m == Len(C) * Len(q)
  <2>2. DOMAIN s = 1 .. m /\ Len(s) = m /\ m \in Nat
    BY ONLY <2>1, PairsList
  <2>3. /\ \A i \in DOMAIN s : \E x \in 1 .. Len(C) : \E z \in 1 .. Len(q) :
             i = Place(x, z, q) /\ s[i] = <<C[x], q[z]>>
        /\ \A x \in 1 .. Len(C) : \A z \in 1 .. Len(q) :
             Place(x, z, q) \in DOMAIN s /\ s[Place(x, z, q)] = <<C[x], q[z]>>
    BY ONLY <2>1, PairsList
  <2>4. \A x, u \in 1 .. Len(C) : \A z, v \in 1 .. Len(q) :
          Place(x, z, q) = Place(u, v, q) => x = u /\ z = v
    BY ONLY <2>1, PairsList
  <2> HIDE DEF s, m
  <2>5. DOMAIN s = 1 .. n /\ n \in Nat
    BY ONLY <2>2
  <2>6. ASSUME NEW i \in 1 .. n
        PROVE  \E x \in 1 .. Len(C) : \E z \in 1 .. Len(q) : i = Place(x, z, q) /\ s[i] = <<C[x], q[z]>>
    <3>1. i \in DOMAIN s
      BY ONLY <2>5, <2>6, Zenon
    <3> QED BY ONLY <2>3, <3>1, Zenon
  <2>7. ASSUME NEW x \in 1 .. Len(C), NEW z \in 1 .. Len(q)
        PROVE  Place(x, z, q) \in 1 .. n /\ s[Place(x, z, q)] = <<C[x], q[z]>>
    BY ONLY <2>3, <2>5, <2>7, Zenon
  <2> HIDE DEF n
  <2> QED BY ONLY <2>4, <2>5, <2>6, <2>7, Zenon
<1>7. SerialItems = << <<"prepare", Tiles>> >> \o [i \in 1 .. n |-> <<"tile", tile[i], block[i]>>]
  <2>1. SerialItems = << <<"prepare", Tiles>> >> \o
                        [i \in DOMAIN s |-> <<"tile", <<s[i][2][2], s[i][1]>>, s[i][2][1]>>]
    BY Zenon DEF SerialItems, s, q, D, C, R
  <2>2. DOMAIN s = 1 .. n
    BY <1>6
  <2> HIDE DEF s, n
  <2>3. \A i \in 1 .. n : tile[i] = <<s[i][2][2], s[i][1]>> /\ block[i] = s[i][2][1]
    OBVIOUS
  <2> HIDE DEF tile, block
  <2>4. [i \in DOMAIN s |-> <<"tile", <<s[i][2][2], s[i][1]>>, s[i][2][1]>>]
          = [i \in 1 .. n |-> <<"tile", tile[i], block[i]>>]
    BY ONLY <2>2, <2>3
  <2> QED BY ONLY <2>1, <2>4, Zenon
<1> HIDE DEF s, n
<1>8. n \in Nat \ {0}
  <2>1. 1 \in 1 .. Len(C) /\ 1 \in 1 .. Len(q)
    BY ONLY <1>3, <1>5
  <2>2. Place(1, 1, q) \in 1 .. n
    BY ONLY <1>6, <2>1, Zenon
  <2> QED BY ONLY <1>6, <2>2
\* The place of tile <<R[y], C[x]>> and block p.
<1> DEFINE At(x, p, y) == Place(x, Place(p, y, R), q)
<1>9. /\ \A i \in 1 .. n : \E x \in 1 .. Len(C) : \E p \in 1 .. Depth : \E y \in 1 .. Len(R) :
           i = At(x, p, y) /\ block[i] = p /\ tile[i] = <<R[y], C[x]>>
      /\ \A x \in 1 .. Len(C) : \A p \in 1 .. Depth : \A y \in 1 .. Len(R) :
           At(x, p, y) \in 1 .. n /\ block[At(x, p, y)] = p /\ tile[At(x, p, y)] = <<R[y], C[x]>>
  <2>1. \A i \in 1 .. n : tile[i] = <<s[i][2][2], s[i][1]>> /\ block[i] = s[i][2][1]
    OBVIOUS
  <2> HIDE DEF tile, block
  <2>2. ASSUME NEW i \in 1 .. n
        PROVE  \E x \in 1 .. Len(C) : \E p \in 1 .. Depth : \E y \in 1 .. Len(R) :
                 i = At(x, p, y) /\ block[i] = p /\ tile[i] = <<R[y], C[x]>>
    <3>1. PICK x \in 1 .. Len(C), z \in 1 .. Len(q) : i = Place(x, z, q) /\ s[i] = <<C[x], q[z]>>
      BY ONLY <1>6, <2>2, Zenon
    <3>2. PICK p \in 1 .. Depth, y \in 1 .. Len(R) : z = Place(p, y, R) /\ q[z] = <<p, R[y]>>
      BY ONLY <1>4, <3>1, Zenon
    <3>3. block[i] = p /\ tile[i] = <<R[y], C[x]>>
      BY ONLY <2>1, <2>2, <3>1, <3>2
    <3>4. i = At(x, p, y)
      BY ONLY <3>1, <3>2, Zenon DEF At
    <3> QED BY ONLY <3>3, <3>4, Zenon
  <2>3. ASSUME NEW x \in 1 .. Len(C), NEW p \in 1 .. Depth, NEW y \in 1 .. Len(R)
        PROVE  /\ At(x, p, y) \in 1 .. n
               /\ block[At(x, p, y)] = p /\ tile[At(x, p, y)] = <<R[y], C[x]>>
    <3> DEFINE z == Place(p, y, R)
    <3>1. z \in 1 .. Len(q) /\ q[z] = <<p, R[y]>>
      BY ONLY <1>4, <2>3, Zenon
    <3> HIDE DEF z
    <3>2. Place(x, z, q) \in 1 .. n /\ s[Place(x, z, q)] = <<C[x], q[z]>>
      BY ONLY <1>6, <2>3, <3>1, Zenon
    <3>3. block[Place(x, z, q)] = p /\ tile[Place(x, z, q)] = <<R[y], C[x]>>
      BY ONLY <2>1, <3>1, <3>2
    <3> QED BY ONLY <3>2, <3>3, Zenon DEF z
  <2> HIDE DEF At
  <2>4. \A i \in 1 .. n : \E x \in 1 .. Len(C) : \E p \in 1 .. Depth : \E y \in 1 .. Len(R) :
           i = At(x, p, y) /\ block[i] = p /\ tile[i] = <<R[y], C[x]>>
    BY ONLY <2>2
  <2>5. \A x \in 1 .. Len(C) : \A p \in 1 .. Depth : \A y \in 1 .. Len(R) :
           At(x, p, y) \in 1 .. n /\ block[At(x, p, y)] = p /\ tile[At(x, p, y)] = <<R[y], C[x]>>
    BY ONLY <2>3
  <2> QED BY ONLY <2>4, <2>5
<1> HIDE DEF tile, block
<1>10. \A i \in 1 .. n : tile[i] \in Tiles /\ block[i] \in 1 .. Depth
  <2>1. \A x \in 1 .. Len(C), y \in 1 .. Len(R) : <<R[y], C[x]>> \in Tiles
    BY <1>2 DEF Lists, Tiles
  <2> HIDE DEF At
  <2>2. ASSUME NEW i \in 1 .. n PROVE tile[i] \in Tiles /\ block[i] \in 1 .. Depth
    <3>1. PICK x \in 1 .. Len(C), p \in 1 .. Depth, y \in 1 .. Len(R) :
            i = At(x, p, y) /\ block[i] = p /\ tile[i] = <<R[y], C[x]>>
      BY ONLY <1>9, <2>2, Zenon
    <3>2. <<R[y], C[x]>> \in Tiles
      BY ONLY <2>1, <3>1, Zenon
    <3> QED BY ONLY <3>1, <3>2, Zenon
  <2> QED BY <2>2
<1>11. ASSUME NEW i \in 1 .. n, NEW j \in 1 .. n, tile[i] = tile[j] /\ block[i] = block[j]
       PROVE  i = j
  <2> HIDE DEF At
  <2>1. PICK x \in 1 .. Len(C), p \in 1 .. Depth, y \in 1 .. Len(R) :
          i = At(x, p, y) /\ block[i] = p /\ tile[i] = <<R[y], C[x]>>
    BY ONLY <1>9, <1>11, Zenon
  <2>2. PICK u \in 1 .. Len(C), o \in 1 .. Depth, z \in 1 .. Len(R) :
          j = At(u, o, z) /\ block[j] = o /\ tile[j] = <<R[z], C[u]>>
    BY ONLY <1>9, <1>11, Zenon
  <2>3. p = o /\ R[y] = R[z] /\ C[x] = C[u]
    BY ONLY <1>11, <2>1, <2>2
  <2>4. y = z /\ x = u
    BY <1>2, <2>3 DEF Lists
  <2> QED BY <2>1, <2>2, <2>3, <2>4
<1>12. ASSUME NEW i \in 1 .. n, block[i] > 1
       PROVE  \E j \in 1 .. n : j < i /\ tile[j] = tile[i] /\ block[j] = block[i] - 1
  <2>1. PICK x \in 1 .. Len(C), p \in 1 .. Depth, y \in 1 .. Len(R) :
          i = At(x, p, y) /\ block[i] = p /\ tile[i] = <<R[y], C[x]>>
    <3> HIDE DEF At
    <3> QED BY ONLY <1>9, <1>12, Zenon
  <2>2. p - 1 \in 1 .. Depth /\ p \in 2 .. Depth
    BY ONLY <1>1, <1>12, <2>1
  <2>3. Place(p - 1, y, R) < Place(p, y, R)
    BY ONLY <1>4, <2>1, <2>2, Zenon
  <2>4. Place(p - 1, y, R) \in 1 .. Len(q) /\ Place(p, y, R) \in 1 .. Len(q)
    BY ONLY <1>4, <2>1, <2>2, Zenon
  <2>5. At(x, p - 1, y) < At(x, p, y)
    <3> DEFINE o == (x - 1) * Len(q)
    <3>1. o \in Int
      BY <1>5
    <3> HIDE DEF o
    <3> DEFINE a == Place(p - 1, y, R)
               b == Place(p, y, R)
    <3>2. a \in Int /\ b \in Int /\ a < b
      BY ONLY <1>5, <2>3, <2>4
    <3> HIDE DEF a, b
    <3>3. o + a < o + b
      BY ONLY <3>1, <3>2
    <3>4. At(x, p - 1, y) = o + a /\ At(x, p, y) = o + b
      BY ONLY Zenon DEF At, Place, o, a, b
    <3> QED BY ONLY <3>3, <3>4
  <2> HIDE DEF At
  <2>6. At(x, p - 1, y) \in 1 .. n /\ block[At(x, p - 1, y)] = p - 1
        /\ tile[At(x, p - 1, y)] = <<R[y], C[x]>>
    BY ONLY <1>9, <2>1, <2>2, ZenonT(60)
  <2> QED BY ONLY <2>1, <2>5, <2>6, Zenon
<1>13. ASSUME NEW x \in Tiles PROVE \E i \in 1 .. n : tile[i] = x /\ block[i] = Depth
  <2>1. PICK y \in 1 .. Len(R), z \in 1 .. Len(C) : x = <<R[y], C[z]>>
    BY <1>2 DEF Lists, Tiles
  <2>2. Depth \in 1 .. Depth
    BY <1>1
  <2> HIDE DEF At
  <2>3. At(z, Depth, y) \in 1 .. n /\ block[At(z, Depth, y)] = Depth
        /\ tile[At(z, Depth, y)] = <<R[y], C[z]>>
    BY ONLY <1>9, <2>1, <2>2, ZenonT(60)
  <2> QED BY ONLY <2>1, <2>3, Zenon
<1>14. Order(n, tile, block, Tiles)
  BY ONLY <1>10, <1>11, <1>12, <1>13, Zenon DEF Order
<1> QED BY ONLY <1>7, <1>8, <1>14, ComputesFrom

\* The task grid of a call: rectangles that cut the tiles, each task's list.
LEMMA TileGrid ==
  /\ Len(TileTasks) \in Nat /\ DOMAIN TileTasks = 1 .. Len(TileTasks)
  /\ \A t \in DOMAIN TileTasks : Rectangle(t) \subseteq Tiles
  /\ \A x \in Tiles : \E t \in DOMAIN TileTasks : x \in Rectangle(t)
  /\ \A t, u \in DOMAIN TileTasks : \A x : x \in Rectangle(t) /\ x \in Rectangle(u) => t = u
  /\ DOMAIN Items("tiles", call.product) = DOMAIN TileTasks
  /\ \A t \in DOMAIN TileTasks : Computes(Items("tiles", call.product)[t], Rectangle(t))
<1> DEFINE rows == ceil_div_positive(M, Mc)
           cols == ceil_div_positive(N, Nc)
<1>1. /\ rows \in Nat \ {0} /\ cols \in Nat \ {0}
      /\ Cardinality(RowBlocks) = rows /\ Cardinality(ColBlocks) = cols
  BY Shape
<1>2. RowBlocks = 0 .. rows - 1 /\ ColBlocks = 0 .. cols - 1
  BY DEF RowBlocks, ColBlocks
<1> HIDE DEF rows, cols
<1>3. TileTasks = split_packed_tasks(rows, cols)
  BY <1>1, Zenon DEF TileTasks
<1>4. /\ Len(TileTasks) \in Nat /\ DOMAIN TileTasks = 1 .. Len(TileTasks)
      /\ \A t \in DOMAIN TileTasks : IsRange(TileTasks[t][1], rows) /\ IsRange(TileTasks[t][2], cols)
      /\ \A x \in (0 .. rows - 1) \X (0 .. cols - 1) :
           \E t \in DOMAIN TileTasks : x \in TileTasks[t][1] \X TileTasks[t][2]
      /\ \A t, u \in DOMAIN TileTasks : \A x :
           x \in TileTasks[t][1] \X TileTasks[t][2] /\ x \in TileTasks[u][1] \X TileTasks[u][2] => t = u
  <2> DEFINE g == split_packed_tasks(rows, cols)
  <2>1. rows \in Nat \ {0} /\ cols \in Nat \ {0}
    BY <1>1
  <2>2. /\ Len(g) \in Nat /\ DOMAIN g = 1 .. Len(g)
        /\ \A t \in DOMAIN g : IsRange(g[t][1], rows) /\ IsRange(g[t][2], cols)
        /\ \A x \in (0 .. rows - 1) \X (0 .. cols - 1) :
             \E t \in DOMAIN g : x \in g[t][1] \X g[t][2]
        /\ \A t, u \in DOMAIN g : \A x :
             x \in g[t][1] \X g[t][2] /\ x \in g[u][1] \X g[u][2] => t = u
    BY ONLY <2>1, GridCuts, Zenon
  <2> HIDE DEF g
  <2>3. TileTasks = g
    BY <1>3 DEF g
  <2> QED BY ONLY <2>2, <2>3, Zenon
<1>5. ASSUME NEW t \in DOMAIN TileTasks
      PROVE  /\ Lists(InOrder(TileTasks[t][1]), TileTasks[t][1]) /\ TileTasks[t][1] \subseteq 0 .. rows - 1
             /\ Lists(InOrder(TileTasks[t][2]), TileTasks[t][2]) /\ TileTasks[t][2] \subseteq 0 .. cols - 1
  <2>1. rows \in Nat /\ cols \in Nat
    BY <1>1
  <2> QED BY ONLY <1>4, <1>5, <2>1, RangeLists
<1>6. \A t \in DOMAIN TileTasks : Rectangle(t) \subseteq Tiles
  BY <1>2, <1>5 DEF Rectangle, Tiles
<1>7. \A t \in DOMAIN TileTasks :
        Items("tiles", call.product)[t] =
          (IF call.product THEN << <<"prepare", Rectangle(t)>> >> \o sgemm_packed_task_fn(TileTasks[t])
           ELSE << <<"prepare", Rectangle(t)>> >>)
  BY DEF Items, Computing, Preparing, Rectangle
<1>8. DOMAIN Items("tiles", call.product) = DOMAIN TileTasks
  BY DEF Items, Computing, Preparing
<1>9. ASSUME NEW t \in DOMAIN TileTasks
      PROVE  Computes(Items("tiles", call.product)[t], Rectangle(t))
  <2> DEFINE list == Items("tiles", call.product)[t]
             A == TileTasks[t][1]
             B == TileTasks[t][2]
  <2>1. CASE call.product
    <3>1. TileTasks[t] = <<A, B>>
      BY <1>1, <1>4, <1>3 DEF split_packed_tasks, Pairs
    <3>2. list = << <<"prepare", Rectangle(t)>> >> \o sgemm_packed_task_fn(<<A, B>>)
      BY <1>7, <2>1, <3>1
    <3>3. Rectangle(t) = A \X B
      BY Zenon DEF Rectangle
    <3>4. Lists(InOrder(A), A) /\ Lists(InOrder(B), B)
      BY <1>5, Zenon
    <3> HIDE DEF list, A, B
    <3>5. list = << <<"prepare", A \X B>> >> \o sgemm_packed_task_fn(<<A, B>>)
      BY ONLY <3>2, <3>3, Zenon
    <3>6. Prepares(list, A \X B) /\ Products(list, A \X B)
      BY ONLY <3>4, <3>5, TileTaskComputes
    <3> QED BY ONLY <2>1, <3>3, <3>6, Zenon DEF Computes, list
  <2>2. CASE ~call.product
    <3>1. list = << <<"prepare", Rectangle(t)>> >>
      BY <1>7, <2>2
    <3> HIDE DEF list
    <3>2. Len(list) = 1 /\ list[1] = <<"prepare", Rectangle(t)>>
      BY ONLY <3>1
    <3> QED BY ONLY <2>2, <3>2 DEF Computes, Prepares, list
  <2> QED BY <2>1, <2>2
<1>10. \A x \in Tiles : \E t \in DOMAIN TileTasks : x \in Rectangle(t)
  BY <1>2, <1>4, Zenon DEF Tiles, Rectangle
<1>11. \A t, u \in DOMAIN TileTasks : \A x : x \in Rectangle(t) /\ x \in Rectangle(u) => t = u
  BY <1>4, Zenon DEF Rectangle
<1> QED BY ONLY <1>4, <1>6, <1>8, <1>9, <1>10, <1>11, Zenon

---------------------------------------------------------------------------
(* The packing lists *)

\* The tasks of list pack panels only, none is empty, and they pack all of S.
IsPack(item) == item[1] = "A" \/ item[1] = "B"
Packs(list, S) ==
  /\ Len(list) \in Nat \ {0} /\ DOMAIN list = 1 .. Len(list)
  /\ \A t \in 1 .. Len(list) :
       Len(list[t]) \in Nat \ {0} /\ \A i \in 1 .. Len(list[t]) : IsPack(list[t][i])
  /\ \A y \in S : \E t \in 1 .. Len(list) : \E i \in 1 .. Len(list[t]) : y \in Put(list[t][i])

\* The tasks that pack A fill every panel of A (sgemm_pack_a_task_fn).
LEMMA APacks == Packs(AItems, PanelsOfA)
<1> DEFINE rows == ceil_div_positive(M, Mc)
           g == split_packed_tasks(rows, Depth)
<1>1. /\ rows \in Nat \ {0} /\ Cardinality(RowBlocks) = rows /\ Depth \in Nat \ {0}
      /\ RowBlocks = 0 .. rows - 1
  BY Shape DEF RowBlocks
<1> HIDE DEF rows
<1>2. /\ Len(g) \in Nat /\ DOMAIN g = 1 .. Len(g)
      /\ \A t \in DOMAIN g : IsRange(g[t][1], rows) /\ IsRange(g[t][2], Depth)
      /\ \A x \in (0 .. rows - 1) \X (0 .. Depth - 1) :
           \E t \in DOMAIN g : x \in g[t][1] \X g[t][2]
  <2>1. rows \in Nat \ {0} /\ Depth \in Nat \ {0}
    BY <1>1
  <2> QED BY ONLY <2>1, GridCuts, Zenon
<1>3. AItems = [t \in DOMAIN g |-> sgemm_shared_a_task(g[t])]
  BY <1>1, Zenon DEF AItems
<1> HIDE DEF g
<1>4. DOMAIN AItems = 1 .. Len(g) /\ Len(AItems) = Len(g)
      /\ \A t \in 1 .. Len(g) : AItems[t] = sgemm_shared_a_task(g[t])
  BY ONLY <1>2, <1>3
<1>5. ASSUME NEW t \in 1 .. Len(g)
      PROVE  /\ Len(AItems[t]) \in Nat \ {0}
             /\ \A i \in 1 .. Len(AItems[t]) : IsPack(AItems[t][i])
             /\ \A rb \in g[t][1] : \A k \in g[t][2] : \E i \in 1 .. Len(AItems[t]) :
                  AItems[t][i] = <<"A", rb, k + 1>>
  <2> DEFINE s == Pairs(InOrder(g[t][1]), InOrder(g[t][2]))
  <2>1. IsRange(g[t][1], rows) /\ IsRange(g[t][2], Depth) /\ rows \in Nat /\ Depth \in Nat
    BY <1>1, <1>2, <1>5
  <2>2. Lists(InOrder(g[t][1]), g[t][1]) /\ Lists(InOrder(g[t][2]), g[t][2])
    BY ONLY <2>1, RangeLists
  <2>3. Lists(s, g[t][1] \X g[t][2])
    BY ONLY <2>2, PairsLists
  <2>4. AItems[t] = [x \in DOMAIN s |-> <<"A", s[x][1], s[x][2] + 1>>]
    BY <1>4, <1>5 DEF sgemm_shared_a_task
  <2> HIDE DEF s
  <2>5. /\ Len(s) \in Nat \ {0} /\ DOMAIN s = 1 .. Len(s)
        /\ \A y \in g[t][1] \X g[t][2] : \E i \in 1 .. Len(s) : s[i] = y
    BY ONLY <2>3, Zenon DEF Lists
  <2>6. Len(AItems[t]) = Len(s)
        /\ \A i \in 1 .. Len(s) : AItems[t][i] = <<"A", s[i][1], s[i][2] + 1>>
    BY ONLY <2>4, <2>5
  <2>7. \A i \in 1 .. Len(s) : IsPack(AItems[t][i])
    BY ONLY <2>6 DEF IsPack
  <2>8. ASSUME NEW rb \in g[t][1], NEW k \in g[t][2]
        PROVE  \E i \in 1 .. Len(s) : AItems[t][i] = <<"A", rb, k + 1>>
    <3>1. <<rb, k>> \in g[t][1] \X g[t][2]
      BY ONLY <2>8
    <3>2. PICK i \in 1 .. Len(s) : s[i] = <<rb, k>>
      BY ONLY <2>5, <3>1, Zenon
    <3> QED BY ONLY <2>6, <3>2
  <2> QED BY ONLY <2>5, <2>6, <2>7, <2>8
<1>6. ASSUME NEW y \in PanelsOfA
      PROVE  \E t \in 1 .. Len(g) : \E i \in 1 .. Len(AItems[t]) : y \in Put(AItems[t][i])
  <2>1. PICK rb \in RowBlocks, p \in 1 .. Depth : y = <<"A", rb, p>>
    BY DEF PanelsOfA
  <2>2. <<rb, p - 1>> \in (0 .. rows - 1) \X (0 .. Depth - 1) /\ (p - 1) + 1 = p
    BY ONLY <1>1, <2>1
  <2>3. PICK t \in 1 .. Len(g) : <<rb, p - 1>> \in g[t][1] \X g[t][2]
    BY ONLY <1>2, <2>2
  <2>4. rb \in g[t][1] /\ p - 1 \in g[t][2]
    BY ONLY <2>3
  <2>5. PICK i \in 1 .. Len(AItems[t]) : AItems[t][i] = <<"A", rb, (p - 1) + 1>>
    BY ONLY <1>5, <2>3, <2>4
  <2>6. AItems[t][i] = y
    BY ONLY <2>1, <2>2, <2>5
  <2>7. y \in Put(AItems[t][i])
    BY ONLY <2>1, <2>6 DEF Put
  <2> QED BY ONLY <2>3, <2>5, <2>7
<1>7. Len(g) # 0
  <2>1. <<0, 0>> \in (0 .. rows - 1) \X (0 .. Depth - 1)
    BY <1>1
  <2>2. \E t \in DOMAIN g : <<0, 0>> \in g[t][1] \X g[t][2]
    BY ONLY <1>2, <2>1
  <2> QED BY ONLY <1>2, <2>2
<1> QED BY ONLY <1>2, <1>4, <1>5, <1>6, <1>7 DEF Packs

\* The depth blocks of one task that packs B.
DepthChunk(x) == (x - 1) * KStep + 1 .. (IF x * KStep < Depth THEN x * KStep ELSE Depth)
\* The chunks of the depth that the packing of B is cut into cover the depth.
LEMMA DepthChunks ==
  /\ \A x \in 1 .. ceil_div_positive(Depth, KStep) :
       \E a, b \in 1 .. Depth : a <= b /\ DepthChunk(x) = a .. b
  /\ \A p \in 1 .. Depth : \E x \in 1 .. ceil_div_positive(Depth, KStep) : p \in DepthChunk(x)
<1> DEFINE m == ceil_div_positive(Depth, KStep)
<1>1. Depth \in Nat \ {0} /\ KStep \in Nat \ {0}
  BY Shape
<1>2. m \in Nat \ {0}
  BY <1>1, CeilDiv
<1>3. \A x \in 1 .. m : (x - 1) * KStep \in Int /\ x * KStep \in Int
  BY <1>1, <1>2
<1>4. \A x \in 1 .. m : \E a, b \in 0 .. Depth - 1 : a <= b /\ Chunk(x, KStep, Depth) = a .. b
  BY <1>1, ChunkBounds
<1>5. \A k \in 0 .. Depth - 1 : \E x \in 1 .. m : k \in Chunk(x, KStep, Depth)
  BY <1>1, ChunksCover
<1> HIDE DEF m
<1>6. ASSUME NEW x \in 1 .. m
      PROVE  \E a, b \in 1 .. Depth : a <= b /\ DepthChunk(x) = a .. b
  <2> DEFINE f == (x - 1) * KStep
             e == IF x * KStep < Depth THEN x * KStep ELSE Depth
  <2>1. f \in Int /\ e \in Int
    BY <1>1, <1>3
  <2>2. Chunk(x, KStep, Depth) = f .. e - 1 /\ DepthChunk(x) = f + 1 .. e
    BY DEF Chunk, DepthChunk
  <2> HIDE DEF f, e
  <2>3. PICK a \in 0 .. Depth - 1, b \in 0 .. Depth - 1 : a <= b /\ f .. e - 1 = a .. b
    BY <1>4, <2>2
  <2>4. a \in f .. e - 1 /\ b \in f .. e - 1
    <3>1. a \in a .. b /\ b \in a .. b
      BY ONLY <2>3, <1>1
    <3> QED BY ONLY <2>3, <3>1, Zenon
  <2>5. f \in a .. b /\ e - 1 \in a .. b
    BY ONLY <2>1, <2>3, <2>4
  <2>6. f + 1 \in 1 .. Depth /\ e \in 1 .. Depth /\ f + 1 <= e
    BY ONLY <1>1, <2>1, <2>3, <2>4, <2>5
  <2> QED BY <2>2, <2>6
<1>7. ASSUME NEW p \in 1 .. Depth PROVE \E x \in 1 .. m : p \in DepthChunk(x)
  <2>1. p - 1 \in 0 .. Depth - 1
    BY <1>1
  <2>2. PICK x \in 1 .. m : p - 1 \in Chunk(x, KStep, Depth)
    BY <1>5, <2>1
  <2> DEFINE f == (x - 1) * KStep
             e == IF x * KStep < Depth THEN x * KStep ELSE Depth
  <2>3. f \in Int /\ e \in Int
    BY <1>1, <1>3
  <2>4. p - 1 \in f .. e - 1 /\ DepthChunk(x) = f + 1 .. e
    BY <2>2 DEF Chunk, DepthChunk
  <2> HIDE DEF f, e
  <2>5. p \in f + 1 .. e
    BY ONLY <1>1, <2>3, <2>4, p \in 1 .. Depth
  <2> QED BY <2>4, <2>5
<1> QED BY <1>6, <1>7 DEF m

\* The tasks that pack B fill every panel of B (sgemm_pack_b_task_fn).
LEMMA BPacks == Packs(BItems, PanelsOfB)
<1> DEFINE n == ceil_div_positive(N, Width)
           m == ceil_div_positive(Depth, KStep)
           R == [x \in 1 .. n |-> Chunk(x, Width, N)]
           S == [x \in 1 .. m |-> DepthChunk(x)]
           g == Pairs(R, S)
<1>1. N \in Nat \ {0} /\ Width \in Nat \ {0} /\ Depth \in Nat \ {0} /\ KStep \in Nat \ {0}
  BY Shape
<1>2. n \in Nat \ {0} /\ m \in Nat \ {0}
  BY <1>1, CeilDiv
<1>3. \A k \in 0 .. N - 1 : \E x \in 1 .. n : k \in Chunk(x, Width, N)
  BY <1>1, ChunksCover
<1>4. /\ \A x \in 1 .. m : \E a, b \in 1 .. Depth : a <= b /\ DepthChunk(x) = a .. b
      /\ \A p \in 1 .. Depth : \E x \in 1 .. m : p \in DepthChunk(x)
  BY DepthChunks
<1>5. SharedBTasks = g
  BY Zenon DEF SharedBTasks, Chunk, DepthChunk
<1> HIDE DEF n, m
<1>6. Len(R) = n /\ Len(S) = m /\ (\A x \in 1 .. n : R[x] = Chunk(x, Width, N))
      /\ \A x \in 1 .. m : S[x] = DepthChunk(x)
  BY ONLY <1>2
<1> HIDE DEF R, S
<1> DEFINE l == Len(R) * Len(S)
<1>7. /\ DOMAIN g = 1 .. l /\ Len(g) = l /\ l \in Nat
      /\ \A t \in DOMAIN g : \E x \in 1 .. Len(R) : \E y \in 1 .. Len(S) :
           t = Place(x, y, S) /\ g[t] = <<R[x], S[y]>>
      /\ \A x \in 1 .. Len(R) : \A y \in 1 .. Len(S) :
           Place(x, y, S) \in DOMAIN g /\ g[Place(x, y, S)] = <<R[x], S[y]>>
  <2>1. Len(R) \in Nat /\ Len(S) \in Nat \ {0}
    BY ONLY <1>2, <1>6
  <2>2. DOMAIN g = 1 .. l /\ Len(g) = l /\ l \in Nat
    BY ONLY <2>1, PairsList
  <2>3. /\ \A t \in DOMAIN g : \E x \in 1 .. Len(R) : \E y \in 1 .. Len(S) :
             t = Place(x, y, S) /\ g[t] = <<R[x], S[y]>>
        /\ \A x \in 1 .. Len(R) : \A y \in 1 .. Len(S) :
             Place(x, y, S) \in DOMAIN g /\ g[Place(x, y, S)] = <<R[x], S[y]>>
    BY ONLY <2>1, PairsList
  <2> HIDE DEF g, l
  <2> QED BY ONLY <2>2, <2>3, Zenon
<1>8. BItems = [t \in DOMAIN g |-> sgemm_shared_b_task(g[t])]
  BY ONLY <1>5, Zenon DEF BItems
<1> HIDE DEF g, l
<1>9. DOMAIN BItems = 1 .. l /\ Len(BItems) = l
      /\ \A t \in 1 .. l : BItems[t] = sgemm_shared_b_task(g[t])
  BY ONLY <1>7, <1>8
<1>10. ASSUME NEW t \in 1 .. l
       PROVE  /\ Len(BItems[t]) \in Nat \ {0}
              /\ \A i \in 1 .. Len(BItems[t]) : IsPack(BItems[t][i])
              /\ \A p \in g[t][2] : \E i \in 1 .. Len(BItems[t]) : BItems[t][i] = <<"B", g[t][1], p>>
  <2>1. PICK x \in 1 .. Len(R), y \in 1 .. Len(S) : g[t] = <<R[x], S[y]>>
    BY ONLY <1>7, <1>10, ZenonT(60)
  <2> DEFINE s == InOrder(g[t][2])
  <2>2. g[t][2] = DepthChunk(y) /\ y \in 1 .. m
    BY ONLY <1>6, <2>1
  <2>3. PICK a \in 1 .. Depth, b \in 1 .. Depth : a <= b /\ g[t][2] = a .. b
    BY ONLY <1>4, <2>2
  <2>4. Lists(s, g[t][2])
    <3>1. a \in Int /\ b \in Int
      BY <1>1
    <3>2. Lists(InOrder(a .. b), a .. b)
      BY ONLY <2>3, <3>1, InOrderLists
    <3> QED BY ONLY <2>3, <3>2
  <2>5. BItems[t] = [x_1 \in DOMAIN s |-> <<"B", g[t][1], s[x_1]>>]
    BY <1>9, <1>10 DEF sgemm_shared_b_task
  <2> HIDE DEF s
  <2>6. /\ Len(s) \in Nat \ {0} /\ DOMAIN s = 1 .. Len(s)
        /\ \A p \in g[t][2] : \E i \in 1 .. Len(s) : s[i] = p
    BY ONLY <2>4, Zenon DEF Lists
  <2>7. Len(BItems[t]) = Len(s) /\ \A i \in 1 .. Len(s) : BItems[t][i] = <<"B", g[t][1], s[i]>>
    BY ONLY <2>5, <2>6
  <2>8. \A i \in 1 .. Len(s) : IsPack(BItems[t][i])
    BY ONLY <2>7 DEF IsPack
  <2>9. \A p \in g[t][2] : \E i \in 1 .. Len(s) : BItems[t][i] = <<"B", g[t][1], p>>
    BY ONLY <2>6, <2>7
  <2> QED BY ONLY <2>6, <2>7, <2>8, <2>9
<1>11. ASSUME NEW y \in PanelsOfB
       PROVE  \E t \in 1 .. l : \E i \in 1 .. Len(BItems[t]) : y \in Put(BItems[t][i])
  <2>1. PICK j \in 0 .. N - 1, p \in 1 .. Depth : y = <<"B", j, p>>
    BY DEF PanelsOfB
  <2>2. PICK x \in 1 .. n : j \in Chunk(x, Width, N)
    BY ONLY <1>3, <2>1
  <2>3. PICK z \in 1 .. m : p \in DepthChunk(z)
    BY ONLY <1>4, <2>1
  <2> DEFINE t == Place(x, z, S)
  <2>4. t \in 1 .. l /\ g[t] = <<R[x], S[z]>>
    BY ONLY <1>6, <1>7, <2>2, <2>3
  <2>5. j \in g[t][1] /\ p \in g[t][2]
    BY ONLY <1>6, <2>2, <2>3, <2>4
  <2> HIDE DEF t
  <2>6. PICK i \in 1 .. Len(BItems[t]) : BItems[t][i] = <<"B", g[t][1], p>>
    BY ONLY <1>10, <2>4, <2>5
  <2>7. y \in Put(BItems[t][i])
    <3>1. BItems[t][i][1] = "B" /\ BItems[t][i][2] = g[t][1] /\ BItems[t][i][3] = p
      BY ONLY <2>6
    <3>2. Put(BItems[t][i]) = {<<"B", k, p>> : k \in g[t][1]}
      BY ONLY <3>1 DEF Put
    <3> QED BY ONLY <2>1, <2>5, <3>2
  <2> QED BY ONLY <2>4, <2>6, <2>7
<1>12. l # 0
  <2>1. 0 \in 0 .. N - 1 /\ 1 \in 1 .. Depth
    BY <1>1
  <2>2. <<"B", 0, 1>> \in PanelsOfB
    BY <2>1 DEF PanelsOfB
  <2> QED BY ONLY <1>7, <1>11, <2>2
<1> QED BY ONLY <1>7, <1>9, <1>10, <1>11, <1>12 DEF Packs

\* A list no longer than the batch is dealt out whole, at most one task of it
\* to each, and one of the longest list to each.
LEMMA OneEach ==
  ASSUME NEW n \in Nat \ {0}, NEW parts \in Nat, n <= parts
  PROVE  /\ \A i \in 0 .. parts - 1 : \A k, m \in Share(i, n, parts) : k = m
         /\ n = parts => \A i \in 0 .. parts - 1 : Share(i, n, parts) = {i}
<1>1. \A i \in Nat : n * i \in Nat /\ n * (i + 1) = n * i + n
  OBVIOUS
<1>2. ASSUME NEW i \in 0 .. parts - 1 PROVE ShareFrom(i + 1, n, parts) <= ShareFrom(i, n, parts) + 1
  <2> DEFINE x == n * i
             y == n * (i + 1)
  <2>1. x \in Nat /\ y \in Nat /\ y <= x + parts
    BY <1>1
  <2>2. /\ x \div parts \in Nat /\ (x % parts) \in 0 .. parts - 1
        /\ x = parts * (x \div parts) + (x % parts)
        /\ y \div parts \in Nat /\ (y % parts) \in 0 .. parts - 1
        /\ y = parts * (y \div parts) + (y % parts)
    BY <2>1, Division
  <2> DEFINE a == x \div parts
             b == y \div parts
  <2>3. ASSUME b > a + 1 PROVE FALSE
    <3>1. (a + 2) * parts <= b * parts
      <4>1. a \in Nat /\ b \in Nat /\ a + 2 <= b /\ parts \in Nat
        BY <2>2, <2>3
      <4> HIDE DEF a, b
      <4> QED BY ONLY <4>1
    <3>2. (a + 2) * parts = parts * a + parts + parts /\ b * parts = parts * b
      <4>1. a \in Nat /\ b \in Nat /\ parts \in Nat
        BY <2>2
      <4> HIDE DEF a, b
      <4> QED BY ONLY <4>1
    <3>3. parts * a \in Nat /\ parts * b \in Nat
      BY <2>2
    <3> HIDE DEF x, y
    <3> QED BY <2>1, <2>2, <3>1, <3>2, <3>3
  <2>4. b <= a + 1
    BY <2>2, <2>3
  <2> QED BY <2>4 DEF ShareFrom
<1>3. parts > 0
  OBVIOUS
<1>4. \A i \in Nat : ShareFrom(i, n, parts) \in Nat
  BY <1>3, ShareBounds
<1>5. ASSUME NEW i \in 0 .. parts - 1, NEW k \in Share(i, n, parts), NEW m \in Share(i, n, parts)
      PROVE  k = m
  <2> DEFINE a == ShareFrom(i, n, parts)
             b == ShareFrom(i + 1, n, parts)
  <2>1. i \in Nat /\ i + 1 \in Nat
    OBVIOUS
  <2>2. a \in Nat /\ b \in Nat /\ b <= a + 1
    BY <1>2, <1>4, <2>1
  <2>3. k \in a .. b - 1 /\ m \in a .. b - 1
    BY DEF Share
  <2> HIDE DEF a, b
  <2> QED BY ONLY <2>2, <2>3
<1>6. ASSUME n = parts, NEW i \in 0 .. parts - 1 PROVE Share(i, n, parts) = {i}
  <2>1. \A j \in Nat : ShareFrom(j, n, n) = j
    <3> TAKE j \in Nat
    <3>1. n * j \in Nat /\ n * j = j * n
      OBVIOUS
    <3>2. (n * j) \div n \in Nat /\ (n * j) % n \in 0 .. n - 1
          /\ n * j = n * ((n * j) \div n) + ((n * j) % n)
      BY <3>1, Division
    <3> DEFINE q == (n * j) \div n
               r == (n * j) % n
    <3>3. q < j => n * q + n <= n * j
      <4>1. q \in Nat
        BY <3>2
      <4> HIDE DEF q
      <4> QED BY <4>1, ProductGrows
    <3>4. q > j => n * j + n <= n * q
      <4>1. q \in Nat
        BY <3>2
      <4> HIDE DEF q
      <4> QED BY <4>1, ProductGrows
    <3>5. n * q \in Nat /\ q \in Nat /\ r \in 0 .. n - 1 /\ n * j = n * q + r
      BY <3>2
    <3> HIDE DEF q, r
    <3>6. q = j
      BY <3>1, <3>3, <3>4, <3>5
    <3> QED BY <3>6 DEF q, ShareFrom
  <2>2. i \in Nat /\ i + 1 \in Nat
    OBVIOUS
  <2>3. ShareFrom(i, n, parts) = i /\ ShareFrom(i + 1, n, parts) = i + 1
    BY <1>6, <2>1, <2>2
  <2> QED BY <2>2, <2>3 DEF Share
<1> QED BY <1>5, <1>6

\* The fused tasks fill the panels of both, whatever share each task is dealt
\* (sgemm_shared_ab_task).
LEMMA ABPacks == Packs(sgemm_shared_ab_task, PanelsOfA \cup PanelsOfB)
<1> DEFINE count == prepared_count
           One(list, i) == LET share == Share(i - 1, Len(list), count)
                           IN  IF share = {} THEN <<>> ELSE list[(CHOOSE x \in share : TRUE) + 1]
<1>1. /\ Packs(AItems, PanelsOfA) /\ Packs(BItems, PanelsOfB)
      /\ Len(AItems) \in Nat \ {0} /\ Len(BItems) \in Nat \ {0}
  BY APacks, BPacks DEF Packs
<1>2. /\ count \in Nat \ {0} /\ Len(AItems) <= count /\ Len(BItems) <= count
      /\ Len(AItems) = count \/ Len(BItems) = count
  BY <1>1 DEF prepared_count
<1>3. sgemm_shared_ab_task = [i \in 1 .. count |-> One(AItems, i) \o One(BItems, i)]
  BY Zenon DEF sgemm_shared_ab_task
<1> HIDE DEF count
\* What one list gives to task i.
<1>4. ASSUME NEW list, NEW S, Packs(list, S), Len(list) <= count, NEW i \in 1 .. count
      PROVE  /\ One(list, i) \in {<<>>} \cup {list[t] : t \in 1 .. Len(list)}
             /\ \A t \in 1 .. Len(list) : t - 1 \in Share(i - 1, Len(list), count) => One(list, i) = list[t]
             /\ Len(list) = count => One(list, i) = list[i]
  <2> DEFINE share == Share(i - 1, Len(list), count)
  <2>1. Len(list) \in Nat \ {0}
    BY <1>4 DEF Packs
  <2>2. i - 1 \in 0 .. count - 1 /\ count \in Nat /\ count > 0
    BY <1>2, <1>4
  <2>3. share \subseteq 0 .. Len(list) - 1
    BY <2>1, <2>2, SharesCover
  <2>4. \A k, m \in share : k = m
    BY ONLY <1>4, <2>1, <2>2, OneEach
  <2>5. Len(list) = count => share = {i - 1}
    BY ONLY <1>4, <2>1, <2>2, OneEach
  <2>6. One(list, i) = IF share = {} THEN <<>> ELSE list[(CHOOSE x \in share : TRUE) + 1]
    BY Zenon
  <2> HIDE DEF share, One
  <2>7. share # {} => (CHOOSE x \in share : TRUE) \in share
    BY Zenon
  <2>8. One(list, i) \in {<<>>} \cup {list[t] : t \in 1 .. Len(list)}
    <3>1. CASE share = {}
      BY <2>6, <3>1
    <3>2. CASE share # {}
      <4> DEFINE k == CHOOSE x \in share : TRUE
      <4>1. k \in 0 .. Len(list) - 1
        BY <2>3, <2>7, <3>2
      <4>2. One(list, i) = list[k + 1]
        BY <2>6, <3>2
      <4> HIDE DEF k
      <4>3. k + 1 \in 1 .. Len(list)
        BY <2>1, <4>1
      <4> QED BY <4>2, <4>3
    <3> QED BY <3>1, <3>2
  <2>9. ASSUME NEW t \in 1 .. Len(list), t - 1 \in share PROVE One(list, i) = list[t]
    <3> DEFINE k == CHOOSE x \in share : TRUE
    <3>1. k = t - 1
      BY <2>4, <2>7, <2>9, Zenon
    <3>2. One(list, i) = list[k + 1]
      BY <2>6, <2>9, Zenon
    <3> HIDE DEF k
    <3>3. k + 1 = t
      BY <2>1, <3>1
    <3> QED BY ONLY <3>2, <3>3, Zenon
  <2>10. ASSUME Len(list) = count PROVE One(list, i) = list[i]
    <3>1. i \in 1 .. Len(list) /\ i - 1 \in share
      BY <1>4, <2>5, <2>10
    <3> QED BY ONLY <2>9, <3>1
  <2> QED BY <2>8, <2>9, <2>10 DEF share
\* A task of either list, or none of it, before or behind another.
<1> HIDE DEF One
<1>5. DOMAIN sgemm_shared_ab_task = 1 .. count /\ Len(sgemm_shared_ab_task) = count
      /\ \A i \in 1 .. count : sgemm_shared_ab_task[i] = One(AItems, i) \o One(BItems, i)
  BY ONLY <1>2, <1>3
<1> DEFINE Task(f) == Len(f) \in Nat /\ \A j \in 1 .. Len(f) : IsPack(f[j])
<1>6. \A i \in 1 .. count : Task(One(AItems, i)) /\ Task(One(BItems, i))
  <2>1. Task(<<>>)
    OBVIOUS
  <2>2. /\ \A t \in 1 .. Len(AItems) : Task(AItems[t]) /\ Len(AItems[t]) # 0
        /\ \A t \in 1 .. Len(BItems) : Task(BItems[t]) /\ Len(BItems[t]) # 0
    BY <1>1 DEF Packs
  <2> HIDE DEF Task
  <2>3. \A i \in 1 .. count :
          /\ One(AItems, i) \in {<<>>} \cup {AItems[t] : t \in 1 .. Len(AItems)}
          /\ One(BItems, i) \in {<<>>} \cup {BItems[t] : t \in 1 .. Len(BItems)}
    BY ONLY <1>1, <1>2, <1>4
  <2>4. ASSUME NEW i \in 1 .. count PROVE Task(One(AItems, i)) /\ Task(One(BItems, i))
    <3>1. /\ One(AItems, i) \in {<<>>} \cup {AItems[t] : t \in 1 .. Len(AItems)}
          /\ One(BItems, i) \in {<<>>} \cup {BItems[t] : t \in 1 .. Len(BItems)}
      BY <2>3
    <3> QED BY ONLY <2>1, <2>2, <3>1, Zenon
  <2> QED BY <2>4
<1>7. \A i \in 1 .. count : Len(One(AItems, i)) # 0 \/ Len(One(BItems, i)) # 0
  <2>1. /\ \A t \in 1 .. Len(AItems) : Len(AItems[t]) # 0
        /\ \A t \in 1 .. Len(BItems) : Len(BItems[t]) # 0
    BY <1>1 DEF Packs
  <2>2. \A i \in 1 .. count : /\ Len(AItems) = count => One(AItems, i) = AItems[i]
                              /\ Len(BItems) = count => One(BItems, i) = BItems[i]
    BY ONLY <1>1, <1>2, <1>4
  <2> QED BY ONLY <1>2, <2>1, <2>2
<1> DEFINE g == sgemm_shared_ab_task
<1>8. ASSUME NEW i \in 1 .. count
      PROVE  /\ Len(g[i]) \in Nat \ {0} /\ \A j \in 1 .. Len(g[i]) : IsPack(g[i][j])
             /\ \A j \in 1 .. Len(One(AItems, i)) : \E k \in 1 .. Len(g[i]) : g[i][k] = One(AItems, i)[j]
             /\ \A j \in 1 .. Len(One(BItems, i)) : \E k \in 1 .. Len(g[i]) : g[i][k] = One(BItems, i)[j]
  <2> DEFINE a == One(AItems, i)
             b == One(BItems, i)
  <2>1. g[i] = a \o b /\ Task(a) /\ Task(b) /\ (Len(a) # 0 \/ Len(b) # 0)
    BY <1>5, <1>6, <1>7
  <2> HIDE DEF a, b, g
  <2>2. /\ Len(g[i]) = Len(a) + Len(b)
        /\ \A j \in 1 .. Len(a) : g[i][j] = a[j]
        /\ \A j \in 1 .. Len(b) : g[i][Len(a) + j] = b[j]
        /\ \A j \in Len(a) + 1 .. Len(a) + Len(b) : g[i][j] = b[j - Len(a)]
    BY ONLY <2>1
  <2>3. Len(a) \in Nat /\ Len(b) \in Nat
    BY <2>1
  <2>4. Len(g[i]) \in Nat \ {0}
    BY ONLY <2>1, <2>2, <2>3
  <2>5. ASSUME NEW j \in 1 .. Len(g[i]) PROVE IsPack(g[i][j])
    <3>1. CASE j \in 1 .. Len(a)
      BY ONLY <2>1, <2>2, <3>1
    <3>2. CASE j \notin 1 .. Len(a)
      <4>1. j \in Len(a) + 1 .. Len(a) + Len(b) /\ j - Len(a) \in 1 .. Len(b)
        BY ONLY <2>2, <2>3, <2>5, <3>2
      <4> QED BY ONLY <2>1, <2>2, <4>1
    <3> QED BY <3>1, <3>2
  <2>6. \A j \in 1 .. Len(a) : \E k \in 1 .. Len(g[i]) : g[i][k] = a[j]
    <3>1. \A j \in 1 .. Len(a) : j \in 1 .. Len(g[i])
      BY ONLY <2>2, <2>3
    <3> QED BY ONLY <2>2, <3>1, Zenon
  <2>7. \A j \in 1 .. Len(b) : \E k \in 1 .. Len(g[i]) : g[i][k] = b[j]
    <3>1. \A j \in 1 .. Len(b) : Len(a) + j \in 1 .. Len(g[i])
      BY ONLY <2>2, <2>3
    <3> QED BY ONLY <2>2, <3>1, Zenon
  <2> QED BY <2>4, <2>5, <2>6, <2>7 DEF a, b
<1> HIDE DEF g, Task
<1>9. ASSUME NEW list, NEW S, Packs(list, S), Len(list) <= count,
             \A i \in 1 .. count : \A j \in 1 .. Len(One(list, i)) :
               \E k \in 1 .. Len(g[i]) : g[i][k] = One(list, i)[j],
             NEW y \in S
      PROVE  \E i \in 1 .. count : \E k \in 1 .. Len(g[i]) : y \in Put(g[i][k])
  <2>0. PICK t \in 1 .. Len(list) : \E j \in 1 .. Len(list[t]) : y \in Put(list[t][j])
    BY ONLY <1>9 DEF Packs
  <2>1. PICK j \in 1 .. Len(list[t]) : y \in Put(list[t][j])
    BY ONLY <2>0
  <2>2. Len(list) \in Nat \ {0}
    BY <1>9 DEF Packs
  <2>3. PICK i \in 1 .. count : t - 1 \in Share(i - 1, Len(list), count)
    <3>1. t - 1 \in 0 .. Len(list) - 1 /\ count \in Nat /\ count > 0
      BY <1>2, <2>2
    <3>2. PICK w \in 0 .. count - 1 : t - 1 \in Share(w, Len(list), count)
      BY <2>2, <3>1, SharesCover
    <3>3. w + 1 \in 1 .. count /\ (w + 1) - 1 = w
      BY <1>2
    <3> QED BY ONLY <3>2, <3>3
  <2>4. One(list, i) = list[t]
    BY ONLY <1>4, <1>9, <2>0, <2>3
  <2>5. PICK k \in 1 .. Len(g[i]) : g[i][k] = One(list, i)[j]
    BY ONLY <1>9, <2>0, <2>1, <2>3, <2>4
  <2>6. y \in Put(g[i][k])
    BY ONLY <2>0, <2>1, <2>4, <2>5
  <2> QED BY ONLY <2>3, <2>5, <2>6
<1>10. ASSUME NEW y \in PanelsOfA \cup PanelsOfB
       PROVE  \E i \in 1 .. count : \E k \in 1 .. Len(g[i]) : y \in Put(g[i][k])
  BY ONLY <1>1, <1>2, <1>8, <1>9, <1>10, ZenonT(60)
<1>11. DOMAIN g = 1 .. count /\ Len(g) = count
  BY <1>5 DEF g
<1>12. Packs(g, PanelsOfA \cup PanelsOfB)
  BY ONLY <1>2, <1>8, <1>10, <1>11 DEF Packs
<1> QED BY <1>12 DEF g

---------------------------------------------------------------------------
(* How far a tile is *)

\* A tile that got n operations got the first n of them: a shorter part is a
\* prefix of a longer one.
LEMMA PartLists ==
  ASSUME NEW n \in Nat
  PROVE  /\ Len(Part(n)) = n /\ DOMAIN Part(n) = 1 .. n
         /\ \A m \in 0 .. n : Promise!IsPrefix(Part(m), Part(n))
         /\ Append(Part(n), n + 1 - Betas) = Part(n + 1)
<1> DEFINE b == Betas
           f(k) == [i \in 1 .. k |-> i - b]
<1>1. \A k : Part(k) = f(k)
  BY DEF Part
<1>0. b \in Int
  BY DEF Betas
<1> HIDE DEF b
<1>2. Len(f(n)) = n /\ DOMAIN f(n) = 1 .. n
  BY ONLY n \in Nat
<1>3. ASSUME NEW m \in 0 .. n PROVE Promise!IsPrefix(f(m), f(n))
  <2>1. m \in Nat /\ m <= n
    BY <1>3
  <2>2. Len(f(m)) = m /\ Len(f(n)) = n
    BY ONLY <2>1, n \in Nat
  <2>3. SubSeq(f(n), 1, m) = f(m) /\ SubSeq(f(m), 1, m) = f(m)
    BY ONLY <2>1, n \in Nat
  <2> HIDE DEF f
  <2> QED BY ONLY <2>1, <2>2, <2>3 DEF Promise!IsPrefix
<1>4. Append(f(n), n + 1 - b) = f(n + 1)
  <2> DEFINE s == f(n)
             t == f(n + 1)
             e == n + 1 - b
  <2>1. s \in Seq(Int) /\ Len(s) = n /\ t \in Seq(Int) /\ Len(t) = n + 1 /\ e \in Int
    BY ONLY n \in Nat, <1>0
  <2>2. t[n + 1] = e /\ \A i \in 1 .. n : t[i] = s[i]
    BY ONLY n \in Nat, <1>0
  <2> HIDE DEF s, t, e, f
  <2>3. /\ Append(s, e) \in Seq(Int) /\ Len(Append(s, e)) = n + 1
        /\ Append(s, e)[n + 1] = e /\ \A i \in 1 .. n : Append(s, e)[i] = s[i]
    BY ONLY <2>1, n \in Nat
  <2>4. \A i \in 1 .. n + 1 : Append(s, e)[i] = t[i]
    BY ONLY <2>2, <2>3, n \in Nat
  <2>5. Append(s, e) = t
    BY ONLY <2>1, <2>3, <2>4, SeqEqual
  <2> QED BY <2>5 DEF s, t, e
<1> HIDE DEF f
<1> QED BY <1>1, <1>2, <1>3, <1>4 DEF b

\* What Gemm promises for a tile is the part of full length.
LEMMA FullList ==
  ASSUME TypeOK
  PROVE  /\ Betas \in {0, 1} /\ Full \in Nat /\ Depth \in Nat \ {0}
         /\ Promise!Finished = Part(Full)
         /\ Part(0) = <<>>
<1>1. Depth \in Nat \ {0} /\ Betas \in {0, 1}
  BY Shape DEF Betas
<1>2. Full \in Nat
  BY <1>1 DEF Full
<1>3. Promise!Finished =
        (IF Betas = 1 THEN <<0>> ELSE <<>>) \o (IF call.product THEN [p \in 1 .. Depth |-> p] ELSE <<>>)
  <2>1. Betas = 1 <=> call.output /\ call.beta # "one"
    BY DEF Betas
  <2>2. CASE Betas = 1
    BY ONLY <2>1, <2>2, Zenon DEF Promise!Finished
  <2>3. CASE Betas # 1
    BY ONLY <2>1, <2>3, Zenon DEF Promise!Finished
  <2> QED BY <2>2, <2>3
<1> DEFINE b == Betas
<1>4. Full = b + (IF call.product THEN Depth ELSE 0) /\ b \in {0, 1}
  BY <1>1 DEF Full
<1>5. Part(Full) = [i \in 1 .. Full |-> i - b]
  BY DEF Part
<1>6. Part(0) = <<>>
  BY DEF Part
<1> HIDE DEF b
<1> DEFINE D == [p \in 1 .. Depth |-> p]
<1>7. /\ [i \in 1 .. 0 |-> i - 0] = <<>> \o <<>>
      /\ [i \in 1 .. 0 + Depth |-> i - 0] = <<>> \o D
      /\ [i \in 1 .. 1 + 0 |-> i - 1] = <<0>> \o <<>>
      /\ [i \in 1 .. 1 + Depth |-> i - 1] = <<0>> \o D
  <2>1. [i \in 1 .. 0 |-> i - 0] = <<>> \o <<>>
    <3>1. [i \in 1 .. 0 |-> i - 0] = <<>>
      BY ONLY 0 \in Int
    <3>2. <<>> \o <<>> = <<>>
      BY ONLY 0 \in Int
    <3> QED BY ONLY <3>1, <3>2, Zenon
  <2>2. [i \in 1 .. 0 + Depth |-> i - 0] = <<>> \o D
    BY ONLY <1>1
  <2>3. [i \in 1 .. 1 + 0 |-> i - 1] = <<0>> \o <<>>
    <3>1. [i \in 1 .. 1 |-> i - 1] = <<0>>
      BY ONLY 0 \in Int
    <3>2. <<0>> \o <<>> = <<0>>
      BY ONLY 0 \in Int
    <3>3. 1 + 0 = 1
      BY ONLY 0 \in Int
    <3> QED BY ONLY <3>1, <3>2, <3>3, Zenon
  <2>4. [i \in 1 .. 1 + Depth |-> i - 1] = <<0>> \o D
    BY ONLY <1>1
  <2> QED BY ONLY <2>1, <2>2, <2>3, <2>4, Zenon
<1> HIDE DEF D
<1> DEFINE F(u, v) == (IF u = 1 THEN <<0>> ELSE <<>>) \o (IF v THEN D ELSE <<>>)
           G(u, v) == [i \in 1 .. u + v |-> i - u]
<1>8. Promise!Finished = F(b, call.product)
  BY <1>3, Zenon DEF b, D
<1>9. Part(Full) = G(b, IF call.product THEN Depth ELSE 0)
  BY ONLY <1>4, <1>5, Zenon
<1>10. /\ F(0, FALSE) = <<>> \o <<>> /\ F(0, TRUE) = <<>> \o D
       /\ F(1, FALSE) = <<0>> \o <<>> /\ F(1, TRUE) = <<0>> \o D
  BY ONLY 0 \in Int
<1>11. G(0, 0) = F(0, FALSE) /\ G(0, Depth) = F(0, TRUE)
       /\ G(1, 0) = F(1, FALSE) /\ G(1, Depth) = F(1, TRUE)
  <2>1. [i \in 1 .. 0 + 0 |-> i - 0] = [i \in 1 .. 0 |-> i - 0]
    BY ONLY 0 \in Int
  <2> HIDE DEF F
  <2> QED BY ONLY <1>7, <1>10, <2>1, Zenon
<1> HIDE DEF F, G
<1>12. F(b, call.product) = G(b, IF call.product THEN Depth ELSE 0)
  <2>1. call.product \in BOOLEAN
    BY DEF TypeOK, Calls
  <2>2. CASE call.product = TRUE
    BY ONLY <1>4, <1>11, <2>2
  <2>3. CASE call.product = FALSE
    BY ONLY <1>4, <1>11, <2>3
  <2> QED BY ONLY <2>1, <2>2, <2>3
<1> QED BY ONLY <1>1, <1>2, <1>6, <1>8, <1>9, <1>12 DEF b

\* Every operation of a part is beta or a depth block.
LEMMA PartType ==
  ASSUME TypeOK, NEW n \in 0 .. Full
  PROVE  Part(n) \in Seq(0 .. Depth)
<1>1. Betas \in {0, 1} /\ Full \in Nat /\ Depth \in Nat \ {0}
  BY FullList
<1>2. Full = Betas \/ Full = Betas + Depth
  BY <1>1 DEF Full
<1> DEFINE b == Betas
<1>3. \A i \in 1 .. n : i - b \in 0 .. Depth
  BY <1>1, <1>2
<1>4. Part(n) = [i \in 1 .. n |-> i - b]
  BY DEF Part
<1> HIDE DEF b
<1>5. [i \in 1 .. n |-> i - b] \in Seq(0 .. Depth)
  BY ONLY <1>1, <1>3, n \in 0 .. Full
<1> QED BY <1>4, <1>5

\* A step that takes tiles forward along their lists is one that Gemm allows.
LEMMA ComputeStep ==
  ASSUME TypeOK, CurrentParts, result = "running", Accepted, UNCHANGED <<call, result>>,
         DOMAIN c' = Tiles, c' = [x \in Tiles |-> c'[x]],
         \A x \in Tiles : \E n \in Len(c[x]) .. Full : c'[x] = Part(n)
  PROVE  Promise!Compute /\ CurrentParts' /\ c' \in [Tiles -> Seq(0 .. Depth)]
<1>1. Betas \in {0, 1} /\ Full \in Nat /\ Depth \in Nat \ {0} /\ Promise!Finished = Part(Full)
  BY FullList
<1>2. Betas' = Betas /\ Full' = Full /\ \A n : Part(n)' = Part(n)
  BY DEF Betas, Full, Part
<1>3. ASSUME NEW x \in Tiles
      PROVE  /\ Promise!IsPrefix(c[x], c'[x]) /\ Promise!IsPrefix(c'[x], Promise!Finished)
             /\ Len(c'[x]) \in 0 .. Full /\ c'[x] = Part(Len(c'[x]))
             /\ c'[x] \in Seq(0 .. Depth)
  <2>1. PICK n \in Len(c[x]) .. Full : c'[x] = Part(n)
    OBVIOUS
  <2>2. Len(c[x]) \in 0 .. Full /\ c[x] = Part(Len(c[x]))
    BY DEF CurrentParts
  <2>3. n \in 0 .. Full /\ n \in Nat /\ Len(c[x]) \in 0 .. n
    BY <1>1, <2>1, <2>2
  <2>4. Len(Part(n)) = n /\ \A m \in 0 .. n : Promise!IsPrefix(Part(m), Part(n))
    BY <2>3, PartLists
  <2>5. \A m \in 0 .. Full : Promise!IsPrefix(Part(m), Part(Full))
    BY <1>1, PartLists
  <2>6. Part(n) \in Seq(0 .. Depth)
    BY <2>3, PartType
  <2> QED BY ONLY <1>1, <2>1, <2>2, <2>3, <2>4, <2>5, <2>6, Zenon
<1>4. CurrentParts'
  <2>1. \A x \in Tiles : Len(c'[x]) \in 0 .. Full' /\ c'[x] = [i \in 1 .. Len(c'[x]) |-> i - Betas']
    BY <1>2, <1>3 DEF Part
  <2> QED BY <2>1 DEF CurrentParts, Part
<1>5. Promise!Compute
  BY <1>3 DEF Promise!Compute, Accepted, validate_args
<1> QED BY <1>3, <1>4, <1>5

\* Preparing tiles that nothing was done to: they get beta, unless the first
\* block overwrites.
LEMMA PrepareStep ==
  ASSUME TypeOK, CurrentParts, call.output, NEW X, \A x \in X : Len(c[x]) = 0, X \subseteq Tiles,
         c' = (IF packed_can_initialize THEN c ELSE Scaled(X))
  PROVE  c' = [x \in Tiles |-> IF x \in X THEN Part(IF packed_can_initialize THEN 0 ELSE Betas) ELSE c[x]]
<1>1. Part(0) = <<>> /\ Betas \in {0, 1}
  BY FullList
<1>2. c = [x \in Tiles |-> c[x]]
  BY DEF TypeOK
<1>3. \A x \in X : c[x] = Part(0)
  BY DEF CurrentParts
<1>4. CASE packed_can_initialize
  BY <1>2, <1>3, <1>4
<1>5. CASE ~packed_can_initialize
  <2>1. Scaled(X) = [x \in Tiles |->
          IF x \notin X \/ call.beta = "one" THEN c[x]
          ELSE IF call.beta = "zero" THEN <<0>> ELSE Append(c[x], 0)]
    BY DEF Scaled
  <2>2. Part(1) = [i \in 1 .. 1 |-> i - Betas]
    BY DEF Part
  <2>3. [i \in 1 .. 1 |-> i - 1] = <<0>> /\ Append(<<>>, 0) = <<0>>
    BY ONLY 0 \in Int
  <2>4. \A x \in X : (IF x \notin X \/ call.beta = "one" THEN c[x]
          ELSE IF call.beta = "zero" THEN <<0>> ELSE Append(c[x], 0)) = Part(Betas)
    <3>1. call.beta = "one" => Betas = 0
      BY DEF Betas
    <3>2. call.beta # "one" => Betas = 1
      BY DEF Betas
    <3> QED BY <1>1, <1>3, <2>2, <2>3, <3>1, <3>2, ZenonT(60)
  <2> QED BY <1>5, <2>1, <2>4
<1> QED BY <1>4, <1>5

\* Multiplying the block that is next for a tile takes it one part further.
LEMMA MultiplyStep ==
  ASSUME TypeOK, CurrentParts, call.product, NEW x \in Tiles, NEW p \in 1 .. Depth,
         Len(c[x]) = (IF packed_can_initialize /\ p = 1 THEN 0 ELSE Betas + p - 1),
         c' = Multiplied(x, p)
  PROVE  c' = [c EXCEPT ![x] = Part(Betas + p)] /\ Betas + p \in 0 .. Full
<1>1. Betas \in {0, 1} /\ Full \in Nat /\ Depth \in Nat \ {0} /\ Full = Betas + Depth
  BY FullList DEF Full
<1>2. Betas + p \in 0 .. Full
  BY <1>1
<1>3. packed_can_initialize => Betas = 1
  BY DEF packed_can_initialize, Betas, TypeOK, Calls
<1>4. CASE packed_can_initialize /\ p = 1
  <2>1. Part(2) = [i \in 1 .. 2 |-> i - Betas] /\ Betas = 1
    BY <1>3, <1>4 DEF Part
  <2>2. [i \in 1 .. 2 |-> i - 1] = <<0, 1>>
    BY ONLY 0 \in Int
  <2>3. Part(Betas + p) = <<0, 1>>
    BY <1>4, <2>1, <2>2
  <2> QED BY <1>2, <1>4, <2>3 DEF Multiplied
<1>5. CASE ~(packed_can_initialize /\ p = 1)
  <2> DEFINE n == Betas + p - 1
  <2>1. n \in Nat /\ Len(c[x]) = n /\ n + 1 = Betas + p /\ n + 1 - Betas = p
    BY <1>1, <1>5
  <2>2. c[x] = Part(n)
    BY <2>1 DEF CurrentParts
  <2> HIDE DEF n
  <2>3. Append(Part(n), n + 1 - Betas) = Part(n + 1)
    BY <2>1, PartLists
  <2>4. Append(c[x], p) = Part(Betas + p)
    BY ONLY <2>1, <2>2, <2>3
  <2>5. Multiplied(x, p) = [c EXCEPT ![x] = Append(c[x], p)]
    BY <1>5, Zenon DEF Multiplied
  <2> QED BY <1>2, <2>4, <2>5
<1> QED BY <1>4, <1>5

\* One more item of a task's list, done to the tiles X and no others.
LEMMA DidStep ==
  ASSUME TypeOK, CurrentParts, call.output, UNCHANGED call,
         NEW list, NEW X, X \subseteq Tiles, Computes(list, X),
         NEW k \in Nat, k < Len(list), Did(list, X, k), Perform(list[k + 1])
  PROVE  /\ Did(list, X, k + 1)' /\ UNCHANGED panels
         /\ DOMAIN c' = Tiles /\ c' = [x \in Tiles |-> c'[x]]
         /\ \A x \in Tiles : x \notin X => c'[x] = c[x]
         /\ \A x \in Tiles : \E n \in Len(c[x]) .. Full : c'[x] = Part(n)
<1>1. Betas \in {0, 1} /\ Full \in Nat /\ Depth \in Nat \ {0} /\ Betas <= Full
  BY FullList DEF Full
<1>2. Betas' = Betas /\ packed_can_initialize' = packed_can_initialize
  BY DEF Betas, packed_can_initialize
<1>3. \A x \in Tiles : Len(c[x]) \in 0 .. Full /\ c[x] = Part(Len(c[x]))
  BY DEF CurrentParts
<1>4. c = [x \in Tiles |-> c[x]] /\ DOMAIN c = Tiles
  BY DEF TypeOK
<1>5. /\ Len(list) \in Nat \ {0} /\ list[1] = <<"prepare", X>>
      /\ call.product => Products(list, X)
      /\ ~call.product => Len(list) = 1
  BY DEF Computes, Prepares
<1>6. CASE k = 0
  <2>1. list[k + 1] = <<"prepare", X>>
    BY <1>5, <1>6
  <2>2. c' = (IF packed_can_initialize THEN c ELSE Scaled(X)) /\ UNCHANGED panels
    BY <2>1 DEF Perform
  <2>3. \A x \in X : Len(c[x]) = 0
    BY <1>6 DEF Did
  <2> DEFINE e == IF packed_can_initialize THEN 0 ELSE Betas
  <2>4. c' = [x \in Tiles |-> IF x \in X THEN Part(e) ELSE c[x]]
    BY <2>2, <2>3, PrepareStep
  <2>5. e \in Nat /\ e <= Full
    BY <1>1
  <2>6. \A x \in X : Len(c'[x]) = e
    <3>1. Len(Part(e)) = e
      BY <2>5, PartLists
    <3> HIDE DEF e
    <3> QED BY <2>4, <3>1
  <2>7. \A x \in X : Blocks(x)' = 0
    <3>1. \A x \in X : Blocks(x)' = (IF Len(c'[x]) = 0 THEN 0 ELSE Len(c'[x]) - Betas)
      BY <1>2 DEF Blocks
    <3> QED BY <1>1, <2>6, <3>1
  <2>8. \A i \in 2 .. Len(list) : \A x \in X : list[i][2] = x => list[i][3] \in 1 .. Depth
    <3>1. CASE ~call.product
      BY <1>5, <3>1
    <3>2. CASE call.product
      <4>1. \A i \in 2 .. Len(list) : \E x \in X : \E p \in 1 .. Depth : list[i] = <<"tile", x, p>>
        BY <1>5, <3>2 DEF Products
      <4> QED BY ONLY <4>1
    <3> QED BY <3>1, <3>2
  <2>9. Did(list, X, 1)'
    <3> SUFFICES ASSUME NEW x \in X
                 PROVE  /\ Len(c'[x]) = (IF packed_can_initialize /\ Blocks(x)' = 0 THEN 0
                                         ELSE Betas + Blocks(x)')
                        /\ \A i \in 2 .. Len(list) : list[i][2] = x =>
                             (list[i][3] <= Blocks(x)' <=> i <= 1)
      <4>1. 1 # 0
        OBVIOUS
      <4> QED BY <1>2, <4>1, Zenon DEF Did
    <3> QED BY <1>1, <1>5, <2>6, <2>7, <2>8
  <2>10. \A x \in Tiles : \E n \in Len(c[x]) .. Full : c'[x] = Part(n)
    <3> SUFFICES ASSUME NEW x \in Tiles PROVE \E n \in Len(c[x]) .. Full : c'[x] = Part(n)
      OBVIOUS
    <3>1. CASE x \in X
      <4>1. c'[x] = Part(e) /\ Len(c[x]) = 0
        BY <2>3, <2>4, <3>1
      <4> HIDE DEF e
      <4> QED BY <1>1, <2>5, <4>1
    <3>2. CASE x \notin X
      BY <1>1, <1>3, <2>4, <3>2
    <3> QED BY <3>1, <3>2
  <2>11. DOMAIN c' = Tiles /\ c' = [x \in Tiles |-> c'[x]] /\ \A x \in Tiles : x \notin X => c'[x] = c[x]
    <3> HIDE DEF e
    <3> QED BY <2>4
  <2> QED BY <1>6, <2>2, <2>9, <2>10, <2>11
<1>7. CASE k > 0
  <2>1. k + 1 \in 2 .. Len(list) /\ k \in Nat
    BY <1>5, <1>7
  <2>2. call.product /\ Products(list, X)
    BY <1>5, <1>7
  <2>3. PICK x \in X, p \in 1 .. Depth : list[k + 1] = <<"tile", x, p>>
    BY <2>1, <2>2 DEF Products
  <2>4. /\ \A y \in X : Len(c[y]) = (IF packed_can_initialize /\ Blocks(y) = 0 THEN 0 ELSE Betas + Blocks(y))
        /\ \A y \in X : \A i \in 2 .. Len(list) : list[i][2] = y => (list[i][3] <= Blocks(y) <=> i <= k)
    BY <1>7, Zenon DEF Did
  <2>5. x \in Tiles /\ Blocks(x) \in Nat
    <3>1. x \in Tiles
      OBVIOUS
    <3>2. Len(c[x]) \in 0 .. Full
      BY <1>3, <3>1
    <3> QED BY <1>1, <3>1, <3>2 DEF Blocks
  <2>6. Blocks(x) = p - 1
    <3>1. ~(p <= Blocks(x))
      <4>1. list[k + 1][2] = x /\ list[k + 1][3] = p
        BY <2>3
      <4>2. list[k + 1][3] <= Blocks(x) <=> k + 1 <= k
        BY ONLY <2>1, <2>3, <2>4, <4>1
      <4> QED BY ONLY <2>1, <4>1, <4>2
    <3>2. p > 1 => p - 1 <= Blocks(x)
      <4> SUFFICES ASSUME p > 1 PROVE p - 1 <= Blocks(x)
        OBVIOUS
      <4>1. p \in 2 .. Depth
        BY <1>1
      <4>2. PICK j \in 2 .. (k + 1) - 1 : list[j] = <<"tile", x, p - 1>>
        BY <2>1, <2>2, <2>3, <4>1, ZenonT(60) DEF Products
      <4>3. j \in 2 .. Len(list) /\ j <= k /\ list[j][2] = x /\ list[j][3] = p - 1
        BY <2>1, <4>2
      <4>4. list[j][3] <= Blocks(x) <=> j <= k
        BY ONLY <2>3, <2>4, <4>3
      <4> QED BY ONLY <4>3, <4>4
    <3> QED BY <1>1, <2>5, <3>1, <3>2
  <2>7. c' = Multiplied(x, p) /\ UNCHANGED panels
    <3>1. /\ list[k + 1][1] = "tile" /\ list[k + 1][2] = x /\ list[k + 1][3] = p
      BY ONLY <2>3
    <3> QED BY <3>1 DEF Perform
  <2>8. c' = [c EXCEPT ![x] = Part(Betas + p)] /\ Betas + p \in 0 .. Full
    <3>1. Len(c[x]) = (IF packed_can_initialize /\ p = 1 THEN 0 ELSE Betas + p - 1)
      BY <1>1, <2>3, <2>4, <2>6
    <3> QED BY ONLY TypeOK, CurrentParts, <2>2, <2>3, <2>5, <2>7, <3>1, MultiplyStep
  <2> DEFINE e == Betas + p
  <2>9. e \in Nat /\ e <= Full /\ e # 0
    BY <1>1, <2>8
  <2>10. Len(Part(e)) = e
    BY <2>9, PartLists
  <2>11. c'[x] = Part(e) /\ DOMAIN c' = Tiles /\ c' = [y \in Tiles |-> c'[y]]
         /\ \A y \in Tiles : y # x => c'[y] = c[y]
    <3> HIDE DEF e
    <3>1. c' = [c EXCEPT ![x] = Part(e)]
      BY <2>8 DEF e
    <3> QED BY ONLY <1>4, <2>5, <3>1
  <2>12. Blocks(x)' = p /\ Len(c'[x]) = Betas + p
    <3>1. Len(c'[x]) = e
      BY <2>10, <2>11
    <3>2. Blocks(x)' = (IF Len(c'[x]) = 0 THEN 0 ELSE Len(c'[x]) - Betas)
      BY <1>2 DEF Blocks
    <3> QED BY <1>1, <2>9, <3>1, <3>2
  <2>13. \A y \in X : y # x => Blocks(y)' = Blocks(y) /\ Len(c'[y]) = Len(c[y])
    BY <1>2, <2>11 DEF Blocks
  <2>14. Did(list, X, k + 1)'
    <3> SUFFICES ASSUME NEW y \in X
                 PROVE  /\ Len(c'[y]) = (IF packed_can_initialize /\ Blocks(y)' = 0 THEN 0
                                         ELSE Betas + Blocks(y)')
                        /\ \A i \in 2 .. Len(list) : list[i][2] = y =>
                             (list[i][3] <= Blocks(y)' <=> i <= k + 1)
      <4>1. k + 1 # 0
        BY <2>1
      <4> QED BY <1>2, <4>1, Zenon DEF Did
    <3>1. CASE y = x
      <4>1. Len(c'[y]) = (IF packed_can_initialize /\ Blocks(y)' = 0 THEN 0 ELSE Betas + Blocks(y)')
        BY <1>1, <2>12, <3>1
      <4>2. ASSUME NEW i \in 2 .. Len(list), list[i][2] = x
            PROVE  list[i][3] <= p <=> i <= k + 1
        <5>1. PICK o \in 1 .. Depth : list[i] = <<"tile", x, o>>
          <6>1. PICK z \in X, o \in 1 .. Depth : list[i] = <<"tile", z, o>>
            BY <2>2 DEF Products
          <6> QED BY <4>2, <6>1
        <5>2. o <= p - 1 <=> i <= k
          BY <2>3, <2>4, <2>6, <5>1
        <5>3. o = p <=> i = k + 1
          <6>1. o = p => i = k + 1
            <7>1. \A a, b \in 2 .. Len(list) : list[a] = list[b] => a = b
              BY <2>2 DEF Products
            <7>2. o = p => list[i] = list[k + 1]
              BY ONLY <2>3, <5>1
            <7> QED BY ONLY <2>1, <7>1, <7>2, i \in 2 .. Len(list)
          <6>2. i = k + 1 => o = p
            BY ONLY <2>3, <5>1
          <6> QED BY <6>1, <6>2
        <5>4. list[i][3] = o
          BY ONLY <5>1
        <5> QED BY ONLY <1>1, <2>1, <2>3, <5>1, <5>2, <5>3, <5>4, i \in 2 .. Len(list)
      <4> QED BY <2>12, <3>1, <4>1, <4>2
    <3>2. CASE y # x
      <4>1. Len(c'[y]) = (IF packed_can_initialize /\ Blocks(y)' = 0 THEN 0 ELSE Betas + Blocks(y)')
        BY <2>4, <2>13, <3>2
      <4>2. ASSUME NEW i \in 2 .. Len(list), list[i][2] = y
            PROVE  list[i][3] <= Blocks(y) <=> i <= k + 1
        <5>1. list[i][3] <= Blocks(y) <=> i <= k
          BY ONLY <2>4, <4>2, y \in X
        <5>2. i # k + 1
          BY ONLY <2>3, <3>2, <4>2
        <5> QED BY ONLY <2>1, <5>1, <5>2, i \in 2 .. Len(list)
      <4> QED BY <2>13, <3>2, <4>1, <4>2
    <3> QED BY <3>1, <3>2
  <2>15. \A y \in Tiles : \E n \in Len(c[y]) .. Full : c'[y] = Part(n)
    <3> SUFFICES ASSUME NEW y \in Tiles PROVE \E n \in Len(c[y]) .. Full : c'[y] = Part(n)
      OBVIOUS
    <3>1. CASE y = x
      <4>1. Len(c[x]) <= e /\ Len(c[x]) \in Nat
        BY <1>1, <1>3, <2>3, <2>4, <2>5, <2>6
      <4> HIDE DEF e
      <4> QED BY <1>1, <2>9, <2>11, <3>1, <4>1
    <3>2. CASE y # x
      BY <1>1, <1>3, <2>11, <3>2
    <3> QED BY <3>1, <3>2
  <2> QED BY <2>3, <2>7, <2>11, <2>14, <2>15
<1> QED BY <1>6, <1>7

\* A task that has done its whole list has finished its tiles.
LEMMA DidAll ==
  ASSUME TypeOK, CurrentParts, call.output, NEW list, NEW X, X \subseteq Tiles,
         Computes(list, X), Did(list, X, Len(list))
  PROVE  \A x \in X : Len(c[x]) = Full
<1>1. Betas \in {0, 1} /\ Full \in Nat /\ Depth \in Nat \ {0}
  BY FullList
<1>2. Len(list) \in Nat \ {0}
  BY DEF Computes, Prepares
<1>3. ASSUME NEW x \in X PROVE Len(c[x]) = Full
  <2>1. Len(c[x]) \in 0 .. Full /\ Blocks(x) \in Nat
    BY <1>1, <1>3 DEF CurrentParts, Blocks
  <2>2. /\ Len(c[x]) = (IF packed_can_initialize /\ Blocks(x) = 0 THEN 0 ELSE Betas + Blocks(x))
        /\ \A i \in 2 .. Len(list) : list[i][2] = x => (list[i][3] <= Blocks(x) <=> i <= Len(list))
    <3>1. Len(list) # 0 /\ Len(list) > 0
      BY <1>2
    <3> QED BY <1>3, <3>1, Zenon DEF Did
  <2>3. CASE ~call.product
    <3>1. Full = Betas
      BY <1>1, <2>3 DEF Full
    <3>2. ~packed_can_initialize
      BY <2>3 DEF packed_can_initialize
    <3> QED BY <1>1, <2>1, <2>2, <3>1, <3>2
  <2>4. CASE call.product
    <3>1. Full = Betas + Depth
      BY <1>1, <2>4 DEF Full
    <3>2. PICK i \in 2 .. Len(list) : list[i] = <<"tile", x, Depth>>
      BY <2>4 DEF Computes, Products
    <3>3. list[i][2] = x /\ list[i][3] = Depth
      BY <3>2
    <3>4. Depth <= Blocks(x)
      BY <1>2, <2>2, <3>2, <3>3
    <3> QED BY <1>1, <2>1, <2>2, <3>1, <3>4
  <2> QED BY <2>3, <2>4
<1> QED BY <1>3

---------------------------------------------------------------------------
(* The steps *)

Step == [Promise!Next]_(Promise!vars)

\* C and the call as they were: Gemm stutters, and no tile changes.
LEMMA Stutters ==
  ASSUME UNCHANGED <<call, c, result>>
  PROVE  Step
BY DEF Step, Promise!vars

\* What is said of tiles stays true while C and the call stay.
LEMMA SameTiles ==
  ASSUME UNCHANGED <<call, c>>
  PROVE  /\ Full' = Full /\ Betas' = Betas
         /\ CurrentParts' <=> CurrentParts
         /\ \A list, X, k : Did(list, X, k)' <=> Did(list, X, k)
BY DEF Full, Betas, CurrentParts, Part, Did, Blocks, packed_can_initialize

\* Nothing is done yet.
LEMMA DidNone ==
  ASSUME TypeOK, NEW list, NEW X, Computes(list, X), \A x \in X : Len(c[x]) = 0
  PROVE  Did(list, X, 0)
<1>1. Depth \in Nat \ {0} /\ Len(list) \in Nat \ {0}
  BY FullList DEF Computes, Prepares
<1>2. \A x \in X : Blocks(x) = 0
  BY DEF Blocks
<1>3. \A i \in 2 .. Len(list) : list[i][3] \in 1 .. Depth
  <2>1. CASE ~call.product
    <3>1. Len(list) = 1
      BY <2>1 DEF Computes
    <3> QED BY ONLY <3>1
  <2>2. CASE call.product
    <3>1. \A i \in 2 .. Len(list) : \E x \in X : \E p \in 1 .. Depth : list[i] = <<"tile", x, p>>
      BY <2>2 DEF Computes, Products
    <3> QED BY ONLY <3>1
  <2> QED BY <2>1, <2>2
<1>4. \A i \in 2 .. Len(list) : list[i][3] <= 0 <=> i <= 0
  BY <1>1, <1>3
<1> QED BY <1>2, <1>4 DEF Did

\* Between the routes and after them, the entry's own variables are at rest.
LEMMA Outside ==
  ASSUME TypeOK', UNCHANGED call, CurrentParts',
         stage' # "done" => Accepted,
         stage' \in {"sve", "packed", "scalar", "returned", "done"},
         heap' = {}, inside' = NoSpace, pending' = {}, ~failed', run_rc' = 0,
         result' = "running" <=> stage' # "done",
         stage' \in {"sve", "packed", "returned"} => call.output,
         stage' \in {"sve", "packed", "scalar"} => \A x \in Tiles : Len(c'[x]) = 0,
         stage' = "returned" /\ rc' = 0 => \A x \in Tiles : Len(c'[x]) = Full,
         stage' = "returned" /\ rc' = UNAVAILABLE => \A x \in Tiles : Len(c'[x]) = 0
  PROVE  IInv'
<1>1. Full' = Full
  BY DEF Full, Betas
<1>2. StageInv'
  BY DEF StageInv, Inside, Batches, Packing, Accepted, validate_args
<1>3. TaskInv'
  BY DEF TaskInv, Batches, Packing
<1>4. SpaceInv'
  BY DEF SpaceInv, NoSpace
<1>5. PendingInv'
  BY DEF PendingInv, Inside, Batches, Packing
<1>6. PanelInv' /\ PackedInv'
  BY DEF PanelInv, PackedInv, Packing
<1>7. PartInv'
  BY <1>1 DEF PartInv, Packing
<1> QED BY <1>2, <1>3, <1>4, <1>5, <1>6, <1>7 DEF IInv

\* The ways out of the front end, and its dispatch to a route.
LEMMA RejectStep ==
  ASSUME IInv, Reject \/ NoOperation \/ Dispatch
  PROVE  IInv' /\ Step
<1>1. TypeOK /\ stage = "start" /\ UNCHANGED <<call, c, heap, inside, pending, failed, run_rc, rc>>
  BY DEF IInv, Reject, NoOperation, Dispatch
<1>2. /\ heap = {} /\ inside = NoSpace /\ pending = {} /\ ~failed /\ run_rc = 0
      /\ CurrentParts /\ \A x \in Tiles : Len(c[x]) = 0
      /\ result = "running"
  BY <1>1 DEF IInv, StageInv, PartInv, Inside, Batches, Packing
<1>3. CurrentParts' /\ \A x \in Tiles : Len(c'[x]) = 0
  BY <1>1, <1>2, SameTiles
<1>4. CASE Reject
  <2>1. TypeOK'
    BY <1>1, <1>4 DEF TypeOK, Reject, Finish
  <2>2. stage' = "done" /\ result' = "error"
    BY <1>4 DEF Reject, Finish
  <2>3. IInv'
    BY <1>1, <1>2, <1>3, <2>1, <2>2, Outside
  <2>4. Promise!Return
    BY <1>1, <1>2, <2>2 DEF Promise!Return
  <2> QED BY <2>3, <2>4 DEF Step, Promise!Next
<1>5. CASE NoOperation
  <2>1. TypeOK'
    BY <1>1, <1>5 DEF TypeOK, NoOperation, Finish
  <2>2. stage' = "done" /\ result' = "ok" /\ Accepted /\ NothingToDo
    BY <1>5 DEF NoOperation, Finish
  <2>3. IInv'
    BY <1>1, <1>2, <1>3, <2>1, <2>2, Outside
  <2>4. Full = 0
    BY <2>2 DEF Full, Betas, NothingToDo
  <2>5. \A x \in Tiles : c[x] = Promise!Finished
    BY <1>1, <1>2, <2>4, FullList DEF CurrentParts
  <2>6. Promise!Return
    BY <1>1, <1>2, <2>2, <2>5 DEF Promise!Return, Accepted, validate_args
  <2> QED BY <2>3, <2>6 DEF Step, Promise!Next
<1>6. CASE Dispatch
  <2>1. TypeOK'
    BY <1>1, <1>6 DEF TypeOK, Dispatch, Calls, Accepted
  <2>2. /\ stage' \in {"scalar", "sve", "packed"}
        /\ stage' # "scalar" => call.output
        /\ Accepted /\ UNCHANGED result
    BY <1>1, <1>6 DEF Dispatch, Accepted, TypeOK, Calls
  <2>3. /\ stage' # "done" => Accepted
        /\ stage' \in {"sve", "packed", "scalar", "returned", "done"} /\ stage' \notin {"returned", "done"}
        /\ heap' = {} /\ inside' = NoSpace /\ pending' = {} /\ ~failed' /\ run_rc' = 0
        /\ result' = "running" /\ (stage' \in {"sve", "packed"} => call.output)
    BY ONLY <1>1, <1>2, <2>2
  <2>4. IInv'
    BY ONLY <1>1, <1>3, <2>1, <2>3, Outside
  <2> QED BY <1>1, <2>2, <2>4, Stutters
<1> QED BY <1>4, <1>5, <1>6

\* The SVE route does all of C, or refuses before it touches C.
LEMMA RunSveStep ==
  ASSUME IInv, RunSve
  PROVE  IInv' /\ Step
<1>1. /\ TypeOK /\ stage = "sve" /\ stage' = "returned" /\ todo' = {} /\ at' = << >>
      /\ UNCHANGED <<call, panels, heap, inside, fused, pending, failed, run_rc, result>>
      /\ \/ rc' = UNAVAILABLE /\ UNCHANGED c
         \/ rc' = 0 /\ c' = [t \in Tiles |-> Promise!Finished]
  <2>1. TypeOK
    BY DEF IInv
  <2>2. /\ stage = "sve"
        /\ UNCHANGED <<call, panels, heap, inside, fused, pending, failed, run_rc, result>>
        /\ \/ Leave(UNAVAILABLE) /\ UNCHANGED c
           \/ Leave(0) /\ c' = [t \in Tiles |-> Promise!Finished]
    BY Zenon DEF RunSve
  <2>3. /\ Leave(0) => stage' = "returned" /\ rc' = 0 /\ todo' = {} /\ at' = << >>
        /\ Leave(UNAVAILABLE) => stage' = "returned" /\ rc' = UNAVAILABLE /\ todo' = {} /\ at' = << >>
    BY DEF Leave
  <2> QED BY ONLY <2>1, <2>2, <2>3
<1>2. /\ heap = {} /\ inside = NoSpace /\ pending = {} /\ ~failed /\ run_rc = 0
      /\ CurrentParts /\ \A x \in Tiles : Len(c[x]) = 0
      /\ result = "running" /\ Accepted /\ call.output
  BY <1>1 DEF IInv, StageInv, PartInv, Inside, Batches, Packing, Accepted, validate_args
<1>3. CASE rc' = UNAVAILABLE /\ UNCHANGED c
  <2>1. CurrentParts' /\ \A x \in Tiles : Len(c'[x]) = 0
    BY <1>1, <1>2, <1>3, SameTiles
  <2>2. TypeOK'
    BY <1>1, <1>3 DEF TypeOK
  <2>3. IInv'
    BY <1>1, <1>2, <1>3, <2>1, <2>2, Outside DEF UNAVAILABLE
  <2> QED BY <1>1, <1>3, <2>3, Stutters
<1>4. CASE rc' = 0 /\ c' = [t \in Tiles |-> Promise!Finished]
  <2>1. /\ Full \in Nat /\ Promise!Finished = Part(Full) /\ Len(Part(Full)) = Full
    BY <1>1, FullList, PartLists
  <2>2. /\ DOMAIN c' = Tiles /\ c' = [x \in Tiles |-> c'[x]] /\ \A x \in Tiles : c'[x] = Part(Full)
    BY ONLY <1>4, <2>1
  <2>3. \A x \in Tiles : \E n \in Len(c[x]) .. Full : c'[x] = Part(n)
    BY <1>2, <2>1, <2>2
  <2>4. Promise!Compute /\ CurrentParts' /\ c' \in [Tiles -> Seq(0 .. Depth)]
    BY <1>1, <1>2, <2>2, <2>3, ComputeStep
  <2>5. TypeOK'
    BY <1>1, <1>4, <2>4 DEF TypeOK
  <2>6. \A x \in Tiles : Len(c'[x]) = Full
    BY <2>1, <2>2
  <2>7. IInv'
    BY <1>1, <1>2, <1>4, <2>4, <2>5, <2>6, Outside DEF UNAVAILABLE
  <2> QED BY <2>4, <2>7 DEF Step, Promise!Next
<1> QED BY <1>1, <1>3, <1>4

\* The packed entry may refuse: C is as it was.
LEMMA RefuseStep ==
  ASSUME IInv, RefusePacked \/ RefuseWorkspace, UNCHANGED result
  PROVE  IInv' /\ Step
<1>1. /\ TypeOK /\ stage = "packed" /\ stage' = "returned" /\ todo' = {} /\ at' = << >>
      /\ UNCHANGED <<call, c, panels, heap, inside, fused, pending, failed, run_rc, result>>
      /\ rc' \in {UNAVAILABLE, EXECUTION_ERROR}
  BY DEF IInv, RefusePacked, RefuseWorkspace, Leave
<1>2. /\ heap = {} /\ inside = NoSpace /\ pending = {} /\ ~failed /\ run_rc = 0
      /\ CurrentParts /\ \A x \in Tiles : Len(c[x]) = 0
      /\ result = "running" /\ Accepted /\ call.output
  BY <1>1 DEF IInv, StageInv, PartInv, Inside, Batches, Packing, Accepted, validate_args
<1>3. CurrentParts' /\ (\A x \in Tiles : Len(c'[x]) = 0) /\ rc' # 0
  BY <1>1, <1>2, SameTiles DEF UNAVAILABLE, EXECUTION_ERROR
<1>4. TypeOK'
  BY <1>1 DEF TypeOK
<1>5. IInv'
  BY ONLY <1>1, <1>2, <1>3, <1>4, Outside
<1> QED BY <1>1, <1>5, Stutters

\* The list of the serial entry.
LEMMA SerialList ==
  ASSUME call.product
  PROVE  /\ DOMAIN Items("serial", call.product) = {1} /\ Items("serial", call.product)[1] = SerialItems
         /\ Computes(SerialItems, Tiles) /\ Len(SerialItems) \in Nat \ {0}
<1>1. Items("serial", call.product) = <<SerialItems>>
  BY DEF Items
<1>2. DOMAIN <<SerialItems>> = {1} /\ <<SerialItems>>[1] = SerialItems
  <2> HIDE DEF SerialItems
  <2> QED OBVIOUS
<1>3. Prepares(SerialItems, Tiles) /\ Products(SerialItems, Tiles)
  BY SerialComputes
<1>4. Len(SerialItems) \in Nat \ {0}
  BY <1>3 DEF Prepares
<1> QED BY <1>1, <1>2, <1>3, <1>4 DEF Computes

\* The packed entry may run alone, or do the preparation only.
LEMMA SerialEntryStep ==
  ASSUME IInv, SerialEntry, UNCHANGED result
  PROVE  IInv' /\ Step
<1>1. /\ TypeOK /\ stage = "packed"
      /\ UNCHANGED <<call, panels, heap, inside, fused, pending, failed, run_rc, result>>
  BY DEF IInv, SerialEntry
<1>2. /\ heap = {} /\ inside = NoSpace /\ pending = {} /\ ~failed /\ run_rc = 0
      /\ CurrentParts /\ \A x \in Tiles : Len(c[x]) = 0
      /\ result = "running" /\ Accepted /\ call.output
  BY <1>1 DEF IInv, StageInv, PartInv, Inside, Batches, Packing, Accepted, validate_args
<1>3. CASE call.product
  <2>1. stage' = "serial" /\ todo' = {1} /\ at' = << >> /\ UNCHANGED <<c, rc>>
    BY <1>3, SerialList DEF SerialEntry, Submit
  <2>2. TypeOK'
    BY <1>1, <2>1 DEF TypeOK
  <2>3. StageInv'
    BY <1>1, <1>2, <1>3, <2>1 DEF StageInv, Inside, Batches, Packing, Accepted, validate_args
  <2>4. TaskInv'
    BY <2>1 DEF TaskInv, Batches, Packing
  <2>5. SpaceInv'
    BY <1>1, <1>2, <2>1 DEF SpaceInv, NoSpace
  <2>6. PendingInv'
    BY <1>1, <1>2, <2>1 DEF PendingInv, Inside, Batches, Packing
  <2>7. PanelInv' /\ PackedInv'
    BY <2>1 DEF PanelInv, PackedInv, Packing
  <2>8. CurrentParts' /\ Did(SerialItems, Tiles, 0)'
    <3>1. Did(SerialItems, Tiles, 0)
      BY <1>1, <1>2, <1>3, SerialList, DidNone
    <3> QED BY <1>1, <1>2, <2>1, <3>1, SameTiles
  <2>9. PartInv'
    <3>1. Did(SerialItems, Tiles, IF todo # {} THEN 0 ELSE at[1])'
      <4>1. (IF todo' # {} THEN 0 ELSE at'[1]) = 0
        BY <2>1
      <4> QED BY <1>1, <2>8, <4>1
    <3> QED BY <2>1, <2>8, <3>1 DEF PartInv, Packing
  <2>10. IInv'
    BY <2>2, <2>3, <2>4, <2>5, <2>6, <2>7, <2>9 DEF IInv
  <2> QED BY <1>1, <2>1, <2>10, Stutters
<1>4. CASE ~call.product
  <2>1. stage' = "returned" /\ rc' = 0 /\ todo' = {} /\ at' = << >> /\ c' = Scaled(Tiles)
    BY <1>4 DEF SerialEntry, Leave
  <2>2. Full = Betas /\ Full \in Nat /\ ~packed_can_initialize
    BY <1>1, <1>4, FullList DEF Full, packed_can_initialize
  <2>3. c' = [x \in Tiles |-> IF x \in Tiles THEN Part(IF packed_can_initialize THEN 0 ELSE Betas) ELSE c[x]]
    BY <1>1, <1>2, <2>1, <2>2, PrepareStep
  <2>4. c' = [x \in Tiles |-> Part(Full)]
    BY <2>2, <2>3
  <2>5. Len(Part(Full)) = Full
    BY <2>2, PartLists
  <2>6. DOMAIN c' = Tiles /\ c' = [x \in Tiles |-> c'[x]] /\ \A x \in Tiles : c'[x] = Part(Full)
    BY ONLY <2>4
  <2>7. \A x \in Tiles : \E n \in Len(c[x]) .. Full : c'[x] = Part(n)
    BY <1>2, <2>2, <2>6
  <2>8. Promise!Compute /\ CurrentParts' /\ c' \in [Tiles -> Seq(0 .. Depth)]
    BY <1>1, <1>2, <2>6, <2>7, ComputeStep
  <2>9. TypeOK'
    BY <1>1, <2>1, <2>8 DEF TypeOK
  <2>10. (\A x \in Tiles : Len(c'[x]) = Full) /\ rc' # UNAVAILABLE
    BY <2>1, <2>5, <2>6 DEF UNAVAILABLE
  <2>11. IInv'
    BY ONLY <1>1, <1>2, <2>1, <2>8, <2>9, <2>10, Outside
  <2> QED BY <2>8, <2>11 DEF Step, Promise!Next
<1> QED BY <1>3, <1>4

\* What SerialStep's caller knows: how many items are done.
SerialDone == IF todo # {} THEN 0 ELSE at[1]
\* What holds while the packed entry runs alone.
LEMMA InSerial ==
  ASSUME IInv, stage = "serial"
  PROVE  /\ TypeOK /\ CurrentParts /\ call.product /\ call.output /\ Accepted /\ result = "running"
         /\ heap = {} /\ inside = NoSpace /\ pending = {} /\ ~failed /\ run_rc = 0
         /\ MyItems(1) = SerialItems /\ Len(SerialItems) \in Nat \ {0}
         /\ Computes(SerialItems, Tiles) /\ SerialDone \in 0 .. Len(SerialItems)
         /\ Did(SerialItems, Tiles, SerialDone)
<1>1. /\ TypeOK /\ call.product /\ call.output /\ Accepted /\ result = "running"
      /\ heap = {} /\ inside = NoSpace /\ pending = {} /\ ~failed /\ run_rc = 0
  BY DEF IInv, StageInv, Inside, Batches, Packing, Accepted, validate_args
<1>2. CurrentParts /\ Did(SerialItems, Tiles, SerialDone)
  BY DEF IInv, PartInv, SerialDone
<1>3. MyItems(1) = SerialItems /\ Len(SerialItems) \in Nat \ {0} /\ Computes(SerialItems, Tiles)
  BY <1>1, SerialList DEF MyItems
<1>4. SerialDone \in 0 .. Len(SerialItems)
  BY <1>3 DEF IInv, TaskInv, SerialDone
<1> QED BY <1>1, <1>2, <1>3, <1>4

\* A serial run that fails before or while it computes returns an error.
LEMMA SerialLeave ==
  ASSUME IInv, SerialRefuse \/ SerialFail, UNCHANGED result
  PROVE  IInv' /\ Step
<1>1. /\ stage = "serial" /\ stage' = "returned" /\ todo' = {} /\ at' = << >>
      /\ UNCHANGED <<call, c, panels, heap, inside, fused, pending, failed, run_rc, result>>
      /\ (rc' = UNAVAILABLE /\ todo # {}) \/ rc' = EXECUTION_ERROR
  BY DEF SerialRefuse, SerialFail, Leave
<1>2. /\ TypeOK /\ CurrentParts /\ call.output /\ Accepted /\ result = "running"
      /\ heap = {} /\ inside = NoSpace /\ pending = {} /\ ~failed /\ run_rc = 0
      /\ Did(SerialItems, Tiles, SerialDone)
  BY <1>1, InSerial
<1>3. todo # {} => \A x \in Tiles : Len(c[x]) = 0
  BY <1>2 DEF SerialDone, Did
<1>4. CurrentParts' /\ TypeOK'
  BY <1>1, <1>2, SameTiles DEF TypeOK
<1>5. rc' # 0 /\ (rc' = UNAVAILABLE => \A x \in Tiles : Len(c'[x]) = 0)
  BY <1>1, <1>3 DEF UNAVAILABLE, EXECUTION_ERROR
<1>6. IInv'
  BY ONLY <1>1, <1>2, <1>4, <1>5, Outside
<1> QED BY <1>1, <1>6, Stutters

\* The next product of the serial run, or its end.
LEMMA SerialStepStep ==
  ASSUME IInv, SerialStep, UNCHANGED result
  PROVE  IInv' /\ Step
<1> PICK k \in 0 .. Len(SerialItems) : k = SerialDone
  <2>1. stage = "serial"
    BY DEF SerialStep
  <2> QED BY <2>1, InSerial
<1>1. /\ stage = "serial"
      /\ UNCHANGED <<call, panels, heap, inside, fused, pending, failed, run_rc, result>>
      /\ IF k = Len(MyItems(1))
         THEN /\ \E status \in {0, EXECUTION_ERROR} : Leave(status)
              /\ UNCHANGED c
         ELSE /\ Perform(MyItems(1)[k + 1])
              /\ at' = << k + 1 >>
              /\ todo' = {}
              /\ UNCHANGED <<stage, rc>>
  BY Zenon DEF SerialStep, SerialDone
<1>2. /\ TypeOK /\ CurrentParts /\ call.product /\ call.output /\ Accepted /\ result = "running"
      /\ heap = {} /\ inside = NoSpace /\ pending = {} /\ ~failed /\ run_rc = 0
      /\ MyItems(1) = SerialItems /\ Len(SerialItems) \in Nat \ {0}
      /\ Computes(SerialItems, Tiles) /\ k \in 0 .. Len(SerialItems)
      /\ Did(SerialItems, Tiles, k)
  BY <1>1, InSerial
<1>3. CASE k = Len(SerialItems)
  <2>1. /\ stage' = "returned" /\ rc' \in {0, EXECUTION_ERROR} /\ todo' = {} /\ at' = << >>
        /\ UNCHANGED c
    BY <1>1, <1>2, <1>3 DEF Leave
  <2>2. \A x \in Tiles : Len(c[x]) = Full
    BY <1>2, <1>3, DidAll
  <2>3. CurrentParts' /\ TypeOK'
    BY <1>1, <1>2, <2>1, SameTiles DEF TypeOK
  <2>4. (\A x \in Tiles : Len(c'[x]) = Full) /\ rc' # UNAVAILABLE
    BY <2>1, <2>2 DEF UNAVAILABLE, EXECUTION_ERROR
  <2>5. IInv'
    BY ONLY <1>1, <1>2, <2>1, <2>3, <2>4, Outside
  <2> QED BY <1>1, <2>1, <2>5, Stutters
<1>4. CASE k # Len(SerialItems)
  <2>1. /\ Perform(SerialItems[k + 1]) /\ at' = << k + 1 >> /\ todo' = {} /\ UNCHANGED <<stage, rc>>
    BY <1>1, <1>2, <1>4
  <2>2. k \in Nat /\ k < Len(SerialItems)
    BY <1>2, <1>4
  <2>3. /\ Did(SerialItems, Tiles, k + 1)'
        /\ DOMAIN c' = Tiles /\ c' = [x \in Tiles |-> c'[x]]
        /\ \A x \in Tiles : \E n \in Len(c[x]) .. Full : c'[x] = Part(n)
    BY <1>1, <1>2, <2>1, <2>2, DidStep
  <2>4. Promise!Compute /\ CurrentParts' /\ c' \in [Tiles -> Seq(0 .. Depth)]
    BY <1>1, <1>2, <2>3, ComputeStep
  <2>5. TypeOK'
    BY <1>1, <1>2, <2>1, <2>4 DEF TypeOK
  <2>6. StageInv'
    BY <1>1, <1>2, <2>1 DEF StageInv, Inside, Batches, Packing, Accepted, validate_args
  <2>7. DOMAIN at' = {1} /\ at'[1] = k + 1 /\ k + 1 \in 1 .. Len(SerialItems)
    BY <1>2, <2>1, <2>2
  <2>8. TaskInv'
    BY <1>1, <1>2, <2>1, <2>7 DEF TaskInv, Batches, Packing
  <2>9. SpaceInv'
    BY <1>1, <1>2, <2>1 DEF SpaceInv, NoSpace
  <2>10. PendingInv'
    BY <1>1, <1>2, <2>1 DEF PendingInv, Inside, Batches, Packing
  <2>11. PanelInv' /\ PackedInv'
    BY <1>1, <2>1 DEF PanelInv, PackedInv, Packing
  <2>12. Did(SerialItems, Tiles, IF todo # {} THEN 0 ELSE at[1])'
    <3>1. (IF todo' # {} THEN 0 ELSE at'[1]) = k + 1
      BY <2>1, <2>7
    <3> QED BY <2>3, <3>1
  <2>13. PartInv'
    BY <1>1, <2>1, <2>4, <2>12 DEF PartInv, Packing
  <2>14. IInv'
    BY <2>5, <2>6, <2>8, <2>9, <2>10, <2>11, <2>13 DEF IInv
  <2> QED BY <2>4, <2>14 DEF Step, Promise!Next
<1> QED BY <1>3, <1>4

\* What a route returned ends the call, or sends it on to the scalar route:
\* then nothing was done to C.
LEMMA BackendDoneStep ==
  ASSUME IInv, BackendDone
  PROVE  IInv' /\ Step
<1>1. /\ TypeOK /\ stage = "returned"
      /\ UNCHANGED <<call, c, panels, heap, inside, fused, pending, todo, at, failed, run_rc, rc>>
  BY DEF IInv, BackendDone
<1>2. /\ heap = {} /\ inside = NoSpace /\ pending = {} /\ ~failed /\ run_rc = 0
      /\ CurrentParts /\ result = "running" /\ Accepted /\ call.output
      /\ (rc = 0 => \A x \in Tiles : Len(c[x]) = Full)
      /\ (rc = UNAVAILABLE => \A x \in Tiles : Len(c[x]) = 0)
  BY <1>1 DEF IInv, StageInv, PartInv, Inside, Batches, Packing, Accepted, validate_args
<1>3. CurrentParts'
  BY <1>1, <1>2, SameTiles
<1>4. CASE rc = 0
  <2>1. stage' = "done" /\ result' = "ok"
    BY <1>4 DEF BackendDone, Finish
  <2>2. TypeOK'
    BY <1>1, <2>1 DEF TypeOK
  <2>3. IInv'
    BY ONLY <1>1, <1>2, <1>3, <2>1, <2>2, Outside
  <2>4. \A x \in Tiles : c[x] = Promise!Finished
    BY <1>1, <1>2, <1>4, FullList DEF CurrentParts
  <2>5. Promise!Return
    BY <1>1, <1>2, <2>1, <2>4 DEF Promise!Return, Accepted, validate_args
  <2> QED BY <2>3, <2>5 DEF Step, Promise!Next
<1>5. CASE rc # 0 /\ (call.workspace # 0 \/ packed_result_is_execution_error)
  <2>1. stage' = "done" /\ result' = "error"
    BY <1>5 DEF BackendDone, Finish
  <2>2. TypeOK'
    BY <1>1, <2>1 DEF TypeOK
  <2>3. IInv'
    BY ONLY <1>1, <1>2, <1>3, <2>1, <2>2, Outside
  <2>4. Promise!Return
    BY <1>1, <1>2, <2>1 DEF Promise!Return
  <2> QED BY <2>3, <2>4 DEF Step, Promise!Next
<1>6. CASE rc # 0 /\ ~(call.workspace # 0 \/ packed_result_is_execution_error)
  <2>1. stage' = "scalar" /\ result' = result
    BY <1>6 DEF BackendDone
  <2>2. TypeOK'
    BY <1>1, <2>1 DEF TypeOK
  <2>3. \A x \in Tiles : Len(c'[x]) = 0
    BY <1>1, <1>2, <1>6 DEF packed_result_is_execution_error
  <2>4. IInv'
    BY ONLY <1>1, <1>2, <1>3, <2>1, <2>2, <2>3, Outside
  <2> QED BY <1>1, <2>1, <2>4, Stutters
<1> QED BY <1>4, <1>5, <1>6

\* The row tasks cut the tiles.
LEMMA RowCuts ==
  ASSUME call.output
  PROVE  /\ DOMAIN split_rows = 1 .. Len(split_rows)
         /\ \A x \in Tiles : \E t \in DOMAIN split_rows : x[1] \in split_rows[t]
         /\ \A t, u \in DOMAIN split_rows : \A r : r \in split_rows[t] /\ r \in split_rows[u] => t = u
<1> DEFINE rows == ceil_div_positive(M, Mc)
           g == Groups(rows, MaxRowTasks)
<1>1. rows \in Nat \ {0} /\ Cardinality(RowBlocks) = rows
  BY Shape
<1>2. RowBlocks = 0 .. rows - 1
  BY DEF RowBlocks
<1> HIDE DEF rows
<1>3. MaxRowTasks \in Nat \ {0}
  BY MaxRowTasksAssumption
<1>4. Cuts(g, rows)
  BY ONLY <1>1, <1>3, GroupsCut
<1>5. split_rows = g
  BY <1>1 DEF split_rows
<1> HIDE DEF g
<1>6. /\ DOMAIN g = 1 .. Len(g)
      /\ \A k \in 0 .. rows - 1 : \E t \in 1 .. Len(g) : k \in g[t]
      /\ \A t, u \in 1 .. Len(g) : \A k : k \in g[t] /\ k \in g[u] => t = u
  BY ONLY <1>4, Zenon DEF Cuts
<1>7. \A x \in Tiles : x[1] \in 0 .. rows - 1
  BY <1>2 DEF Tiles
<1> QED BY ONLY <1>5, <1>6, <1>7, Zenon

\* The scalar route cuts the rows into tasks.
LEMMA SubmitRowsStep ==
  ASSUME IInv, SubmitRows
  PROVE  IInv' /\ Step
<1>1. /\ TypeOK /\ stage = "scalar"
      /\ UNCHANGED <<call, c, panels, heap, inside, fused, pending, at, failed, run_rc, rc>>
  BY DEF IInv, SubmitRows
<1>2. /\ heap = {} /\ inside = NoSpace /\ pending = {} /\ ~failed /\ run_rc = 0
      /\ CurrentParts /\ result = "running" /\ Accepted
      /\ \A x \in Tiles : Len(c[x]) = 0
  BY <1>1 DEF IInv, StageInv, PartInv, Inside, Batches, Packing, Accepted, validate_args
<1>3. CurrentParts' /\ Full' = Full
  BY <1>1, <1>2, SameTiles
<1>4. CASE call.output
  <2>1. stage' = "rows" /\ todo' = DOMAIN split_rows /\ result' = result
    BY <1>4 DEF SubmitRows
  <2>2. TypeOK'
    BY <1>1, <2>1 DEF TypeOK
  <2>3. StageInv'
    BY <1>1, <1>2, <1>4, <2>1 DEF StageInv, Inside, Batches, Packing, Accepted, validate_args
  <2>4. split_rows' = split_rows
    BY <1>1 DEF split_rows
  <2>5. TaskInv'
    BY <2>1, <2>4 DEF TaskInv, Batches, Packing
  <2>6. SpaceInv'
    BY <1>1, <1>2, <2>1 DEF SpaceInv, NoSpace
  <2>7. PendingInv'
    BY <1>1, <1>2, <2>1 DEF PendingInv, Inside, Batches, Packing
  <2>8. PanelInv' /\ PackedInv'
    BY <2>1 DEF PanelInv, PackedInv, Packing
  <2>9. PartInv'
    BY <1>1, <1>2, <1>3, <2>1, <2>4 DEF PartInv, Packing
  <2>10. IInv'
    BY <2>2, <2>3, <2>5, <2>6, <2>7, <2>8, <2>9 DEF IInv
  <2> QED BY <1>1, <2>1, <2>10, Stutters
<1>5. CASE ~call.output
  <2>1. stage' = "done" /\ result' = "ok" /\ todo' = todo
    BY <1>5 DEF SubmitRows, Finish
  <2>2. TypeOK'
    BY <1>1, <2>1 DEF TypeOK
  <2>3. IInv'
    BY ONLY <1>1, <1>2, <1>3, <2>1, <2>2, Outside
  <2>4. Full = 0
    BY <1>1, <1>5 DEF Full, Betas, TypeOK, Calls
  <2>5. \A x \in Tiles : c[x] = Promise!Finished
    BY <1>1, <1>2, <2>4, FullList DEF CurrentParts
  <2>6. Promise!Return
    BY <1>1, <1>2, <2>1, <2>5 DEF Promise!Return, Accepted, validate_args
  <2> QED BY <2>3, <2>6 DEF Step, Promise!Next
<1> QED BY <1>4, <1>5

\* beta and the whole depth, applied to a tile at once.
LEMMA WholeTile ==
  ASSUME TypeOK, call.output, NEW x \in Tiles, c[x] = <<>>
  PROVE  Scaled(Tiles)[x] \o (IF call.product THEN InOrder(1 .. Depth) ELSE << >>) = Promise!Finished
<1>1. Scaled(Tiles)[x] = IF call.output /\ call.beta # "one" THEN <<0>> ELSE <<>>
  <2>1. Scaled(Tiles)[x] = (IF call.beta = "one" THEN <<>> ELSE IF call.beta = "zero" THEN <<0>> ELSE Append(<<>>, 0))
    BY DEF Scaled
  <2>2. Append(<<>>, 0) = <<0>>
    BY ONLY 0 \in Int
  <2> QED BY <2>1, <2>2
<1>2. InOrder(1 .. Depth) = [p \in 1 .. Depth |-> p]
  <2>1. 1 \in Int /\ Depth \in Int /\ Depth \in Nat /\ 1 <= Depth
    BY Shape
  <2> DEFINE D == InOrder(1 .. Depth)
  <2>2. Lists(D, 1 .. Depth) /\ Len(D) = Depth - 1 + 1 /\ \A i \in 1 .. Depth - 1 + 1 : D[i] = 1 + i - 1
    BY ONLY <2>1, InOrderLists
  <2> DEFINE k == Cardinality(1 .. Depth)
             m == CHOOSE f \in 1 .. Depth : \A y \in 1 .. Depth : f <= y
  <2>3. D = [i \in 1 .. k |-> m + i - 1]
    BY Zenon DEF InOrder
  <2> HIDE DEF D, k, m
  <2>4. DOMAIN D = 1 .. Depth /\ \A i \in 1 .. Depth : D[i] = i
    BY ONLY <2>1, <2>2 DEF Lists
  <2> QED BY ONLY <2>3, <2>4 DEF D
<1> QED BY ONLY <1>1, <1>2, Zenon DEF Promise!Finished

\* A task of the scalar route does its rows, and no other has done them.
LEMMA RunRowsStep ==
  ASSUME IInv, NEW t \in DOMAIN split_rows, RunRows(t)
  PROVE  IInv' /\ Step
<1>1. /\ TypeOK /\ stage = "rows" /\ t \in todo /\ c' = sgemm_tile_fn(t) /\ todo' = todo \ {t}
      /\ UNCHANGED <<call, stage, panels, heap, inside, fused, pending, at, failed, run_rc, rc, result>>
  BY DEF IInv, RunRows
<1>2. /\ heap = {} /\ inside = NoSpace /\ pending = {} /\ ~failed /\ run_rc = 0
      /\ CurrentParts /\ result = "running" /\ Accepted /\ call.output
      /\ todo \subseteq DOMAIN split_rows
      /\ \A u \in DOMAIN split_rows : \A x \in Tiles :
           x[1] \in split_rows[u] => Len(c[x]) = (IF u \in todo THEN 0 ELSE Full)
  BY <1>1 DEF IInv, StageInv, TaskInv, PartInv, Inside, Batches, Packing, Accepted, validate_args
<1>3. Full \in Nat /\ Promise!Finished = Part(Full) /\ Part(0) = <<>> /\ Len(Part(Full)) = Full
  BY <1>1, FullList, PartLists
<1>4. \A x \in Tiles : Len(c[x]) \in 0 .. Full /\ c[x] = Part(Len(c[x]))
  BY <1>2 DEF CurrentParts
<1>5. \A x \in Tiles : c'[x] = IF x[1] \in split_rows[t] THEN Part(Full) ELSE c[x]
  <2>1. c' = [x \in Tiles |->
               IF x[1] \notin split_rows[t] THEN c[x]
               ELSE Scaled(Tiles)[x] \o (IF call.product THEN InOrder(1 .. Depth) ELSE << >>)]
    BY <1>1 DEF sgemm_tile_fn
  <2>2. ASSUME NEW x \in Tiles, x[1] \in split_rows[t] PROVE c'[x] = Part(Full)
    <3>1. c[x] = <<>>
      BY <1>1, <1>2, <1>3, <1>4, <2>2
    <3>2. Scaled(Tiles)[x] \o (IF call.product THEN InOrder(1 .. Depth) ELSE << >>) = Part(Full)
      BY <1>1, <1>2, <1>3, <3>1, WholeTile
    <3> QED BY <2>1, <2>2, <3>2
  <2>3. ASSUME NEW x \in Tiles, x[1] \notin split_rows[t] PROVE c'[x] = c[x]
    BY <2>1, <2>3
  <2> QED BY <2>2, <2>3
<1>6. DOMAIN c' = Tiles /\ c' = [x \in Tiles |-> c'[x]]
  BY <1>1 DEF sgemm_tile_fn
<1>7. \A x \in Tiles : \E n \in Len(c[x]) .. Full : c'[x] = Part(n)
  BY <1>3, <1>4, <1>5
<1>8. Promise!Compute /\ CurrentParts' /\ c' \in [Tiles -> Seq(0 .. Depth)]
  BY <1>1, <1>2, <1>6, <1>7, ComputeStep
<1>9. TypeOK'
  BY <1>1, <1>8 DEF TypeOK
<1>10. split_rows' = split_rows /\ Full' = Full
  BY <1>1 DEF split_rows, Full, Betas
<1>11. StageInv'
  BY <1>1, <1>2 DEF StageInv, IInv, Inside, Batches, Packing, Accepted, validate_args
<1>12. TaskInv'
  BY <1>1, <1>2, <1>10 DEF TaskInv, Batches, Packing
<1>13. SpaceInv'
  BY <1>1, <1>2 DEF SpaceInv, NoSpace
<1>14. PendingInv'
  BY <1>1, <1>2 DEF PendingInv, Inside, Batches, Packing
<1>15. PanelInv' /\ PackedInv'
  BY <1>1 DEF PanelInv, PackedInv, Packing
<1>16. ASSUME NEW u \in DOMAIN split_rows, NEW x \in Tiles, x[1] \in split_rows[u]
       PROVE  Len(c'[x]) = (IF u \in todo' THEN 0 ELSE Full)
  <2>1. CASE u = t
    BY <1>1, <1>3, <1>5, <1>16, <2>1
  <2>2. CASE u # t
    <3>1. x[1] \notin split_rows[t]
      BY <1>2, <1>16, <2>2, RowCuts
    <3> QED BY <1>1, <1>2, <1>5, <1>16, <2>2, <3>1
  <2> QED BY <2>1, <2>2
<1>17. PartInv'
  BY <1>1, <1>8, <1>10, <1>16 DEF PartInv, Packing
<1>18. IInv'
  BY <1>9, <1>11, <1>12, <1>13, <1>14, <1>15, <1>17 DEF IInv
<1> QED BY <1>8, <1>18 DEF Step, Promise!Next

\* The scalar route ends: every row was some task's.
LEMMA RowsDoneStep ==
  ASSUME IInv, RowsDone
  PROVE  IInv' /\ Step
<1>1. /\ TypeOK /\ stage = "rows" /\ stage' = "done" /\ todo' = {}
      /\ UNCHANGED <<call, c, panels, heap, inside, fused, pending, at, failed, run_rc, rc>>
      /\ (result' = "ok" /\ todo = {}) \/ result' = "error"
  BY DEF IInv, RowsDone, Finish, Returned
<1>2. /\ heap = {} /\ inside = NoSpace /\ pending = {} /\ ~failed /\ run_rc = 0
      /\ CurrentParts /\ result = "running" /\ Accepted /\ call.output
      /\ \A u \in DOMAIN split_rows : \A x \in Tiles :
           x[1] \in split_rows[u] => Len(c[x]) = (IF u \in todo THEN 0 ELSE Full)
  BY <1>1 DEF IInv, StageInv, PartInv, Inside, Batches, Packing, Accepted, validate_args
<1>3. CurrentParts' /\ TypeOK'
  BY <1>1, <1>2, SameTiles DEF TypeOK
<1>4. result' \in {"ok", "error"}
  BY <1>1
<1>5. IInv'
  BY ONLY <1>1, <1>2, <1>3, <1>4, Outside
<1>6. todo = {} => \A x \in Tiles : c[x] = Promise!Finished
  <2>1. todo = {} => \A x \in Tiles : Len(c[x]) = Full
    BY <1>2, RowCuts
  <2> QED BY <1>1, <1>2, <2>1, FullList DEF CurrentParts
<1>7. Promise!Return
  BY <1>1, <1>2, <1>6 DEF Promise!Return, Accepted, validate_args
<1> QED BY <1>5, <1>7 DEF Step, Promise!Next

---------------------------------------------------------------------------
(* The preparation *)

\* The sizes of the parts of the workspace, and that they do not overlap.
LEMMA Sizes ==
  /\ BBytes \in Nat \ {0} /\ ABytes \in Nat \ {0} /\ Slots \in Nat \ {0}
  /\ ShapesAt \in Nat /\ BBytes + ABytes <= ShapesAt
<1>1. /\ Cardinality(RowBlocks) \in Nat \ {0} /\ Depth \in Nat \ {0} /\ N \in Nat \ {0}
      /\ Mc \in Nat \ {0} /\ Alignment \in Nat \ {0}
  BY Shape
<1>2. \A a, b \in Nat \ {0} : a * b \in Nat \ {0}
  OBVIOUS
<1>3. Slots \in Nat \ {0} /\ BBytes \in Nat \ {0}
  BY <1>1, <1>2 DEF Slots, BBytes
<1>4. ABytes \in Nat \ {0}
  BY <1>1, <1>2, <1>3 DEF ABytes
<1>5. BBytes + ABytes \in Nat \ {0}
  BY <1>3, <1>4
<1> DEFINE n == BBytes + ABytes
<1>6. ceil_div_positive(n, Alignment) \in Nat /\ n <= ceil_div_positive(n, Alignment) * Alignment
  BY <1>1, <1>5, CeilDiv
<1>7. ceil_div_positive(n, Alignment) * Alignment \in Nat
  BY <1>1, <1>6
<1> QED BY <1>3, <1>4, <1>6, <1>7 DEF ShapesAt

\* What the preparation and the batches know of the call.
LEMMA InEntry ==
  ASSUME IInv, stage \in Inside
  PROVE  /\ TypeOK /\ CurrentParts /\ call.output /\ Accepted /\ result = "running"
         /\ (stage \in Packing \cup {"prepareA", "prepareB"} =>
               run_rc = 0 /\ \A x \in Tiles : Len(c[x]) = 0)
         /\ (stage \in {"prepareA", "prepareB"} => ~failed)
BY DEF IInv, StageInv, PartInv, Inside, Batches, Packing, Accepted, validate_args

\* The tasks of each packing batch.
LEMMA PackingLists ==
  /\ Packs(Items("packA", call.product), PanelsOfA)
  /\ Packs(Items("packB", call.product), PanelsOfB)
  /\ Packs(Items("packAB", call.product), PanelsOfA \cup PanelsOfB)
BY APacks, BPacks, ABPacks DEF Items

\* No task of a new batch has started.
LEMMA SubmitPacking ==
  ASSUME TypeOK, CurrentParts, \A x \in Tiles : Len(c[x]) = 0, UNCHANGED <<call, c>>,
         NEW kind \in Packing, Submit(kind)
  PROVE  TaskInv' /\ PackedInv' /\ PartInv'
<1>1. stage' = kind /\ todo' = DOMAIN Items(kind, call.product) /\ at' = << >> /\ DOMAIN at' = {}
  BY DEF Submit
<1>2. TaskInv'
  BY <1>1 DEF TaskInv, Packing
<1>3. PackedInv'
  BY <1>1 DEF PackedInv
<1>4. PartInv'
  BY <1>1, SameTiles DEF PartInv, Packing
<1> QED BY <1>2, <1>3, <1>4

\* The batch of tiles begins: nothing has been done to any tile.
LEMMA SubmitTiles ==
  ASSUME TypeOK, CurrentParts, \A x \in Tiles : Len(c[x]) = 0, UNCHANGED <<call, c>>,
         Submit("tiles")
  PROVE  TaskInv' /\ PackedInv' /\ PartInv'
<1>1. stage' = "tiles" /\ todo' = DOMAIN Items("tiles", call.product) /\ at' = << >> /\ DOMAIN at' = {}
  BY DEF Submit
<1>2. TaskInv'
  BY <1>1 DEF TaskInv
<1>3. PackedInv'
  BY <1>1 DEF PackedInv, Packing
<1>4. DOMAIN TileTasks = todo'
  BY <1>1, TileGrid
<1>5. ASSUME NEW t \in DOMAIN TileTasks
      PROVE  Did(Items("tiles", call.product)[t], Rectangle(t), 0)'
  <2> DEFINE list == Items("tiles", call.product)[t]
             X == Rectangle(t)
  <2>1. Computes(list, X) /\ X \subseteq Tiles
    BY <1>5, TileGrid
  <2>2. Did(list, X, 0)
    BY <2>1, DidNone
  <2> QED BY <2>2, SameTiles
<1>6. PartInv'
  BY <1>1, <1>4, <1>5, SameTiles DEF PartInv, Packing, MyItems, Undone
<1> QED BY <1>2, <1>3, <1>6

\* Entering the parallel route, and leaving B private to the tasks.
LEMMA EnterStep ==
  ASSUME IInv, EnterExecutor \/ PrivateB \/ NoRoomForB, UNCHANGED result
  PROVE  IInv' /\ Step
<1>1. /\ UNCHANGED <<call, c, panels, heap, inside, pending, todo, at, failed, rc, result>>
      /\ \/ /\ stage = "packed" /\ stage' = "prepareB" /\ fused' \in BOOLEAN /\ UNCHANGED run_rc
         \/ /\ stage = "prepareB" /\ stage' = "prepareA" /\ UNCHANGED <<fused, run_rc>>
            /\ (~call.product \/ call.workspace = 0)
         \/ /\ stage = "prepareB" /\ stage' = "release" /\ run_rc' = -1 /\ UNCHANGED fused
  BY DEF EnterExecutor, PrivateB, NoRoomForB
<1>2. /\ TypeOK /\ CurrentParts /\ call.output /\ Accepted /\ result = "running" /\ run_rc = 0 /\ ~failed
      /\ pending = {} /\ heap = {} /\ inside = NoSpace
      /\ \A x \in Tiles : Len(c[x]) = 0
  BY <1>1 DEF IInv, StageInv, PartInv, PendingInv, SpaceInv, Inside, Batches, Packing, Accepted, validate_args
<1>3. TypeOK'
  BY <1>1, <1>2 DEF TypeOK
<1>4. StageInv'
  BY <1>1, <1>2 DEF StageInv, Inside, Batches, Packing, Accepted, validate_args
<1>5. TaskInv'
  BY <1>1 DEF TaskInv, Batches, Packing
<1>6. SpaceInv'
  BY <1>1, <1>2 DEF SpaceInv, NoSpace
<1>7. PendingInv'
  BY <1>1, <1>2 DEF PendingInv, Inside, Batches, Packing
<1>8. PanelInv' /\ PackedInv'
  <2>1. ~Shares("A")' /\ ~Shares("B")'
    BY <1>1, <1>2 DEF Shares, NoSpace
  <2> QED BY <1>1, <2>1 DEF PanelInv, PackedInv, Packing
<1>9. PartInv'
  BY <1>1, <1>2, SameTiles DEF PartInv, Packing
<1>10. IInv'
  BY <1>3, <1>4, <1>5, <1>6, <1>7, <1>8, <1>9 DEF IInv
<1> QED BY <1>1, <1>10, Stutters

\* B gets its shared panels: packed at once, or left for the fused batch.
LEMMA ShareBStep ==
  ASSUME IInv, ShareB, UNCHANGED result
  PROVE  IInv' /\ Step
<1>1. /\ stage = "prepareB" /\ call.product
      /\ UNCHANGED <<call, c, panels, fused, failed, run_rc, rc, result>>
      /\ \/ call.workspace = 0 /\ heap' = heap \cup {"B"} /\ UNCHANGED inside
         \/ /\ call.workspace >= BBytes /\ inside' = [inside EXCEPT !["B"] = 0 .. BBytes - 1]
            /\ UNCHANGED heap
  BY DEF ShareB
<1>2. /\ TypeOK /\ CurrentParts /\ call.output /\ Accepted /\ result = "running" /\ run_rc = 0 /\ ~failed
      /\ pending = {} /\ heap = {} /\ inside = NoSpace
      /\ \A x \in Tiles : Len(c[x]) = 0
  BY <1>1 DEF IInv, StageInv, PartInv, PendingInv, SpaceInv, Inside, Batches, Packing, Accepted, validate_args
<1>3. /\ inside' = [b \in {"A", "B", "shapes"} |-> inside'[b]]
      /\ inside'["A"] = {} /\ inside'["shapes"] = {}
      /\ inside'["B"] \in {{}, 0 .. BBytes - 1} /\ inside'["B"] \subseteq 0 .. call.workspace - 1
      /\ heap' \subseteq {"B"} /\ (heap' # {} => call.workspace = 0)
  <2>1. call.workspace \in Nat /\ BBytes \in Nat
    BY <1>2, GridAssumption, Sizes DEF TypeOK, Calls
  <2>2. inside = [b \in {"A", "B", "shapes"} |-> {}]
    BY <1>2 DEF NoSpace
  <2>3. CASE call.workspace = 0 /\ heap' = heap \cup {"B"} /\ UNCHANGED inside
    <3>1. inside'["A"] = {} /\ inside'["shapes"] = {} /\ inside'["B"] = {}
      BY ONLY <2>2, <2>3
    <3>2. inside' = [b \in {"A", "B", "shapes"} |-> inside'[b]]
      BY ONLY <2>2, <2>3
    <3> QED BY ONLY <1>2, <2>1, <2>3, <3>1, <3>2
  <2>4. CASE /\ call.workspace >= BBytes /\ inside' = [inside EXCEPT !["B"] = 0 .. BBytes - 1]
             /\ UNCHANGED heap
    <3> DEFINE r == 0 .. BBytes - 1
    <3>1. r \subseteq 0 .. call.workspace - 1
      BY ONLY <2>1, <2>4
    <3>2. inside' = [inside EXCEPT !["B"] = r]
      BY <2>4
    <3> HIDE DEF r
    <3>3. inside'["A"] = {} /\ inside'["shapes"] = {} /\ inside'["B"] = r
      BY ONLY <2>2, <3>2
    <3>4. inside' = [b \in {"A", "B", "shapes"} |-> inside'[b]]
      BY ONLY <2>2, <3>2
    <3>5. heap' = {}
      BY ONLY <1>2, <2>4
    <3> QED BY ONLY <3>1, <3>3, <3>4, <3>5 DEF r
  <2> QED BY <1>1, <2>3, <2>4
<1>4. \/ /\ stage' = "prepareA" /\ fused /\ pending' = {"B"} /\ UNCHANGED <<todo, at>>
      \/ /\ ~fused /\ Submit("packB") /\ pending' = {}
  BY <1>1, <1>2 DEF ShareB
<1>5. stage' \in {"prepareA", "packB"}
  BY <1>4 DEF Submit
<1>6. TypeOK'
  BY <1>1, <1>2, <1>3, <1>4, <1>5 DEF TypeOK
<1>7. StageInv'
  BY <1>1, <1>2, <1>5 DEF StageInv, Inside, Batches, Packing, Accepted, validate_args
<1>8. SpaceInv'
  BY <1>1, <1>3, <1>5 DEF SpaceInv, Freed
<1>9. PendingInv'
  BY <1>1, <1>2, <1>4, <1>5 DEF PendingInv, Inside, Batches, Packing
<1>10. PanelInv'
  BY <1>1, <1>4, <1>5 DEF PanelInv, Submit
<1>11. TaskInv' /\ PackedInv' /\ PartInv'
  <2>1. CASE Submit("packB")
    BY <1>1, <1>2, <2>1, SubmitPacking DEF Packing
  <2>2. CASE stage' = "prepareA"
    BY <1>1, <1>2, <2>2, SameTiles DEF TaskInv, PackedInv, PartInv, Batches, Packing
  <2> QED BY <1>4, <2>1, <2>2
<1>12. IInv'
  BY <1>6, <1>7, <1>8, <1>9, <1>10, <1>11 DEF IInv
<1> QED BY <1>1, <1>12, Stutters

\* The batch that follows, when the preparation leaves B or nothing to pack.
LEMMA Follows ==
  ASSUME AfterPreparation(pending'), pending' \subseteq {"A", "B"}
  PROVE  /\ pending' = {} => Submit("tiles")
         /\ pending' = {"A"} => Submit("packA")
         /\ pending' = {"B"} => Submit("packB")
         /\ pending' = {"A", "B"} => Submit("packAB")
         /\ \E kind \in Packing \cup {"tiles"} : Submit(kind)
<1> DEFINE left == pending'
           kind == IF left = {"A", "B"} THEN "packAB"
                   ELSE IF "A" \in left THEN "packA" ELSE IF "B" \in left THEN "packB" ELSE "tiles"
<1>1. Submit(kind)
  BY DEF AfterPreparation
<1>2. /\ left = {} => kind = "tiles"
      /\ left = {"A"} => kind = "packA"
      /\ left = {"B"} => kind = "packB"
      /\ left = {"A", "B"} => kind = "packAB"
      /\ kind \in Packing \cup {"tiles"}
  BY DEF Packing
<1> HIDE DEF left, kind
<1> QED BY ONLY <1>1, <1>2 DEF left

\* A stays private: the batch that follows is the one that is pending, if any.
LEMMA PrivateAStep ==
  ASSUME IInv, PrivateA, UNCHANGED result
  PROVE  IInv' /\ Step
<1>1. /\ stage = "prepareA" /\ AfterPreparation(pending)
      /\ UNCHANGED <<call, c, panels, heap, inside, fused, pending, failed, run_rc, rc, result>>
  BY DEF PrivateA
<1>2. /\ TypeOK /\ CurrentParts /\ call.output /\ Accepted /\ result = "running" /\ run_rc = 0 /\ ~failed
      /\ \A x \in Tiles : Len(c[x]) = 0
  BY <1>1, InEntry DEF Inside
<1>3. /\ pending \subseteq {"B"} /\ (~fused => pending = {}) /\ (pending # {} => call.product)
      /\ "A" \notin heap /\ "shapes" \notin heap /\ inside["A"] = {} /\ inside["shapes"] = {}
      /\ (Shares("B") /\ "B" \notin pending => PanelsOfB \subseteq panels)
  BY <1>1 DEF IInv, PendingInv, SpaceInv, PanelInv, Inside
<1>4. \/ pending = {} /\ Submit("tiles")
      \/ pending = {"B"} /\ Submit("packB")
  <2>1. AfterPreparation(pending') /\ pending' \subseteq {"A", "B"}
    BY <1>1, <1>3
  <2>2. pending = {} \/ pending = {"B"}
    BY <1>3
  <2> QED BY <1>1, <2>1, <2>2, Follows
<1>5. stage' \in {"tiles", "packB"} /\ (stage' = "tiles" => pending = {}) /\ (stage' = "packB" => pending = {"B"})
  BY <1>4 DEF Submit
<1>6. TypeOK'
  BY <1>1, <1>2, <1>5 DEF TypeOK
<1>7. StageInv'
  BY <1>1, <1>2, <1>5 DEF StageInv, Inside, Batches, Packing, Accepted, validate_args
<1>8. SpaceInv'
  BY <1>1, <1>3, <1>5 DEF SpaceInv, Freed, IInv
<1>9. PendingInv'
  BY <1>1, <1>3, <1>5 DEF PendingInv, Inside, Batches, Packing
<1>10. PanelInv'
  BY <1>1, <1>3, <1>5 DEF PanelInv, Shares
<1>11. TaskInv' /\ PackedInv' /\ PartInv'
  BY <1>1, <1>2, <1>4, SubmitPacking, SubmitTiles DEF Packing
<1>12. IInv'
  BY <1>6, <1>7, <1>8, <1>9, <1>10, <1>11 DEF IInv
<1> QED BY <1>1, <1>12, Stutters

\* Where the panels of A and their descriptors are put.
LEMMA RoomForA ==
  ASSUME IInv, ShareA
  PROVE  /\ inside' \in [{"A", "B", "shapes"} -> SUBSET (0 .. call.workspace - 1)]
         /\ inside'["B"] = inside["B"]
         /\ inside'["A"] \in {{}, BBytes .. BBytes + ABytes - 1}
         /\ inside'["shapes"] \in {{}, ShapesAt .. ShapesAt + Slots - 1}
         /\ heap \subseteq heap' /\ heap' \subseteq heap \cup {"A", "shapes"}
         /\ ("A" \in heap' => inside'["A"] = {}) /\ ("shapes" \in heap' => inside'["shapes"] = {})
<1>1. TypeOK /\ stage = "prepareA"
  BY DEF IInv, ShareA
<1>2. "A" \notin heap /\ "shapes" \notin heap
  BY <1>1 DEF IInv, SpaceInv
<1> DEFINE room == inside["B"] # {} /\ BBytes + ABytes <= call.workspace
           a == BBytes .. BBytes + ABytes - 1
           s == ShapesAt .. ShapesAt + Slots - 1
<1>3. PICK own \in (IF room THEN {{"shapes"}, {}} ELSE {{"A", "shapes"}}), got \in SUBSET {"A", "shapes"} :
        /\ got \subseteq own
        /\ own = {} => ShapesAt + Slots <= call.workspace
        /\ heap' = heap \cup got
        /\ inside' = [inside EXCEPT !["A"] = IF "A" \in own THEN {} ELSE a,
                                    !["shapes"] = IF own = {} THEN s ELSE {}]
  <2> QED BY DEF ShareA
<1>4. call.workspace \in Nat /\ BBytes \in Nat /\ ABytes \in Nat /\ ShapesAt \in Nat /\ Slots \in Nat
  BY <1>1, GridAssumption, Sizes DEF TypeOK, Calls
<1>5. own \in {{"shapes"}, {}, {"A", "shapes"}} /\ ("A" \notin own => room)
  BY <1>3
<1>6. (room => a \subseteq 0 .. call.workspace - 1) /\ (own = {} => s \subseteq 0 .. call.workspace - 1)
  <2>1. room => BBytes + ABytes <= call.workspace
    OBVIOUS
  <2> HIDE DEF room
  <2> QED BY ONLY <1>3, <1>4, <2>1
<1> DEFINE ia == IF "A" \in own THEN {} ELSE a
           is == IF own = {} THEN s ELSE {}
<1>7. inside \in [{"A", "B", "shapes"} -> SUBSET (0 .. call.workspace - 1)]
  BY <1>1 DEF TypeOK
<1>8. /\ ia \in SUBSET (0 .. call.workspace - 1) /\ is \in SUBSET (0 .. call.workspace - 1)
      /\ ia \in {{}, a} /\ is \in {{}, s}
      /\ ("A" \in own => ia = {}) /\ ("shapes" \in own => is = {})
  <2> HIDE DEF a, s, room
  <2> QED BY ONLY <1>5, <1>6
<1>9. inside' = [inside EXCEPT !["A"] = ia, !["shapes"] = is]
  BY <1>3
<1> HIDE DEF ia, is, a, s, room
<1>10. /\ inside' \in [{"A", "B", "shapes"} -> SUBSET (0 .. call.workspace - 1)]
       /\ inside'["B"] = inside["B"] /\ inside'["A"] = ia /\ inside'["shapes"] = is
  BY ONLY <1>7, <1>8, <1>9
<1>11. /\ heap \subseteq heap' /\ heap' \subseteq heap \cup {"A", "shapes"}
       /\ ("A" \in heap' => "A" \in own) /\ ("shapes" \in heap' => "shapes" \in own)
  BY ONLY <1>2, <1>3
<1> QED BY <1>8, <1>10, <1>11 DEF a, s

\* A gets its shared panels and the batch that packs them is submitted.
LEMMA ShareAStep ==
  ASSUME IInv, ShareA, UNCHANGED result
  PROVE  IInv' /\ Step
<1>1. /\ stage = "prepareA" /\ call.product
      /\ UNCHANGED <<call, c, panels, fused, failed, rc, result>>
      /\ \/ /\ run_rc' = -1 /\ stage' = "release" /\ UNCHANGED <<pending, todo, at>>
         \/ /\ fused /\ pending' = pending \cup {"A"} /\ AfterPreparation(pending') /\ UNCHANGED run_rc
         \/ /\ ~fused /\ Submit("packA") /\ UNCHANGED <<pending, run_rc>>
  <2> HIDE DEF IInv
  <2> QED BY DEF ShareA
<1>2. /\ TypeOK /\ CurrentParts /\ call.output /\ Accepted /\ result = "running" /\ run_rc = 0 /\ ~failed
      /\ \A x \in Tiles : Len(c[x]) = 0
  BY <1>1, InEntry DEF Inside
<1>3. /\ pending \subseteq {"B"} /\ (~fused => pending = {})
      /\ (Shares("B") /\ "B" \notin pending => PanelsOfB \subseteq panels)
      /\ heap \subseteq Freed /\ inside["B"] \in {{}, 0 .. BBytes - 1}
      /\ "A" \notin heap /\ "shapes" \notin heap /\ heap \subseteq {"A", "B", "shapes"}
  BY <1>1, <1>2 DEF IInv, PendingInv, SpaceInv, PanelInv, TypeOK
<1>4. /\ inside' \in [{"A", "B", "shapes"} -> SUBSET (0 .. call.workspace - 1)]
      /\ inside'["B"] = inside["B"]
      /\ inside'["A"] \in {{}, BBytes .. BBytes + ABytes - 1}
      /\ inside'["shapes"] \in {{}, ShapesAt .. ShapesAt + Slots - 1}
      /\ heap \subseteq heap' /\ heap' \subseteq heap \cup {"A", "shapes"}
      /\ ("A" \in heap' => inside'["A"] = {}) /\ ("shapes" \in heap' => inside'["shapes"] = {})
  BY RoomForA
<1>5. \/ stage' = "release" /\ run_rc' = -1 /\ UNCHANGED <<pending, todo, at>>
      \/ /\ pending' = {"A", "B"} /\ fused /\ Submit("packAB") /\ UNCHANGED run_rc
      \/ /\ pending' = {"A"} /\ fused /\ Submit("packA") /\ UNCHANGED run_rc
      \/ /\ pending' = {} /\ ~fused /\ Submit("packA") /\ UNCHANGED run_rc
  <2>1. CASE fused /\ pending' = pending \cup {"A"} /\ AfterPreparation(pending') /\ UNCHANGED run_rc
    <3>1. pending' = {"A"} \/ pending' = {"A", "B"}
      BY <1>3, <2>1
    <3>2. pending' \subseteq {"A", "B"}
      BY <3>1
    <3> QED BY <2>1, <3>1, <3>2, Follows
  <2>2. CASE ~fused /\ Submit("packA") /\ UNCHANGED <<pending, run_rc>>
    BY <1>3, <2>2
  <2> QED BY <1>1, <2>1, <2>2
<1>6. /\ stage' \in {"release", "packA", "packAB"}
      /\ (stage' = "packAB" => fused /\ pending' = {"A", "B"})
      /\ (stage' = "packA" => "B" \notin pending' /\ (~fused => pending' = {}))
      /\ (stage' = "release" => pending' = pending)
      /\ (stage' \in {"packA", "packAB"} => run_rc' = 0) /\ run_rc' \in {0, -1}
      /\ pending' \subseteq {"A", "B"}
  BY <1>2, <1>3, <1>5 DEF Submit
<1>7. TypeOK'
  BY <1>1, <1>2, <1>3, <1>4, <1>6 DEF TypeOK
<1>8. StageInv'
  BY <1>1, <1>2, <1>6 DEF StageInv, Inside, Batches, Packing, Accepted, validate_args
<1>9. SpaceInv'
  <2>1. heap' \subseteq Freed'
    BY <1>1, <1>3, <1>4 DEF Freed
  <2> QED BY <1>3, <1>4, <1>6, <2>1 DEF SpaceInv
<1>10. PendingInv'
  BY <1>1, <1>3, <1>6 DEF PendingInv, Inside, Batches, Packing
<1>11. PanelInv'
  <2>1. stage' = "packA" /\ Shares("B")' /\ "B" \notin pending' => PanelsOfB \subseteq panels
    <3>1. Shares("B")' => Shares("B")
      BY <1>4 DEF Shares
    <3>2. "B" \notin pending' => "B" \notin pending
      BY <1>1
    <3> QED BY <1>3, <3>1, <3>2
  <2> QED BY <1>1, <1>6, <2>1 DEF PanelInv
<1>12. TaskInv' /\ PackedInv' /\ PartInv'
  <2>1. CASE stage' = "release" /\ run_rc' = -1
    BY <1>1, <1>2, <2>1, SameTiles DEF TaskInv, PackedInv, PartInv, Batches, Packing
  <2>2. CASE Submit("packA") \/ Submit("packAB")
    BY <1>1, <1>2, <2>2, SubmitPacking DEF Packing
  <2> QED BY <1>5, <2>1, <2>2
<1>13. IInv'
  BY <1>7, <1>8, <1>9, <1>10, <1>11, <1>12 DEF IInv
<1> QED BY <1>1, <1>13, Stutters

---------------------------------------------------------------------------
(* The batches *)

\* No task of a batch is empty; those of the tiles pack nothing.
LEMMA TaskLists ==
  ASSUME stage \in Batches, NEW t \in DOMAIN Items(stage, call.product)
  PROVE  /\ Len(MyItems(t)) \in Nat \ {0}
         /\ stage \in Packing => \A i \in 1 .. Len(MyItems(t)) : IsPack(MyItems(t)[i])
         /\ stage = "tiles" =>
              /\ t \in DOMAIN TileTasks /\ Computes(MyItems(t), Rectangle(t))
              /\ \A i \in 1 .. Len(MyItems(t)) : MyItems(t)[i][1] # "A"
<1>1. CASE stage \in Packing
  <2>1. PICK S : Packs(Items(stage, call.product), S)
    BY <1>1, PackingLists DEF Packing
  <2> DEFINE list == Items(stage, call.product)
  <2>2. /\ DOMAIN list = 1 .. Len(list)
        /\ \A u \in 1 .. Len(list) :
             Len(list[u]) \in Nat \ {0} /\ \A i \in 1 .. Len(list[u]) : IsPack(list[u][i])
    BY <2>1 DEF Packs
  <2>3. stage # "tiles"
    BY <1>1 DEF Packing
  <2> QED BY <2>2, <2>3 DEF MyItems
<1>2. CASE stage = "tiles"
  <2>1. t \in DOMAIN TileTasks /\ Computes(MyItems(t), Rectangle(t))
    BY <1>2, TileGrid DEF MyItems
  <2> DEFINE list == MyItems(t)
             X == Rectangle(t)
  <2>2. /\ Len(list) \in Nat \ {0} /\ list[1] = <<"prepare", X>>
        /\ \A i \in 2 .. Len(list) : \E x \in X : \E p \in 1 .. Depth : list[i] = <<"tile", x, p>>
    <3>1. Len(list) \in Nat \ {0} /\ list[1] = <<"prepare", X>>
      BY <2>1 DEF Computes, Prepares
    <3>2. CASE call.product
      BY <2>1, <3>1, <3>2 DEF Computes, Products
    <3>3. CASE ~call.product
      <4>1. Len(list) = 1
        BY <2>1, <3>3 DEF Computes
      <4> HIDE DEF list, X
      <4> QED BY ONLY <3>1, <4>1
    <3> QED BY <3>2, <3>3
  <2> HIDE DEF list, X
  <2>3. \A i \in 1 .. Len(list) : list[i][1] # "A"
    <3>1. \A i \in 1 .. Len(list) : i = 1 \/ i \in 2 .. Len(list)
      BY ONLY <2>2
    <3>2. list[1][1] = "prepare"
      BY ONLY <2>2
    <3>3. \A i \in 2 .. Len(list) : list[i][1] = "tile"
      BY ONLY <2>2
    <3> QED BY ONLY <3>1, <3>2, <3>3
  <2>4. stage \notin Packing
    BY <1>2 DEF Packing
  <2> QED BY <1>2, <2>1, <2>2, <2>3, <2>4 DEF list
<1> QED BY <1>1, <1>2 DEF Batches

\* What a batch knows.
LEMMA InBatchFacts ==
  ASSUME IInv, InBatch
  PROVE  /\ TypeOK /\ CurrentParts /\ call.output /\ Accepted /\ result = "running"
         /\ stage \in Batches /\ stage \in Inside
         /\ (stage \in Packing => run_rc = 0 /\ \A x \in Tiles : Len(c[x]) = 0)
         /\ todo \subseteq DOMAIN Items(stage, call.product)
         /\ DOMAIN at \subseteq DOMAIN Items(stage, call.product) /\ todo \cap DOMAIN at = {}
         /\ \A t \in DOMAIN at : at[t] \in 0 .. Len(MyItems(t)) - 1
<1>1. stage \in Batches /\ stage \in Inside
  BY DEF InBatch, Batches, Packing, Inside
<1>2. /\ todo \subseteq DOMAIN Items(stage, call.product)
      /\ DOMAIN at \subseteq DOMAIN Items(stage, call.product) /\ todo \cap DOMAIN at = {}
      /\ \A t \in DOMAIN at : at[t] \in 0 .. Len(MyItems(t)) - 1
  BY <1>1 DEF IInv, TaskInv
<1>3. /\ TypeOK /\ CurrentParts /\ call.output /\ Accepted /\ result = "running"
      /\ (stage \in Packing => run_rc = 0 /\ \A x \in Tiles : Len(c[x]) = 0)
  BY <1>1, InEntry
<1> QED BY <1>1, <1>2, <1>3

\* The parts of the invariant a task's step leaves alone.
LEMMA TaskFrame ==
  ASSUME IInv, InBatch, UNCHANGED <<call, stage, heap, inside, fused, pending, run_rc, rc, result>>,
         panels \subseteq panels', failed' \in BOOLEAN, c' \in [Tiles -> Seq(0 .. Depth)]
  PROVE  TypeOK' /\ StageInv' /\ SpaceInv' /\ PendingInv' /\ PanelInv'
<1>1. TypeOK /\ stage \in Batches
  BY InBatchFacts
<1>2. TypeOK'
  BY <1>1 DEF TypeOK
<1>3. StageInv'
  BY <1>1 DEF IInv, StageInv, Inside, Batches, Packing
<1>4. SpaceInv'
  BY DEF IInv, SpaceInv, Freed
<1>5. PendingInv'
  BY DEF IInv, PendingInv
<1>6. PanelInv'
  BY DEF IInv, PanelInv, Shares
<1> QED BY <1>2, <1>3, <1>4, <1>5, <1>6

\* What a batch of tiles knows of its tasks.
LEMMA TilesKnown ==
  ASSUME IInv, stage = "tiles", NEW t \in DOMAIN TileTasks
  PROVE  /\ t \in todo => Did(MyItems(t), Rectangle(t), 0)
         /\ t \in DOMAIN at => Did(MyItems(t), Rectangle(t), at[t])
         /\ ~Undone(t) /\ ~failed => Did(MyItems(t), Rectangle(t), Len(MyItems(t)))
BY DEF IInv, PartInv

\* Enough for what it must know after a step.
LEMMA TilesKept ==
  ASSUME CurrentParts', InBatch, UNCHANGED <<call, stage>>,
         stage \in Packing => \A x \in Tiles : Len(c'[x]) = 0,
         stage = "tiles" =>
           \A t \in DOMAIN TileTasks :
             /\ t \in todo' => Did(MyItems(t), Rectangle(t), 0)'
             /\ t \in DOMAIN at' => Did(MyItems(t), Rectangle(t), at[t])'
             /\ ~Undone(t)' /\ ~failed' => Did(MyItems(t), Rectangle(t), Len(MyItems(t)))'
  PROVE  PartInv'
<1>1. stage' = stage /\ stage \in Batches
  BY DEF InBatch, Batches, Packing
<1>2. Full' = Full
  BY DEF Full, Betas
<1>3. CASE stage \in Packing
  BY <1>1, <1>3 DEF PartInv, Packing
<1>4. CASE stage = "tiles"
  BY <1>1, <1>2, <1>4 DEF PartInv, Packing
<1> QED BY <1>1, <1>3, <1>4 DEF Batches

\* A worker takes a task of the batch.
LEMMA StartStep ==
  ASSUME IInv, NEW t, Start(t), UNCHANGED result
  PROVE  IInv' /\ Step
<1>1. /\ InBatch /\ t \in todo /\ todo' = todo \ {t}
      /\ at' = [u \in DOMAIN at \cup {t} |-> IF u = t THEN 0 ELSE at[u]]
      /\ UNCHANGED <<call, stage, c, panels, heap, inside, fused, pending, failed, run_rc, rc, result>>
  BY DEF Start
<1>2. /\ TypeOK /\ CurrentParts /\ stage \in Batches
      /\ (stage \in Packing => \A x \in Tiles : Len(c[x]) = 0)
      /\ todo \subseteq DOMAIN Items(stage, call.product)
      /\ DOMAIN at \subseteq DOMAIN Items(stage, call.product) /\ todo \cap DOMAIN at = {}
      /\ \A u \in DOMAIN at : at[u] \in 0 .. Len(MyItems(u)) - 1
  BY <1>1, InBatchFacts
<1>3. TypeOK' /\ StageInv' /\ SpaceInv' /\ PendingInv' /\ PanelInv'
  BY <1>1, <1>2, TaskFrame DEF TypeOK
<1>4. /\ DOMAIN at' = DOMAIN at \cup {t} /\ at'[t] = 0 /\ t \notin DOMAIN at
      /\ \A u \in DOMAIN at : at'[u] = at[u]
  BY <1>1, <1>2
<1>5. \A u : MyItems(u)' = MyItems(u)
  BY <1>1 DEF MyItems
<1>6. Len(MyItems(t)) \in Nat \ {0}
  BY <1>1, <1>2, TaskLists
<1>7. TaskInv'
  <2>1. \A u \in DOMAIN at' : at'[u] \in 0 .. Len(MyItems(u)) - 1
    BY <1>2, <1>4, <1>6
  <2>2. todo' \subseteq DOMAIN Items(stage, call.product) /\ todo' \cap DOMAIN at' = {}
        /\ DOMAIN at' \subseteq DOMAIN Items(stage, call.product)
    BY <1>1, <1>2, <1>4
  <2> QED BY <1>1, <1>2, <1>5, <2>1, <2>2 DEF TaskInv, Batches, Packing
<1>8. PackedInv'
  <2>1. \A u : u \in todo => u \in todo' \/ (u \in DOMAIN at' /\ at'[u] = 0)
    BY <1>1, <1>4
  <2>2. \A u \in DOMAIN at : u \in DOMAIN at' /\ at'[u] = at[u]
    BY <1>4
  <2> QED BY <1>1, <1>5, <2>1, <2>2 DEF IInv, PackedInv
<1>9. PartInv'
  <2>1. ASSUME stage = "tiles", NEW u \in DOMAIN TileTasks
        PROVE  /\ u \in todo' => Did(MyItems(u), Rectangle(u), 0)'
               /\ u \in DOMAIN at' => Did(MyItems(u), Rectangle(u), at[u])'
               /\ ~Undone(u)' /\ ~failed' => Did(MyItems(u), Rectangle(u), Len(MyItems(u)))'
    <3>1. /\ u \in todo => Did(MyItems(u), Rectangle(u), 0)'
          /\ u \in DOMAIN at => Did(MyItems(u), Rectangle(u), at[u])
          /\ ~Undone(u) /\ ~failed => Did(MyItems(u), Rectangle(u), Len(MyItems(u)))'
      BY <1>1, <1>5, <2>1, TilesKnown, SameTiles
    <3>2. u \in DOMAIN at => Did(MyItems(u), Rectangle(u), at[u])'
      BY <1>1, <1>4, <1>5, <3>1, SameTiles
    <3>3. Undone(u)' <=> Undone(u)
      BY <1>1, <1>4 DEF Undone
    <3>4. Did(MyItems(t), Rectangle(t), 0)' => Did(MyItems(t), Rectangle(t), at[t])'
      BY <1>4
    <3> QED BY <1>1, <1>4, <3>1, <3>2, <3>3, <3>4
  <2> QED BY <1>1, <1>2, <2>1, SameTiles, TilesKept
<1>10. IInv'
  BY <1>3, <1>7, <1>8, <1>9 DEF IInv
<1> QED BY <1>1, <1>10, Stutters

\* Where a task's list has been advanced, or the task has returned.
LEMMA AdvancedOrGone ==
  ASSUME IInv, InBatch, NEW t \in DOMAIN at, UNCHANGED <<call, stage>>,
         at' = Advanced(t) \/ at' = Without(t), UNCHANGED todo
  PROVE  /\ TaskInv'
         /\ DOMAIN at' \subseteq DOMAIN at
         /\ \A u \in DOMAIN at : u # t => u \in DOMAIN at' /\ at'[u] = at[u]
         /\ t \in DOMAIN at' => at'[t] = at[t] + 1
         /\ at' = Advanced(t) /\ t \notin DOMAIN at' => at[t] + 1 = Len(MyItems(t))
         /\ at' = Advanced(t) /\ t \in DOMAIN at' => at[t] + 1 \in 0 .. Len(MyItems(t)) - 1
<1>1. /\ stage \in Batches
      /\ todo \subseteq DOMAIN Items(stage, call.product)
      /\ DOMAIN at \subseteq DOMAIN Items(stage, call.product) /\ todo \cap DOMAIN at = {}
      /\ \A u \in DOMAIN at : at[u] \in 0 .. Len(MyItems(u)) - 1
  BY InBatchFacts
<1>2. Len(MyItems(t)) \in Nat \ {0}
  BY <1>1, TaskLists
<1>3. \/ at' = [u \in DOMAIN at \ {t} |-> at[u]]
      \/ at' = [at EXCEPT ![t] = @ + 1] /\ at[t] + 1 # Len(MyItems(t))
  BY DEF Advanced, Without
<1>4. at' = Advanced(t) /\ at[t] + 1 # Len(MyItems(t)) => t \in DOMAIN at'
  BY DEF Advanced
<1>5. at' = Advanced(t) /\ at[t] + 1 = Len(MyItems(t)) => t \notin DOMAIN at'
  BY DEF Advanced, Without
<1>6. /\ DOMAIN at' \subseteq DOMAIN at
      /\ \A u \in DOMAIN at : u # t => u \in DOMAIN at' /\ at'[u] = at[u]
      /\ t \in DOMAIN at' => at'[t] = at[t] + 1 /\ at[t] + 1 \in 0 .. Len(MyItems(t)) - 1
  <2>1. CASE at' = [u \in DOMAIN at \ {t} |-> at[u]]
    BY <2>1
  <2>2. CASE at' = [at EXCEPT ![t] = @ + 1] /\ at[t] + 1 # Len(MyItems(t))
    <3>1. at[t] + 1 \in 0 .. Len(MyItems(t)) - 1
      BY <1>1, <1>2, <2>2
    <3> QED BY <2>2, <3>1
  <2> QED BY <1>3, <2>1, <2>2
<1>7. \A u : MyItems(u)' = MyItems(u)
  BY DEF MyItems
<1>8. TaskInv'
  <2>1. \A u \in DOMAIN at' : at'[u] \in 0 .. Len(MyItems(u)) - 1
    BY <1>1, <1>6
  <2> QED BY <1>1, <1>6, <1>7, <2>1 DEF TaskInv, Batches, Packing
<1> QED BY <1>4, <1>5, <1>6, <1>8

\* A task gives up: the batch is marked as failed.
LEMMA AbandonStep ==
  ASSUME IInv, NEW t, Abandon(t) \/ Fail(t), UNCHANGED result
  PROVE  IInv' /\ Step
<1>1. /\ InBatch /\ t \in DOMAIN at /\ failed'
      /\ UNCHANGED <<call, stage, c, panels, heap, inside, fused, pending, todo, run_rc, rc, result>>
      /\ at' = Without(t) \/ (at' = Advanced(t) /\ MyItems(t)[at[t] + 1][1] = "A")
      /\ failed' \in BOOLEAN
  <2>1. InBatch /\ t \in DOMAIN at
    BY DEF Abandon, Fail
  <2>2. failed \in BOOLEAN
    BY <2>1, InBatchFacts DEF TypeOK
  <2>3. CASE Abandon(t)
    BY <2>2, <2>3 DEF Abandon
  <2>4. CASE Fail(t)
    BY <2>4 DEF Fail
  <2> QED BY <2>3, <2>4
<1>2. /\ TypeOK /\ CurrentParts /\ stage \in Batches
      /\ (stage \in Packing => \A x \in Tiles : Len(c[x]) = 0)
      /\ todo \subseteq DOMAIN Items(stage, call.product)
      /\ DOMAIN at \subseteq DOMAIN Items(stage, call.product) /\ todo \cap DOMAIN at = {}
      /\ \A u \in DOMAIN at : at[u] \in 0 .. Len(MyItems(u)) - 1
  BY <1>1, InBatchFacts
<1>3. TypeOK' /\ StageInv' /\ SpaceInv' /\ PendingInv' /\ PanelInv'
  BY <1>1, <1>2, TaskFrame DEF TypeOK
<1>4. /\ TaskInv' /\ DOMAIN at' \subseteq DOMAIN at
      /\ \A u \in DOMAIN at : u # t => u \in DOMAIN at' /\ at'[u] = at[u]
  BY <1>1, AdvancedOrGone
<1>5. PackedInv'
  BY <1>1 DEF PackedInv
<1>6. stage = "tiles" => t \notin DOMAIN at'
  <2> SUFFICES ASSUME stage = "tiles" PROVE t \notin DOMAIN at'
    OBVIOUS
  <2>1. at[t] + 1 \in 1 .. Len(MyItems(t))
    BY <1>1, <1>2, TaskLists
  <2>2. MyItems(t)[at[t] + 1][1] # "A"
    BY <1>1, <1>2, <2>1, TaskLists
  <2> QED BY <1>1, <2>2 DEF Without
<1>7. \A u : MyItems(u)' = MyItems(u)
  BY <1>1 DEF MyItems
<1>8. PartInv'
  <2>1. ASSUME stage = "tiles", NEW u \in DOMAIN TileTasks
        PROVE  /\ u \in todo' => Did(MyItems(u), Rectangle(u), 0)'
               /\ u \in DOMAIN at' => Did(MyItems(u), Rectangle(u), at[u])'
               /\ ~Undone(u)' /\ ~failed' => Did(MyItems(u), Rectangle(u), Len(MyItems(u)))'
    <3>1. /\ u \in todo => Did(MyItems(u), Rectangle(u), 0)'
          /\ u \in DOMAIN at => Did(MyItems(u), Rectangle(u), at[u])
      BY <1>1, <1>7, <2>1, TilesKnown, SameTiles
    <3>2. u \in DOMAIN at' => at'[u] = at[u] /\ u \in DOMAIN at
      BY <1>4, <1>6, <2>1
    <3>3. u \in DOMAIN at' => Did(MyItems(u), Rectangle(u), at[u])'
      BY <1>1, <1>7, <3>1, <3>2, SameTiles
    <3> QED BY <1>1, <3>1, <3>3
  <2> QED BY <1>1, <1>2, <2>1, SameTiles, TilesKept
<1>9. IInv'
  BY <1>3, <1>4, <1>5, <1>8 DEF IInv
<1> QED BY <1>1, <1>9, Stutters

\* Tiles that a step leaves alone.
LEMMA SameDid ==
  ASSUME UNCHANGED call, NEW X, \A x \in X : c'[x] = c[x]
  PROVE  \A list, k : Did(list, X, k)' <=> Did(list, X, k)
<1>1. \A x \in X : Blocks(x)' = Blocks(x)
  BY DEF Blocks, Betas
<1>2. Betas' = Betas /\ packed_can_initialize' = packed_can_initialize
  BY DEF Betas, packed_can_initialize
<1> QED BY <1>1, <1>2 DEF Did

\* A packing task packs.
LEMMA PackStep ==
  ASSUME IInv, NEW t, Work(t), UNCHANGED result, stage \in Packing
  PROVE  IInv' /\ Step
<1>1. /\ InBatch /\ t \in DOMAIN at /\ at' = Advanced(t) /\ Perform(MyItems(t)[at[t] + 1])
      /\ UNCHANGED <<call, stage, heap, inside, fused, pending, todo, failed, run_rc, rc, result>>
  BY DEF Work
<1>2. /\ TypeOK /\ CurrentParts /\ stage \in Batches
      /\ \A x \in Tiles : Len(c[x]) = 0
      /\ DOMAIN at \subseteq DOMAIN Items(stage, call.product)
      /\ \A u \in DOMAIN at : at[u] \in 0 .. Len(MyItems(u)) - 1
  BY <1>1, InBatchFacts
<1>3. at[t] + 1 \in 1 .. Len(MyItems(t)) /\ IsPack(MyItems(t)[at[t] + 1])
  <2>1. Len(MyItems(t)) \in Nat \ {0} /\ \A i \in 1 .. Len(MyItems(t)) : IsPack(MyItems(t)[i])
    BY <1>1, <1>2, TaskLists
  <2>2. at[t] + 1 \in 1 .. Len(MyItems(t))
    BY <1>1, <1>2, <2>1
  <2> QED BY <2>1, <2>2
<1> DEFINE item == MyItems(t)[at[t] + 1]
<1>4. panels' = panels \cup Put(item) /\ UNCHANGED c
  <2>1. Perform(item) /\ (item[1] = "A" \/ item[1] = "B")
    BY <1>1, <1>3 DEF IsPack
  <2> HIDE DEF item
  <2> QED BY ONLY <2>1 DEF Perform, Put
<1>5. /\ TaskInv' /\ DOMAIN at' \subseteq DOMAIN at
      /\ \A u \in DOMAIN at : u # t => u \in DOMAIN at' /\ at'[u] = at[u]
      /\ (t \in DOMAIN at' => at'[t] = at[t] + 1)
      /\ (t \notin DOMAIN at' => at[t] + 1 = Len(MyItems(t)))
  BY <1>1, AdvancedOrGone
<1>6. \A u : MyItems(u)' = MyItems(u)
  BY <1>1 DEF MyItems
<1>7. TypeOK' /\ StageInv' /\ SpaceInv' /\ PendingInv' /\ PanelInv'
  BY <1>1, <1>2, <1>4, TaskFrame DEF TypeOK
<1>8. PackedInv'
  <2> SUFFICES ASSUME ~failed, NEW u \in DOMAIN Items(stage, call.product), NEW i \in 1 .. Len(MyItems(u))
               PROVE  Put(MyItems(u)[i]) \subseteq panels' \/ u \in todo
                      \/ (u \in DOMAIN at' /\ at'[u] < i)
    BY <1>1, <1>6 DEF PackedInv
  <2>1. Put(MyItems(u)[i]) \subseteq panels \/ u \in todo \/ (u \in DOMAIN at /\ at[u] < i)
    BY DEF IInv, PackedInv
  <2>2. CASE u # t
    BY <1>4, <1>5, <2>1, <2>2
  <2>3. CASE u = t /\ i = at[t] + 1
    BY <1>4, <2>3
  <2>4. CASE u = t /\ i # at[t] + 1
    <3>1. at[t] \in Nat /\ Len(MyItems(t)) \in Nat /\ i \in Nat /\ i <= Len(MyItems(t)) 
      BY <1>1, <1>2, <1>3, <2>4, TaskLists
    <3>2. at[t] < i => at[t] + 1 < i
      BY <2>4, <3>1
    <3> QED BY <1>1, <1>4, <1>5, <2>1, <2>4, <3>1, <3>2
  <2> QED BY <2>2, <2>3, <2>4
<1>9. PartInv'
  <2>1. stage # "tiles"
    BY DEF Packing
  <2> QED BY <1>1, <1>2, <1>4, <2>1, SameTiles, TilesKept
<1>10. IInv'
  BY <1>5, <1>7, <1>8, <1>9 DEF IInv
<1> QED BY <1>1, <1>4, <1>10, Stutters

\* A task of the tiles prepares its rectangle or multiplies.
LEMMA TileStep ==
  ASSUME IInv, NEW t, Work(t), UNCHANGED result, stage = "tiles"
  PROVE  IInv' /\ Step
<1>1. /\ InBatch /\ t \in DOMAIN at /\ at' = Advanced(t) /\ Perform(MyItems(t)[at[t] + 1])
      /\ UNCHANGED <<call, stage, heap, inside, fused, pending, todo, failed, run_rc, rc, result>>
  BY DEF Work
<1>2. /\ TypeOK /\ CurrentParts /\ stage \in Batches /\ call.output /\ Accepted /\ result = "running"
      /\ todo \subseteq DOMAIN Items(stage, call.product) /\ todo \cap DOMAIN at = {}
      /\ DOMAIN at \subseteq DOMAIN Items(stage, call.product)
      /\ \A u \in DOMAIN at : at[u] \in 0 .. Len(MyItems(u)) - 1
  BY <1>1, InBatchFacts
<1>3. /\ t \in DOMAIN TileTasks /\ Computes(MyItems(t), Rectangle(t)) /\ Rectangle(t) \subseteq Tiles
      /\ Did(MyItems(t), Rectangle(t), at[t])
      /\ Len(MyItems(t)) \in Nat \ {0}
  <2>1. t \in DOMAIN TileTasks /\ Computes(MyItems(t), Rectangle(t)) /\ Len(MyItems(t)) \in Nat \ {0}
    BY <1>1, <1>2, TaskLists
  <2> QED BY <1>1, <2>1, TileGrid, TilesKnown
<1>4. PICK list, k : list = MyItems(t) /\ k = at[t]
  OBVIOUS
<1> DEFINE X == Rectangle(t)
<1>5. /\ Computes(list, X) /\ X \subseteq Tiles /\ Did(list, X, k) /\ Perform(list[k + 1])
      /\ k \in Nat /\ Len(list) \in Nat \ {0} /\ k < Len(list)
  BY <1>1, <1>2, <1>3, <1>4
<1>6. /\ Did(list, X, k + 1)' /\ UNCHANGED panels
      /\ DOMAIN c' = Tiles /\ c' = [x \in Tiles |-> c'[x]]
      /\ \A x \in Tiles : x \notin X => c'[x] = c[x]
      /\ \A x \in Tiles : \E n \in Len(c[x]) .. Full : c'[x] = Part(n)
  BY <1>1, <1>2, <1>5, DidStep
<1>7. Promise!Compute /\ CurrentParts' /\ c' \in [Tiles -> Seq(0 .. Depth)]
  BY <1>1, <1>2, <1>6, ComputeStep
<1>8. TypeOK' /\ StageInv' /\ SpaceInv' /\ PendingInv' /\ PanelInv'
  BY <1>1, <1>2, <1>6, <1>7, TaskFrame DEF TypeOK
<1>9. /\ TaskInv' /\ DOMAIN at' \subseteq DOMAIN at
      /\ \A u \in DOMAIN at : u # t => u \in DOMAIN at' /\ at'[u] = at[u]
      /\ (t \in DOMAIN at' => at'[t] = k + 1)
      /\ (t \notin DOMAIN at' => k + 1 = Len(list))
  BY <1>1, <1>4, AdvancedOrGone
<1>10. \A u : MyItems(u)' = MyItems(u)
  BY <1>1 DEF MyItems
<1>11. PackedInv'
  BY <1>1 DEF PackedInv, Packing
<1>12. ASSUME NEW u \in DOMAIN TileTasks
       PROVE  /\ u \in todo' => Did(MyItems(u), Rectangle(u), 0)'
              /\ u \in DOMAIN at' => Did(MyItems(u), Rectangle(u), at[u])'
              /\ ~Undone(u)' /\ ~failed' => Did(MyItems(u), Rectangle(u), Len(MyItems(u)))'
  <2>1. CASE u = t
    <3>1. u \notin todo'
      BY <1>1, <1>2, <2>1
    <3>2. u \in DOMAIN at' => Did(MyItems(u), Rectangle(u), at[u])'
      <4>1. MyItems(t)' = list
        BY <1>4, <1>10
      <4> QED BY <1>6, <1>9, <2>1, <4>1
    <3>3. ~Undone(u)' => Did(MyItems(u), Rectangle(u), Len(MyItems(u)))'
      <4> SUFFICES ASSUME ~Undone(u)' PROVE Did(MyItems(t), X, Len(MyItems(t)))'
        BY <2>1
      <4>1. t \notin DOMAIN at'
        BY <2>1 DEF Undone
      <4>2. MyItems(t)' = list /\ k + 1 = Len(list)
        BY <1>4, <1>9, <1>10, <4>1
      <4> QED BY <1>6, <4>2
    <3> QED BY <3>1, <3>2, <3>3
  <2>2. CASE u # t
    <3>1. \A x \in Rectangle(u) : x \in Tiles /\ x \notin X
      BY <1>3, <2>2, TileGrid
    <3>2. \A x \in Rectangle(u) : c'[x] = c[x]
      BY <1>6, <3>1
    <3>3. /\ u \in todo => Did(MyItems(u), Rectangle(u), 0)
          /\ u \in DOMAIN at => Did(MyItems(u), Rectangle(u), at[u])
          /\ ~Undone(u) /\ ~failed => Did(MyItems(u), Rectangle(u), Len(MyItems(u)))
      BY TilesKnown
    <3>4. \A l, n : Did(l, Rectangle(u), n)' <=> Did(l, Rectangle(u), n)
      BY <1>1, <3>2, SameDid
    <3>5. (u \in DOMAIN at' <=> u \in DOMAIN at) /\ (u \in DOMAIN at' => at'[u] = at[u])
      BY <1>9, <2>2
    <3>6. ~Undone(u)' => ~Undone(u)
      BY <1>1, <3>5 DEF Undone
    <3> QED BY <1>1, <1>10, <3>2, <3>3, <3>4, <3>5, <3>6
  <2> QED BY <2>1, <2>2
<1>13. PartInv'
  <2>1. stage \notin Packing
    BY DEF Packing
  <2> QED BY <1>1, <1>7, <1>12, <2>1, TilesKept
<1>14. IInv'
  BY <1>8, <1>9, <1>11, <1>13 DEF IInv
<1> QED BY <1>7, <1>14 DEF Step, Promise!Next

\* A batch that packed everything has packed the panels it was made for.
LEMMA AllPacked ==
  ASSUME IInv, stage \in Packing, ~failed, todo = {}, DOMAIN at = {}
  PROVE  /\ stage \in {"packA", "packAB"} => PanelsOfA \subseteq panels
         /\ stage \in {"packB", "packAB"} => PanelsOfB \subseteq panels
<1>1. \A t \in DOMAIN Items(stage, call.product) : \A i \in 1 .. Len(MyItems(t)) :
        Put(MyItems(t)[i]) \subseteq panels
  BY DEF IInv, PackedInv
<1>2. ASSUME NEW S, Packs(Items(stage, call.product), S) PROVE S \subseteq panels
  <2> DEFINE list == Items(stage, call.product)
  <2>1. /\ DOMAIN list = 1 .. Len(list)
        /\ \A y \in S : \E t \in 1 .. Len(list) : \E i \in 1 .. Len(list[t]) : y \in Put(list[t][i])
    BY <1>2 DEF Packs
  <2>2. \A t \in DOMAIN list : \A i \in 1 .. Len(list[t]) : Put(list[t][i]) \subseteq panels
    BY <1>1 DEF MyItems
  <2> HIDE DEF list
  <2> QED BY ONLY <2>1, <2>2
<1>3. stage = "packA" => PanelsOfA \subseteq panels
  BY <1>2, PackingLists
<1>4. stage = "packB" => PanelsOfB \subseteq panels
  BY <1>2, PackingLists
<1>5. stage = "packAB" => PanelsOfA \cup PanelsOfB \subseteq panels
  BY <1>2, PackingLists
<1> QED BY <1>3, <1>4, <1>5

\* A packing batch ends: what it was to pack is packed, or the call fails.
LEMMA PackingDoneStep ==
  ASSUME IInv, PackingDone, UNCHANGED result
  PROVE  IInv' /\ Step
<1>1. /\ stage \in Packing /\ InBatch /\ DOMAIN at = {} /\ run_rc' \in {0, -1}
      /\ (run_rc' = 0 => todo = {} /\ ~failed)
      /\ UNCHANGED <<call, c, panels, heap, inside, fused, pending, failed, rc, result>>
      /\ \/ run_rc' # 0 /\ stage' = "release"
         \/ run_rc' = 0 /\ stage = "packB" /\ ~fused /\ stage' = "prepareA"
         \/ run_rc' = 0 /\ ~(stage = "packB" /\ ~fused) /\ Submit("tiles")
  BY DEF PackingDone, Packing, InBatch, Returned
<1>2. /\ TypeOK /\ CurrentParts /\ call.output /\ Accepted /\ result = "running"
      /\ \A x \in Tiles : Len(c[x]) = 0
  BY <1>1, InBatchFacts
<1>3. /\ (~fused => pending = {} /\ stage # "packAB")
      /\ (stage = "packA" => "B" \notin pending)
      /\ (fused /\ stage = "packB" => pending = {"B"})
      /\ (pending # {} => call.product)
      /\ (stage = "packB" => "A" \notin heap /\ "shapes" \notin heap /\ inside["A"] = {} /\ inside["shapes"] = {})
      /\ (stage = "packA" /\ Shares("B") => PanelsOfB \subseteq panels)
  BY <1>1 DEF IInv, PendingInv, SpaceInv, PanelInv, Inside, Batches, Packing
<1>4. /\ (run_rc' = 0 /\ stage \in {"packA", "packAB"} => PanelsOfA \subseteq panels)
      /\ (run_rc' = 0 /\ stage \in {"packB", "packAB"} => PanelsOfB \subseteq panels)
  BY <1>1, AllPacked
<1>5. /\ stage' \in {"release", "prepareA", "tiles"}
      /\ (stage' # "release" => run_rc' = 0 /\ ~failed)
      /\ (stage' = "prepareA" => stage = "packB" /\ ~fused)
      /\ (stage' = "tiles" => ~(stage = "packB" /\ ~fused))
  BY <1>1 DEF Submit
<1>6. TypeOK'
  BY <1>1, <1>2, <1>5 DEF TypeOK
<1>7. StageInv'
  BY <1>1, <1>2, <1>5 DEF StageInv, Inside, Batches, Packing, Accepted, validate_args
<1>8. SpaceInv'
  BY <1>1, <1>3, <1>5 DEF IInv, SpaceInv, Freed
<1>9. PendingInv'
  BY <1>1, <1>3, <1>5 DEF PendingInv, Inside, Batches, Packing
<1>10. PanelInv'
  BY <1>1, <1>3, <1>4, <1>5 DEF PanelInv, Shares, Packing
<1>11. TaskInv' /\ PackedInv' /\ PartInv'
  <2>1. CASE Submit("tiles")
    BY <1>1, <1>2, <2>1, SubmitTiles
  <2>2. CASE stage' = "prepareA" \/ (stage' = "release" /\ run_rc' # 0)
    BY <1>1, <1>2, <2>2, SameTiles DEF TaskInv, PackedInv, PartInv, Batches, Packing
  <2> QED BY <1>1, <2>1, <2>2
<1>12. IInv'
  BY <1>6, <1>7, <1>8, <1>9, <1>10, <1>11 DEF IInv
<1> QED BY <1>1, <1>12, Stutters

\* The batch of tiles ends: if no task failed, C is complete.
LEMMA TilesDoneStep ==
  ASSUME IInv, TilesDone, UNCHANGED result
  PROVE  IInv' /\ Step
<1>1. /\ stage = "tiles" /\ InBatch /\ DOMAIN at = {} /\ run_rc' \in {0, -1}
      /\ (run_rc' = 0 => todo = {})
      /\ stage' = "release" /\ todo' = {}
      /\ UNCHANGED <<call, c, panels, heap, inside, fused, pending, at, failed, rc, result>>
  BY DEF TilesDone, InBatch, Returned
<1>2. TypeOK /\ CurrentParts /\ call.output /\ Accepted /\ result = "running"
  BY <1>1, InBatchFacts
<1>3. run_rc' = 0 /\ ~failed => \A x \in Tiles : Len(c[x]) = Full
  <2> SUFFICES ASSUME run_rc' = 0, ~failed, NEW x \in Tiles PROVE Len(c[x]) = Full
    OBVIOUS
  <2>1. PICK t \in DOMAIN TileTasks : x \in Rectangle(t)
    BY TileGrid
  <2>2. ~Undone(t)
    BY <1>1 DEF Undone
  <2>3. Did(MyItems(t), Rectangle(t), Len(MyItems(t)))
    BY <1>1, <2>2, TilesKnown
  <2>4. Computes(MyItems(t), Rectangle(t)) /\ Rectangle(t) \subseteq Tiles
    BY <1>1, TileGrid DEF MyItems
  <2> QED BY <1>2, <2>1, <2>3, <2>4, DidAll
<1>4. TypeOK'
  BY <1>1, <1>2 DEF TypeOK
<1>5. StageInv'
  BY <1>1, <1>2 DEF StageInv, Inside, Batches, Packing, Accepted, validate_args
<1>6. TaskInv' /\ PackedInv' /\ PanelInv'
  BY <1>1 DEF TaskInv, PackedInv, PanelInv, Batches, Packing
<1>7. SpaceInv'
  BY <1>1 DEF IInv, SpaceInv, Freed
<1>8. PendingInv'
  BY <1>1 DEF IInv, PendingInv, Inside, Batches, Packing
<1>9. PartInv'
  BY <1>1, <1>2, <1>3, SameTiles DEF PartInv, Packing
<1>10. IInv'
  BY <1>4, <1>5, <1>6, <1>7, <1>8, <1>9 DEF IInv
<1> QED BY <1>1, <1>10, Stutters

\* The packed entry frees what it took and returns.
LEMMA ReleaseStep ==
  ASSUME IInv, Release, UNCHANGED result
  PROVE  IInv' /\ Step
<1>1. /\ stage = "release" /\ heap' = heap \ Freed /\ inside' = NoSpace /\ fused' = FALSE
      /\ pending' = {} /\ failed' = FALSE /\ run_rc' = 0 /\ UNCHANGED <<call, c, result>>
      /\ stage' = "returned" /\ todo' = {} /\ at' = << >>
      /\ rc' \in {0, EXECUTION_ERROR} /\ (rc' = 0 => run_rc = 0 /\ ~failed)
  BY DEF Release, Leave, EXECUTION_ERROR
<1>2. TypeOK /\ CurrentParts /\ call.output /\ Accepted /\ result = "running"
  BY <1>1, InEntry DEF Inside
<1>3. rc' = 0 => \A x \in Tiles : Len(c[x]) = Full
  BY <1>1 DEF IInv, PartInv
<1>4. heap' = {}
  BY <1>1 DEF IInv, SpaceInv
<1>5. CurrentParts' /\ rc' # UNAVAILABLE
  BY <1>1, <1>2, SameTiles DEF UNAVAILABLE, EXECUTION_ERROR
<1>6. TypeOK'
  <2>1. NoSpace \in [{"A", "B", "shapes"} -> SUBSET (0 .. call.workspace - 1)]
    BY DEF NoSpace
  <2> QED BY <1>1, <1>2, <1>4, <2>1 DEF TypeOK
<1>7. \A x \in Tiles : rc' = 0 => Len(c'[x]) = Full
  BY <1>1, <1>3
<1>8. ~failed'
  BY <1>1
<1>9. IInv'
  BY ONLY <1>1, <1>2, <1>4, <1>5, <1>6, <1>7, <1>8, Outside
<1> QED BY <1>1, <1>9, Stutters

---------------------------------------------------------------------------
(* What holds of every call *)

\* The invariant holds before the call does anything, and the promise begins.
LEMMA Starts == Init => IInv /\ Promise!Init
<1> SUFFICES ASSUME Init PROVE IInv /\ Promise!Init
  OBVIOUS
<1>1. /\ call \in Calls /\ stage = "start" /\ c = [t \in Tiles |-> <<>>] /\ heap = {}
      /\ inside = NoSpace /\ fused = FALSE /\ pending = {} /\ todo = {} /\ at = << >>
      /\ failed = FALSE /\ run_rc = 0 /\ rc = 0 /\ result = "running"
  BY DEF Init
<1>2. TypeOK
  <2>1. NoSpace \in [{"A", "B", "shapes"} -> SUBSET (0 .. call.workspace - 1)]
    BY DEF NoSpace
  <2>2. <<>> \in Seq(0 .. Depth)
    OBVIOUS
  <2> QED BY <1>1, <2>1, <2>2 DEF TypeOK
<1>3. CurrentParts /\ \A x \in Tiles : Len(c[x]) = 0
  <2>1. Full \in Nat /\ Part(0) = <<>>
    BY <1>2, FullList
  <2>2. Len(<<>>) = 0
    OBVIOUS
  <2> QED BY <1>1, <2>1, <2>2 DEF CurrentParts
<1>4. StageInv
  BY <1>1 DEF StageInv, Inside, Batches, Packing
<1>5. TaskInv /\ PackedInv /\ PanelInv
  BY <1>1 DEF TaskInv, PackedInv, PanelInv, Batches, Packing
<1>6. SpaceInv
  BY <1>1 DEF SpaceInv, NoSpace
<1>7. PendingInv
  BY <1>1 DEF PendingInv, Inside, Batches, Packing
<1>8. PartInv
  BY <1>1, <1>3 DEF PartInv, Packing
<1>9. IInv
  BY <1>2, <1>4, <1>5, <1>6, <1>7, <1>8 DEF IInv
<1>10. Promise!Init
  BY <1>1 DEF Promise!Init, Calls
<1> QED BY <1>9, <1>10

\* Every step keeps the invariant, and is one of Gemm's or leaves its state alone.
LEMMA Steps == IInv /\ [Next]_vars => IInv' /\ Step
<1> SUFFICES ASSUME IInv, [Next]_vars PROVE IInv' /\ Step
  OBVIOUS
<1>1. CASE Reject \/ NoOperation \/ Dispatch
  BY <1>1, RejectStep
<1>2. CASE RunSve
  BY <1>2, RunSveStep
<1>3. CASE PackedNext /\ UNCHANGED result
  <2>1. CASE RefusePacked \/ RefuseWorkspace
    BY <1>3, <2>1, RefuseStep
  <2>2. CASE EnterExecutor \/ PrivateB \/ NoRoomForB
    BY <1>3, <2>2, EnterStep
  <2>3. CASE ShareB
    BY <1>3, <2>3, ShareBStep
  <2>4. CASE PrivateA
    BY <1>3, <2>4, PrivateAStep
  <2>5. CASE ShareA
    BY <1>3, <2>5, ShareAStep
  <2>6. CASE \E t : Start(t)
    BY <1>3, <2>6, StartStep
  <2>7. CASE \E t : Abandon(t) \/ Fail(t)
    BY <1>3, <2>7, AbandonStep
  <2>8. CASE \E t : Work(t)
    <3>1. PICK t : Work(t)
      BY <2>8
    <3>2. stage \in Packing \/ stage = "tiles"
      BY <3>1 DEF Work, InBatch, Packing
    <3> QED BY <1>3, <3>1, <3>2, PackStep, TileStep
  <2>9. CASE PackingDone
    BY <1>3, <2>9, PackingDoneStep
  <2>10. CASE TilesDone
    BY <1>3, <2>10, TilesDoneStep
  <2>11. CASE Release
    BY <1>3, <2>11, ReleaseStep
  <2>12. CASE SerialEntry
    BY <1>3, <2>12, SerialEntryStep
  <2>13. CASE SerialRefuse \/ SerialFail
    BY <1>3, <2>13, SerialLeave
  <2>14. CASE SerialStep
    BY <1>3, <2>14, SerialStepStep
  <2> QED BY ONLY <1>3, <2>1, <2>2, <2>3, <2>4, <2>5, <2>6, <2>7, <2>8, <2>9, <2>10, <2>11, <2>12,
             <2>13, <2>14, Zenon DEF PackedNext
<1>4. CASE BackendDone
  BY <1>4, BackendDoneStep
<1>5. CASE SubmitRows
  BY <1>5, SubmitRowsStep
<1>6. CASE RowsDone
  BY <1>6, RowsDoneStep
<1>7. CASE \E t \in DOMAIN split_rows : RunRows(t)
  BY <1>7, RunRowsStep
<1>8. CASE UNCHANGED vars
  <2>1. UNCHANGED <<call, stage, c, panels, heap, inside, fused, pending, todo, at, failed, run_rc, rc, result>>
    BY <1>8 DEF vars, packedVars
  <2>2. TypeOK' /\ StageInv' /\ SpaceInv' /\ PendingInv' /\ PanelInv'
    BY <2>1 DEF IInv, TypeOK, StageInv, SpaceInv, PendingInv, PanelInv, Freed, Shares
  <2>3. \A t : MyItems(t)' = MyItems(t)
    BY <2>1 DEF MyItems
  <2>6. /\ split_rows' = split_rows
        /\ Items(stage, call.product)' = Items(stage, call.product)
    BY <2>1 DEF split_rows
  <2>7. TaskInv'
    BY <2>1, <2>3, <2>6, Zenon DEF IInv, TaskInv
  <2>8. PackedInv'
    BY <2>1, <2>3, <2>6, Zenon DEF IInv, PackedInv
  <2>4. TaskInv' /\ PackedInv'
    BY <2>7, <2>8
  <2>5. PartInv'
    <3>1. (CurrentParts' <=> CurrentParts) /\ Full' = Full
          /\ \A list, X, k : Did(list, X, k)' <=> Did(list, X, k)
      BY <2>1, SameTiles
    <3>2. split_rows' = split_rows
      BY <2>1 DEF split_rows
    <3> QED BY <2>1, <2>3, <3>1, <3>2 DEF IInv, PartInv, Undone
  <2> QED BY <2>1, <2>2, <2>4, <2>5, Stutters DEF IInv
<1>9. CASE Terminated
  BY <1>8, <1>9 DEF Terminated
<1> QED BY ONLY <1>1, <1>2, <1>3, <1>4, <1>5, <1>6, <1>7, <1>8, <1>9, [Next]_vars, Zenon DEF Next

\* The invariant of the module holds in every state of every call.
THEOREM InvariantHolds == Spec => []IInv
<1>1. Init => IInv
  BY Starts
<1>2. IInv /\ [Next]_vars => IInv'
  BY Steps
<1> QED BY <1>1, <1>2, PTL DEF Spec

\* The state keeps its types: the fields of the call, what each buffer occupies,
\* what the entry and the call return.
THEOREM TypeCorrect == Spec => []TypeOK
<1>1. IInv => TypeOK
  BY DEF IInv
<1> QED BY <1>1, InvariantHolds, PTL

\* Tiles are multiplied only with panels that are packed: the batches of
\* packed.c that fill the shared panels are over before the batch of tiles
\* begins, and they filled all of them, whichever of A and B is shared.
THEOREM PanelsPacked == Spec => []PanelsPackedBeforeUse
<1>1. IInv => PanelsPackedBeforeUse
  <2> SUFFICES ASSUME IInv, stage = "tiles", NEW t \in DOMAIN at, MyItems(t)[at[t] + 1][1] = "tile"
               PROVE  LET item == MyItems(t)[at[t] + 1] IN
                      /\ Shares("A") => <<"A", item[2][1], item[3]>> \in panels
                      /\ Shares("B") => \A j \in Columns(item[2][2]) : <<"B", j, item[3]>> \in panels
    BY DEF PanelsPackedBeforeUse
  <2>1. /\ DOMAIN at \subseteq DOMAIN Items(stage, call.product) /\ at[t] \in 0 .. Len(MyItems(t)) - 1
    BY DEF IInv, TaskInv, Batches
  <2>2. t \in DOMAIN TileTasks /\ Computes(MyItems(t), Rectangle(t)) /\ Rectangle(t) \subseteq Tiles
    BY <2>1, TaskLists, TileGrid DEF Batches
  <2>3. PICK x \in Tiles, p \in 1 .. Depth : MyItems(t)[at[t] + 1] = <<"tile", x, p>>
    <3> DEFINE list == MyItems(t)
               i == at[t] + 1
    <3>1. Len(list) \in Nat \ {0} /\ list[1] = <<"prepare", Rectangle(t)>>
          /\ (call.product => Products(list, Rectangle(t))) /\ (~call.product => Len(list) = 1)
      BY <2>2 DEF Computes, Prepares
    <3>2. i \in 1 .. Len(list) /\ list[i][1] = "tile"
      BY <2>1, <3>1
    <3> HIDE DEF list, i
    <3>3. i # 1
      BY ONLY <3>1, <3>2
    <3>4. i \in 2 .. Len(list) /\ call.product
      BY ONLY <3>1, <3>2, <3>3
    <3>5. \E x \in Rectangle(t) : \E p \in 1 .. Depth : list[i] = <<"tile", x, p>>
      BY ONLY <3>1, <3>4 DEF Products
    <3> QED BY <2>2, <3>5 DEF list, i
  <2> DEFINE item == MyItems(t)[at[t] + 1]
  <2>4. item[2] = x /\ item[3] = p
    BY ONLY <2>3
  <2>5. /\ Shares("A") => PanelsOfA \subseteq panels
        /\ Shares("B") => PanelsOfB \subseteq panels
    BY DEF IInv, PanelInv
  <2>6. <<"A", x[1], p>> \in PanelsOfA
    BY DEF PanelsOfA, Tiles
  <2>7. \A j \in Columns(x[2]) : <<"B", j, p>> \in PanelsOfB
    <3>1. x[2] \in ColBlocks
      BY DEF Tiles
    <3>2. \A j \in Columns(x[2]) : j \in 0 .. N - 1
      <4> DEFINE f == x[2] * Nc
                 e == (x[2] + 1) * Nc
      <4>1. /\ ceil_div_positive(N, Nc) \in Nat \ {0} /\ N \in Nat \ {0} /\ Nc \in Nat \ {0}
        BY Shape, GridAssumption
      <4>2. x[2] \in Nat
        BY <3>1, <4>1 DEF ColBlocks
      <4>3. f \in Nat /\ e \in Nat
        BY <4>1, <4>2
      <4>4. Columns(x[2]) = f .. (IF e < N THEN e ELSE N) - 1
        BY DEF Columns
      <4> HIDE DEF f, e
      <4> QED BY ONLY <4>1, <4>3, <4>4
    <3> QED BY <3>2 DEF PanelsOfB
  <2> HIDE DEF item
  <2>8. /\ Shares("A") => <<"A", item[2][1], item[3]>> \in panels
        /\ Shares("B") => \A j \in Columns(item[2][2]) : <<"B", j, item[3]>> \in panels
    BY ONLY <2>4, <2>5, <2>6, <2>7
  <2> QED BY <2>8 DEF item
<1> QED BY <1>1, InvariantHolds, PTL

\* The panels of B, those of A and their descriptors never share an element of
\* the caller's workspace, and no way out of the packed entry leaks a buffer.
THEOREM WorkspaceIsKept == Spec => []WorkspaceKept
<1>1. IInv => WorkspaceKept
  <2> SUFFICES ASSUME IInv PROVE WorkspaceKept
    OBVIOUS
  <2>1. /\ inside["B"] \in {{}, 0 .. BBytes - 1}
        /\ inside["A"] \in {{}, BBytes .. BBytes + ABytes - 1}
        /\ inside["shapes"] \in {{}, ShapesAt .. ShapesAt + Slots - 1}
        /\ (stage \in {"returned", "done"} => heap = {})
    BY DEF IInv, SpaceInv, StageInv, Inside, Batches, Packing
  <2>2. /\ BBytes \in Nat /\ ABytes \in Nat /\ Slots \in Nat /\ ShapesAt \in Nat
        /\ BBytes + ABytes <= ShapesAt
    BY Sizes
  <2>3. /\ \A k \in inside["B"] : k \in Int /\ k < BBytes
        /\ \A k \in inside["A"] : k \in Int /\ BBytes <= k /\ k < BBytes + ABytes
        /\ \A k \in inside["shapes"] : k \in Int /\ ShapesAt <= k
    BY ONLY <2>1, <2>2
  <2>4. \A k : /\ ~(k \in inside["B"] /\ k \in inside["A"])
               /\ ~(k \in inside["B"] /\ k \in inside["shapes"])
               /\ ~(k \in inside["A"] /\ k \in inside["shapes"])
    BY ONLY <2>2, <2>3
  <2> QED BY <2>1, <2>4 DEF WorkspaceKept
<1> QED BY <1>1, InvariantHolds, PTL

\* Whatever the shape, the plan, the workspace, the executor and the order of
\* the tasks, and whichever routes refuse or fail on the way, the call does to
\* every tile what Gemm promises, in order and once, and returns 0 only when it
\* has done all of it.
THEOREM KeepsPromise == Spec => ImplementsGemm
<1>1. Init => Promise!Init
  BY Starts
<1>2. IInv /\ [Next]_vars => [Promise!Next]_(Promise!vars)
  BY Steps DEF Step
<1> QED BY <1>1, <1>2, InvariantHolds, PTL DEF Spec, ImplementsGemm, Promise!Spec
=============================================================================
