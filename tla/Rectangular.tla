----------------------------- MODULE Rectangular -----------------------------
(***************************************************************************)
(* One-level Strassen of rectangular products, src/rectangular32.c and     *)
(* src/rectangular64.c: pack the seven left and right factors into panels, *)
(* multiply the panels into seven product planes, recombine the planes     *)
(* into C.  A deep product streams slabs of the depth through panels of    *)
(* bounded size.  Each stage is one batch of the executor, which runs its  *)
(* tasks in any order, so a stage is one step here, and OneWriter says     *)
(* that its tasks write different elements.                                *)
(*                                                                         *)
(* Panels and planes are addresses in one scratch memory, counted in       *)
(* elements; block sizes and thread thresholds are constants.              *)
(***************************************************************************)
EXTENDS BilinearCall

CONSTANTS
  RowGroup32, RowGroup64,  \* rows of a left micro-panel: 12 and 6
  ColumnGroup,             \* columns of a right micro-panel: 8
  RectKC,                  \* CAMBLAS_RECT_KC
  Lane, ColumnStep,        \* rows and columns the NEON kernels store together
  MidPool, LargePool,      \* 16 and 64 workers
  MidGrid, LargeGrid,      \* the task grids of such pools: 4 and 8
  MidRows,                 \* CAMBLAS_RECT_ROWS16
  Aspect, StreamDepth,     \* 4 and 1024: when a product is streamed
  WideSide                 \* 512: the largest half side with a wide block

VARIABLES
  scratch,    \* packed_a, packed_b and products
  source_pc,  \* depth at which the slab in the panels starts
  hk,         \* its depth
  peaks       \* [a, b]: the largest magnitudes packed so far

rectVars == <<scratch, source_pc, hk, peaks>>

(***************************************************************************)
(* Geometry (rectangular32_execute, rectangular64_execute).                *)
(***************************************************************************)
MR == IF call.fp64 THEN RowGroup64 ELSE RowGroup32
NR == ColumnGroup
hm == call.m \div 2
hn == call.n \div 2
full_hk == call.k \div 2
row_groups    == CeilDiv(hm, MR)
column_groups == CeilDiv(hn, NR)

kc == IF /\ call.fp64 /\ call.workers = LargePool
         /\ hm = hn /\ hm <= WideSide /\ full_hk >= RectKC
      THEN 2 * RectKC ELSE RectKC

stream ==
  /\ call.workers \in MidPool .. LargePool - 1
  /\ IF call.fp64 THEN call.m > call.n ELSE call.m >= Aspect * call.n
  /\ call.k > StreamDepth

depth_blocks == IF stream THEN 1 ELSE CeilDiv(hk, kc)
packed_k == IF stream /\ full_hk > kc THEN kc ELSE full_hk
a_plane  == row_groups * MR * packed_k
b_plane  == column_groups * NR * packed_k
product_plane == hm * hn

fused_b == /\ call.workers < LargePool
           /\ call.m # call.n \/ call.k < 2 * RectKC

neon_kernel_any_tile == call.neon /\ ~call.ta /\ ~call.tb /\ stream
neon_kernel ==
  /\ call.neon
  /\ IF call.fp64
     THEN /\ ~call.ta
          /\ \/ /\ ~call.tb /\ call.workers >= MidPool
                /\ call.m = call.n /\ call.n = call.k
                /\ call.m % (2 * Lane) = 0
             \/ /\ call.tb /\ call.workers = LargePool /\ call.m >= call.n
                /\ call.m % (2 * Lane) = 0 /\ call.n % (2 * ColumnStep) = 0
     ELSE /\ ~call.tb /\ stream
          /\ call.m % (2 * Lane) = 0 /\ call.n % (2 * ColumnStep) = 0

\* Scratch the caller has to bring: at full depth, or per segment.
rectangular_bytes ==
  7 * ((CeilDiv(hm, MR) * MR + CeilDiv(hn, NR) * NR) * full_hk + hm * hn)
segment_bytes == <<7 * (CeilDiv(hm, MR) * MR) * packed_k,
                   7 * (CeilDiv(hn, NR) * NR) * packed_k,
                   7 * hm * hn>>
scratch_needed == IF call.segments
                  THEN segment_bytes[1] + segment_bytes[2] + segment_bytes[3]
                  ELSE rectangular_bytes

packed_a == 0
packed_b == IF call.segments THEN segment_bytes[1] ELSE 7 * a_plane
products == IF call.segments THEN segment_bytes[1] + segment_bytes[2]
            ELSE packed_b + 7 * b_plane

Origin(rows, columns, row_step, column_step) ==
  [q \in Quadrants |->
     (IF q \in {"21", "22"} THEN rows * row_step ELSE 0)
       + (IF q \in {"12", "22"} THEN columns * column_step ELSE 0)]
\* Where the quadrants of A and of B start in memory.
quadrant_a == IF call.ta THEN Origin(hm, full_hk, lda, 1)
              ELSE Origin(hm, full_hk, 1, lda)
quadrant_b == IF call.tb THEN Origin(full_hk, hn, ldb, 1)
              ELSE Origin(full_hk, hn, 1, ldb)

QuadrantsAt(memory, origin, offset) ==
  [q \in Quadrants |-> memory[origin[q] + offset]]

(***************************************************************************)
(* Packing.  A store is a pair of an address and a value; a task is the    *)
(* set of its stores and the magnitudes it has seen.                       *)
(***************************************************************************)
RowsIn(group) == Least(hm - group * MR, MR)
ColumnsIn(column) == Least(hn - column, NR)

\* Row i and depth q of a quadrant lie at origin + i * row_step + q * depth_step.
PackAllA(first, last, at_pc, bk, origin, row_step, depth_step) ==
  LET base(group) == packed_a + at_pc * row_groups * MR + group * MR * bk
      Source(row, q) == origin + row * row_step + q * depth_step
      Seven(group, q, i) ==
        IF i < RowsIn(group)
        THEN SumsOfA(QuadrantsAt(a, quadrant_a, Source(group * MR + i, q)))
        ELSE <<0, 0, 0, 0, 0, 0, 0>>
  IN [stores |-> {<<base(g) + q * MR + i + p * a_plane, At(Seven(g, q, i), p)>> :
                    g \in first .. last - 1, q \in 0 .. bk - 1,
                    i \in 0 .. MR - 1, p \in Products},
      seen |-> UNION {{Abs(a[quadrant_a[x] + Source(g * MR + i, q)]) :
                         q \in 0 .. bk - 1, i \in 0 .. RowsIn(g) - 1, x \in Quadrants} :
                      g \in first .. last - 1}]

pack_all_a(first, last, at_pc, bk) ==
  PackAllA(first, last, at_pc, bk, (source_pc + at_pc) * lda, 1, lda)
pack_transposed_a(first, last, at_pc, bk) ==
  PackAllA(first, last, at_pc, bk, source_pc + at_pc, lda, 1)

SourceOfFirstSlab(at_pc, column, q, j) ==
  IF call.tb THEN column + j + (at_pc + q) * ldb ELSE at_pc + q + (column + j) * ldb
SourceB(at_pc, column, q, j) ==
  IF call.tb THEN column + j + (source_pc + at_pc + q) * ldb
  ELSE source_pc + at_pc + q + (column + j) * ldb
\* Offset in its quadrant of an element of B, and address of a right micro-panel.
BaseB(at_pc, column, bk) == packed_b + at_pc * column_groups * NR + column * bk

\* The magnitudes that packing a panel of B scans, its partial tile included.
ScannedTiles(column, at_pc, bk) ==
  {Abs(b[quadrant_b[x] + SourceB(at_pc, column, q, j)]) :
     q \in 0 .. bk - 1, x \in Quadrants,
     j \in 0 .. (IF ColumnsIn(column) = NR THEN NR ELSE 0) - 1}
Scanned(column, at_pc, bk) ==
  {Abs(b[quadrant_b[x] + SourceB(at_pc, column, q, j)]) :
     q \in 0 .. bk - 1, x \in Quadrants, j \in 0 .. ColumnsIn(column) - 1}

pack_all_b(column, at_pc, bk) ==
  LET Seven(q, j) ==
        IF j < ColumnsIn(column)
        THEN SumsOfB(QuadrantsAt(b, quadrant_b, SourceB(at_pc, column, q, j)))
        ELSE <<0, 0, 0, 0, 0, 0, 0>>
  IN [stores |-> {<<BaseB(at_pc, column, bk) + q * NR + j + p * b_plane, At(Seven(q, j), p)>> :
                    q \in 0 .. bk - 1, j \in 0 .. NR - 1, p \in Products},
      seen |-> Scanned(column, at_pc, bk)]

pack_b_block(p, column, at_pc, bk) ==
  LET Load(x, q, j) == b[quadrant_b[x] + SourceB(at_pc, column, q, j)]
      Factor(q, j) ==
        IF j >= ColumnsIn(column) THEN 0
        ELSE IF At(right2, p) = None THEN Load(At(right, p), q, j)
        ELSE IF At(sign_b, p) = 1
             THEN Load(At(right, p), q, j) + Load(At(right2, p), q, j)
             ELSE Load(At(right, p), q, j) - Load(At(right2, p), q, j)
  IN [stores |-> {<<BaseB(at_pc, column, bk) + q * NR + j + p * b_plane, Factor(q, j)>> :
                    q \in 0 .. bk - 1, j \in 0 .. NR - 1},
      seen |-> {Abs(Load(x, q, j)) :
                  q \in 0 .. bk - 1, j \in 0 .. ColumnsIn(column) - 1,
                  x \in {At(right, p), At(right2, p)} \ {None}}]

(* How many row groups one slot packs, and how many indices a slot has.    *)
per_block == Max({1} \cup {x \in {2, 4} :
                             CeilDiv(row_groups, x) * depth_blocks >= call.workers})
a_blocks  == CeilDiv(row_groups, per_block)
weight    == (IF call.fp64 THEN 6 ELSE 12) * per_block
groups    == a_blocks * weight + 7 * column_groups
pack_total == groups * depth_blocks

\* The left slot that index opens, and the right panel that index owns.
Nothing == [stores |-> {}, seen |-> {}]
PackIndex(index) ==
  LET group == index % groups
      at_pc == (index \div groups) * kc
      bk    == Least(hk - at_pc, kc)
      first == (group \div weight) * per_block
      other == group - a_blocks * weight
  IN [left |->
        IF group >= a_blocks * weight \/ group % weight # 0 THEN Nothing
        ELSE IF call.ta
             THEN pack_transposed_a(first, Least(first + per_block, row_groups), at_pc, bk)
             ELSE pack_all_a(first, Least(first + per_block, row_groups), at_pc, bk),
      right |->
        IF other < 0 THEN Nothing
        ELSE IF call.fp64 /\ ~call.tb /\ ~fused_b
             THEN pack_b_block(other \div column_groups, (other % column_groups) * NR, at_pc, bk)
        ELSE IF other % 7 = 0 THEN pack_all_b((other \div 7) * NR, at_pc, bk)
        ELSE Nothing]

PackTask(worker) ==
  {PackIndex(index) : index \in Share(worker, pack_total, call.workers)}

(***************************************************************************)
(* Products.  A task is a tile of one product plane.                       *)
(***************************************************************************)
row_grid ==
  IF ~call.fp64 /\ stream /\ call.workers = MidPool THEN MidRows
  ELSE IF call.workers >= LargePool THEN LargeGrid
  ELSE IF call.workers >= MidPool THEN MidGrid ELSE 1
column_grid ==
  IF ~call.fp64 /\ stream /\ call.workers = MidPool THEN MidPool \div MidRows
  ELSE IF call.workers >= LargePool THEN LargeGrid
  ELSE IF call.workers >= MidPool THEN MidGrid ELSE 1
rows    == Least(row_groups, row_grid)
columns == Least(column_groups, column_grid)

GridTile(p, r, s) ==
  [product |-> p,
   i0 |-> ((row_groups * r) \div rows) * MR,
   i1 |-> Least(((row_groups * (r + 1)) \div rows) * MR, hm),
   j0 |-> ((column_groups * s) \div columns) * NR,
   j1 |-> Least(((column_groups * (s + 1)) \div columns) * NR, hn)]

\* Row-major tiles; in the other case each product starts at another tile.
plain_tasks == {GridTile(p, rb, cb) :
                  p \in Products, rb \in 0 .. rows - 1, cb \in 0 .. columns - 1}
rotated_tasks == {GridTile(p, (rb + p) % rows, (cb + p) % columns) :
                    p \in Products, rb \in 0 .. rows - 1, cb \in 0 .. columns - 1}
product_tasks == IF call.fp64 \/ neon_kernel THEN rotated_tasks ELSE plain_tasks

\* The micro-kernels: the portable ones store the tile, the NEON ones store
\* Lane rows and ColumnStep columns at a time.
NeonRows(count) == Lane * Max({1, count \div Lane})
NeonColumns(count) == ColumnStep * CeilDiv(count, ColumnStep)
neon12_kernel(count) == NeonRows(count)
neon6_kernel(count)  == NeonRows(count)

\* Rows and columns of the plane that the micro-tile at (i, j) stores.
StoredRows(count) ==
  IF ~neon_kernel THEN count
  ELSE IF call.fp64 THEN neon6_kernel(count) ELSE neon12_kernel(count)
StoredColumns(count) == IF neon_kernel THEN NeonColumns(count) ELSE count

MicroTiles(t) == {<<i, j>> \in (t.i0 .. t.i1 - 1) \X (t.j0 .. t.j1 - 1) :
                    (i - t.i0) % MR = 0 /\ (j - t.j0) % NR = 0}

\* One micro-kernel call over the block of depth that starts at at_pc.
Kernel(p, i, j, at_pc) ==
  LET bk == Least(hk - at_pc, kc)
      pa == packed_a + p * a_plane + at_pc * row_groups * MR + i * bk
      pb == packed_b + p * b_plane + at_pc * column_groups * NR + j * bk
  IN [x \in (0 .. MR - 1) \X (0 .. NR - 1) |->
        MapThenSumSet(LAMBDA q : scratch[pa + q * MR + x[1]] * scratch[pb + q * NR + x[2]],
                      0 .. bk - 1)]

\* first: the first block of the first slab initialises the plane.
ProductStores(t) ==
  LET blocks == {x * kc : x \in 0 .. CeilDiv(hk, kc) - 1}
      Tile(i, j) == (0 .. StoredRows(Least(t.i1 - i, MR)) - 1)
                      \X (0 .. StoredColumns(Least(t.j1 - j, NR)) - 1)
      Address(i, j, x) ==
        products + t.product * product_plane + i + x[1] + (j + x[2]) * hm
      Old(at) == IF source_pc = 0 THEN 0 ELSE scratch[at]
  IN UNION {LET sums == [at_pc \in blocks |-> Kernel(t.product, ij[1], ij[2], at_pc)]
            IN {<<Address(ij[1], ij[2], x),
                  Old(Address(ij[1], ij[2], x))
                    + MapThenSumSet(LAMBDA at_pc : sums[at_pc][x], blocks)>> :
                x \in Tile(ij[1], ij[2])} :
            ij \in MicroTiles(t)}

(***************************************************************************)
(* Recombination of the columns of one worker.                             *)
(***************************************************************************)
Plane(p, i, j) == scratch[products + p * product_plane + i + j * hm]
CombineStores(worker) ==
  UNION {LET quadrants == Recombined([p \in 1 .. 7 |-> Plane(p - 1, i, j)])
             left_at == i + j * ldc
             right_at == left_at + hn * ldc
         IN {<<left_at, quadrants["11"]>>, <<left_at + hm, quadrants["21"]>>,
             <<right_at, quadrants["12"]>>, <<right_at + hm, quadrants["22"]>>} :
         i \in 0 .. hm - 1, j \in Share(worker, hn, call.workers)}

WorkerIds == 0 .. call.workers - 1
PackWork == [w \in WorkerIds |-> PackTask(w)]
StoresOf(work) == UNION {UNION {x.left.stores, x.right.stores} : x \in work}

(***************************************************************************)
(* The steps of a call.                                                    *)
(***************************************************************************)
RectInit ==
  /\ scratch = [x \in 0 .. scratch_needed - call.missing - 1 |-> Garbage]
  /\ source_pc = 0
  /\ hk = IF stream THEN Least(full_hk, kc) ELSE full_hk
  /\ peaks = [a |-> 0, b |-> 0]

Enough == call.missing = 0

\* The checks that precede the first batch.
RectReject ==
  /\ pc = "start" /\ call.algorithm = "rectangular" /\ ~Enough
  /\ Return(-1)
  /\ UNCHANGED <<call, a, b, c>> /\ UNCHANGED rectVars

RectStart ==
  /\ pc = "start" /\ call.algorithm = "rectangular" /\ Enough
  /\ pc' = "pack"
  /\ UNCHANGED <<call, a, b, c, status>> /\ UNCHANGED rectVars

\* rectangular32_pack, rectangular64_pack on every worker, and the maxima.
RectPack ==
  /\ pc = "pack"
  /\ LET work == PackWork
         all  == UNION {work[w] : w \in WorkerIds}
     IN /\ scratch' = Write(scratch, StoresOf(all))
        /\ peaks' = [a |-> Max({peaks.a} \cup UNION {x.left.seen : x \in all}),
                     b |-> Max({peaks.b} \cup UNION {x.right.seen : x \in all})]
  /\ pc' = "verdict"
  /\ UNCHANGED <<call, a, b, c, status, source_pc, hk>>

RectDecline ==
  /\ pc = "verdict" /\ call.levels > 0
  /\ ~range_verdict(peaks.a, peaks.b, call.k, call.levels)
  /\ Return(1)
  /\ UNCHANGED <<call, a, b, c>> /\ UNCHANGED rectVars

RectAdmit ==
  /\ pc = "verdict"
  /\ call.levels = 0 \/ range_verdict(peaks.a, peaks.b, call.k, call.levels)
  /\ pc' = "multiply"
  /\ UNCHANGED <<call, a, b, c, status>> /\ UNCHANGED rectVars

\* The product batch, and the step to the next slab of a streamed product.
RectMultiply ==
  /\ pc = "multiply"
  /\ scratch' = Write(scratch, UNION {ProductStores(t) : t \in product_tasks})
  /\ IF stream /\ source_pc + kc < full_hk
     THEN /\ source_pc' = source_pc + kc
          /\ hk' = Least(full_hk - source_pc', kc)
          /\ pc' = "pack"
     ELSE pc' = "combine" /\ UNCHANGED <<source_pc, hk>>
  /\ UNCHANGED <<call, a, b, c, status, peaks>>

\* The executor refuses the batch, or a tile's kernel is not available.
RectBatchFails ==
  /\ pc \in {"pack", "multiply"} /\ call.algorithm = "rectangular"
  /\ Return(-1)
  /\ UNCHANGED <<call, a, b, c>> /\ UNCHANGED rectVars

RectCombine ==
  /\ pc = "combine" /\ call.algorithm = "rectangular"
  /\ c' = Write(c, UNION {CombineStores(w) : w \in WorkerIds})
  /\ Return(0)
  /\ UNCHANGED <<call, a, b>> /\ UNCHANGED rectVars

\* As RectCombineFails, but handing the call back to the classical route.
RectCombineDeclines ==
  /\ pc = "combine" /\ call.algorithm = "rectangular"
  /\ \E ran \in SUBSET WorkerIds : c' = Write(c, UNION {CombineStores(w) : w \in ran})
  /\ Return(1)
  /\ UNCHANGED <<call, a, b>> /\ UNCHANGED rectVars

\* The last batch fails after some of its tasks have run.
RectCombineFails ==
  /\ pc = "combine" /\ call.algorithm = "rectangular"
  /\ \E ran \in SUBSET WorkerIds : c' = Write(c, UNION {CombineStores(w) : w \in ran})
  /\ Return(-1)
  /\ UNCHANGED <<call, a, b>> /\ UNCHANGED rectVars

RectNext == \/ RectReject \/ RectStart \/ RectPack \/ RectDecline \/ RectAdmit
            \/ RectMultiply \/ RectBatchFails \/ RectCombine \/ RectCombineFails

(***************************************************************************)
(* The tasks of a batch own what they write: the weighted slots of the     *)
(* packing pass, the (rotated) product tiles with the whole vectors that   *)
(* the NEON kernels store, and the columns of the recombination are        *)
(* disjoint and leave nothing of a panel or a plane out, for any number    *)
(* of workers: the rectangular part of OneWriter (module Bilinear).        *)
(***************************************************************************)
RectangularOneWriter ==
  /\ pc = "pack" =>
       LET written == [w \in WorkerIds |-> Addresses(StoresOf(PackTask(w)))]
       IN /\ Disjoint(written)
          /\ Cardinality(UNION Range(written)) =
               7 * (row_groups * MR + column_groups * NR) * hk
  /\ pc = "multiply" =>
       LET written == [t \in product_tasks |-> Addresses(ProductStores(t))]
       IN /\ Disjoint(written)
          /\ UNION Range(written) = products .. products + 7 * product_plane - 1
  /\ pc = "combine" /\ call.algorithm = "rectangular" =>
       Disjoint([w \in WorkerIds |-> Addresses(CombineStores(w))])

(***************************************************************************)
(* The preflight fused into packing decides as a separate scan of A and B  *)
(* would: no element escapes it, whatever the layout, the slab it is in    *)
(* and the worker that packs it (the comment at src/rectangular32.c:89).   *)
(***************************************************************************)
RangeDecides ==
  call.algorithm = "rectangular" /\ call.levels > 0 =>
    /\ status = 0 => range_safe
    /\ status = 1 => ~range_safe
=============================================================================
