------------------------------- MODULE Planner -------------------------------
(***************************************************************************)
(* The runtime planner of src/planner.c, a pure function from an operation *)
(* (op), a topology snapshot (topo) and an execution context (ctx) to a    *)
(* plan, and the search of src/packed_grid.h for a grid of tasks.  b is    *)
(* the build: the macros that choose the default blocks and the guarded    *)
(* policies.  A CPU set is [bits |-> its CPUs, nbits |-> its stored        *)
(* width]; ctx.given says whether the caller supplied a snapshot.          *)
(***************************************************************************)
EXTENDS Integers, FiniteSets, Sequences, FiniteSetsExt

CONSTANTS MAX_CPUS, MAX_NUMA_NODES,
          INT_MAX, INT64_MAX

ASSUME PlannerAssumption ==
  {MAX_CPUS, MAX_NUMA_NODES, INT_MAX, INT64_MAX} \subseteq Nat \ {0}

SMALL_CUTOFF == 8192
MEDIUM_CUTOFF == 4194304
MEDIUM_MAX_THREADS == 4
PAIRED_PACKED_NR == 8

---------------------------------------------------------------------------
(* Validation.                                                             *)

validate_op(op) ==
  /\ op.m >= 0 /\ op.n >= 0 /\ op.k >= 0
  /\ {op.ta, op.tb} \subseteq {"N", "T"}
  /\ op.dtype \in {"F32", "F64"}
  /\ op.batch >= 1

validate_reproducibility(repro) == repro \in {"FAST", "REPRODUCIBLE", "BITWISE"}

camblas_cpuset_validated_count(set) ==
  LET width == IF set.bits = {} THEN 0 ELSE Max(set.bits) + 1
  IN  IF set.nbits = width /\ width <= MAX_CPUS THEN Cardinality(set.bits) ELSE -1

validate_allowed_cpu_metadata(topo) ==
  IF /\ topo.n_allowed \in 1 .. MAX_CPUS
     /\ camblas_cpuset_validated_count(topo.allowed) = topo.n_allowed
  THEN 0 ELSE -2

\* The nodes are disjoint parts of the allowed set, so their total fits it too.
validate_numa_metadata(topo) ==
  /\ Len(topo.nodes) <= MAX_NUMA_NODES
  /\ \A i \in DOMAIN topo.nodes :
       LET node == topo.nodes[i] IN
       /\ node.id >= 0 /\ node.id < INT_MAX
       /\ node.n_cpus > 0
       /\ node.n_cpus <= node.physical /\ node.physical <= MAX_CPUS
       /\ camblas_cpuset_validated_count(node.cpus) = node.n_cpus
       /\ node.cpus.bits \subseteq topo.allowed.bits
       /\ \A j \in 1 .. i - 1 :
            /\ topo.nodes[j].id # node.id
            /\ topo.nodes[j].cpus.bits \cap node.cpus.bits = {}

IsVectorLength(bits) == bits >= 128 /\ bits <= 65536 /\ bits % 128 = 0

validate_topology_metadata(topo) ==
  IF validate_allowed_cpu_metadata(topo) # 0 THEN validate_allowed_cpu_metadata(topo)
  ELSE IF /\ topo.sve_vl_bits = 0 \/ IsVectorLength(topo.sve_vl_bits)
          /\ topo.n_online = 0 \/ topo.n_online >= topo.n_allowed
          /\ validate_numa_metadata(topo)
       THEN 0 ELSE -1

NeedsTopology(mode) == mode \in {"shape-aware", "ablation"}

validate_mode_context(mode, given, topo) ==
  IF mode \in {"none", "fixed"} THEN 0
  ELSE IF mode = "sve" THEN
    IF /\ given /\ topo.n_allowed = 1 /\ IsVectorLength(topo.sve_vl_bits)
       /\ validate_topology_metadata(topo) = 0
    THEN 0 ELSE -1
  ELSE IF NeedsTopology(mode) /\ given THEN validate_topology_metadata(topo)
  ELSE -1

---------------------------------------------------------------------------
(* Sizes.                                                                  *)

least(x, y) == IF x < y THEN x ELSE y
CeilDiv(x, y) == x \div y + (IF x % y # 0 THEN 1 ELSE 0)
RoundUp(x, y) == CeilDiv(x, y) * y

clamp_threads(requested, max_cpus) ==
  least(IF requested < 1 THEN 1 ELSE requested, IF max_cpus < 1 THEN 1 ELSE max_cpus)

\* A product of naturals that saturates where the int64_t product overflows.
SaturatedProduct(x, y) ==
  IF x = 0 \/ y = 0 THEN 0 ELSE IF y > INT64_MAX \div x THEN INT64_MAX ELSE x * y

compute_flops(op) ==
  SaturatedProduct(
    SaturatedProduct(SaturatedProduct(SaturatedProduct(op.m, op.n), op.k), 2), op.batch)

---------------------------------------------------------------------------
(* The task grid.                                                          *)

MaxSide == 16

\* A mutant: grids with fewer tasks than threads are admitted.
GridBlocksStarved(m, n, threads, mr, nr, mc, nc) ==
  { g \in [cm : { RoundUp(CeilDiv(m, rows), mr) : rows \in 1 .. MaxSide },
           cn : { RoundUp(CeilDiv(n, cols), nr) : cols \in 1 .. MaxSide }] :
      g.cm <= mc /\ g.cn <= nc }

\* The blocks tried: each is capacity bounded, of whole micro-tiles, and the
\* grid it gives has a task for every thread.
GridBlocks(m, n, threads, mr, nr, mc, nc) ==
  { g \in [cm : { RoundUp(CeilDiv(m, rows), mr) : rows \in 1 .. MaxSide },
           cn : { RoundUp(CeilDiv(n, cols), nr) : cols \in 1 .. MaxSide }] :
      /\ g.cm <= mc /\ g.cn <= nc
      /\ CeilDiv(m, g.cm) * CeilDiv(n, g.cn) >= threads }

\* Is g a better choice than h: fewer tasks, then smaller, then wider; a
\* build that balances waves looks at the critical path before that.
Better(g, h, m, n, threads, balance) ==
  LET Count(x) == CeilDiv(m, x.cm) * CeilDiv(n, x.cn)
      Area(x) == x.cm * x.cn
      Cost(x) == Area(x) * CeilDiv(Count(x), threads)
      BetterCount == \/ Count(g) < Count(h)
                     \/ /\ Count(g) = Count(h)
                        /\ Area(g) < Area(h) \/ (Area(g) = Area(h) /\ g.cn > h.cn)
  IN  IF balance THEN Cost(g) < Cost(h) \/ (Cost(g) = Cost(h) /\ BetterCount)
      ELSE BetterCount

\* Does the grid of mc x nc blocks starve a thread or waste an eighth?
Unbalanced(m, n, threads, mc, nc, balance) ==
  LET tasks == CeilDiv(m, mc) * CeilDiv(n, nc)
      slots == CeilDiv(tasks, threads) * threads
      covered == least(m, mc) * least(n, nc) * tasks
  IN  \/ tasks < threads
      \/ covered - m * n > covered \div 8
      \/ balance /\ slots - tasks > slots \div 8

camblas_fill_packed_grid(m, n, threads, mr, nr, mc, nc, balance) ==
  LET tried == GridBlocks(m, n, threads, mr, nr, mc, nc)
      kept == [cm |-> mc, cn |-> nc]
  IN  IF /\ m >= 1 /\ n >= 1 /\ threads >= 2 /\ threads <= 256
         /\ CeilDiv(m, mc) <= MaxSide /\ CeilDiv(n, nc) <= MaxSide
         /\ Unbalanced(m, n, threads, mc, nc, balance)
         /\ tried # {}
      THEN CHOOSE g \in tried : \A h \in tried \ {g} : Better(g, h, m, n, threads, balance)
      ELSE kept

---------------------------------------------------------------------------
(* The blocks of a packed plan.                                            *)

IsDeep(op) ==
  op.m > op.n /\ op.m <= 8192 /\ op.n <= 2048 /\ op.k > 1024 /\ op.k <= 4096

\* F32 or F64.
Per(op, single, double) == IF op.dtype = "F32" THEN single ELSE double

\* mc, nc and kc before the grid is known: each policy overrides the one before.
CacheBlocks(op, threads, b) ==
  LET small == b.small_cacheblock > 0 /\ threads >= 16 /\ op.m <= 2048 /\ op.n <= 2048 /\ op.k <= 1024
      deep == b.deep_cacheblock > 0 /\ threads >= 16 /\ IsDeep(op)
      long == b.deep_kc > 0 /\ op.dtype = "F32" /\ op.ta = "N" /\ threads >= 16 /\ IsDeep(op)
  IN  [mc |-> IF small THEN 64 ELSE b.mc,
       nc |-> IF small THEN 64 ELSE b.nc,
       kc |-> IF deep THEN CASE b.deep_cacheblock = 3 -> Per(op, 512, 256)
                             [] b.deep_cacheblock = 4 -> Per(op, 384, 192)
                             [] b.deep_cacheblock = 2 -> Per(op, 64, 32)
                             [] OTHER -> Per(op, 128, 64)
              ELSE IF small THEN Per(op, 128, 64) * (IF b.small_cacheblock = 2 THEN 2 ELSE 1)
              ELSE IF long THEN b.deep_kc
              ELSE b.kc]

TileRows(op, topo) ==
  IF IsVectorLength(topo.sve_vl_bits) THEN 2 * (topo.sve_vl_bits \div Per(op, 32, 64))
  ELSE Per(op, 4, 2)

\* Bytes of the panels and of the tile that a kc of 512 keeps live.
WorkingBytes(mc, nc) == (RoundUp(mc, 12) * 512 + RoundUp(nc, 8) * 512 + mc * nc) * 4

WantsLongK(op, threads, mc, nc, b) ==
  /\ b.deep_kc_cache_bytes > 0 /\ op.dtype = "F32" /\ op.ta = "N"
  /\ threads >= b.deep_kc_min_threads /\ IsDeep(op)
  /\ WorkingBytes(mc, nc) <= b.deep_kc_cache_bytes

\* One wave of rows x (threads / rows) equal tiles, if nothing is left over.
OneWave(op, threads, rows, mr) ==
  LET cols == threads \div rows IN
  IF /\ threads % rows = 0 /\ op.m % rows = 0 /\ cols \in 1 .. MaxSide
  THEN /\ op.n % cols = 0
       /\ (op.m \div rows) % mr = 0 /\ (op.n \div cols) % PAIRED_PACKED_NR = 0
  ELSE FALSE

\* The rows of that wave under the shallow policy, 0 if it does not apply.
ShallowRows(op, ctx, threads, mr, b) ==
  LET rows == IF op.m * 2 >= op.n THEN 4 ELSE 2 IN
  IF /\ b.shallow_aspect /\ ctx.executor /\ op.dtype = "F32" /\ op.ta = "N" /\ op.tb = "N"
     /\ threads \in 16 .. 32 /\ op.m <= op.n
     /\ op.m \in 128 .. 2048 /\ op.n \in 128 .. 2048 /\ op.k \in 128 .. 1024
  THEN IF OneWave(op, threads, rows, mr) THEN rows ELSE 0
  ELSE 0

\* The same under the policy for deep products, whose tiles have row_block rows.
DeepRows(op, ctx, threads, mr, b) ==
  LET row_block == Per(op, b.deep_row_block, b.deep_row_block_fp64) IN
  IF /\ row_block > 0 /\ ctx.executor /\ op.ta = "N" /\ op.tb = "N"
     /\ threads >= 16 /\ threads <= b.deep_row_block_max_threads /\ IsDeep(op)
  THEN IF op.m % row_block = 0 /\ op.m \div row_block \in 1 .. MaxSide
       THEN IF OneWave(op, threads, op.m \div row_block, mr) THEN op.m \div row_block ELSE 0
       ELSE 0
  ELSE 0

PackedBlocks(op, topo, ctx, threads, b) ==
  LET first == CacheBlocks(op, threads, b)
      mr == TileRows(op, topo)
      grid == IF b.fill_grid /\ ctx.executor
              THEN camblas_fill_packed_grid(op.m, op.n, threads, mr, PAIRED_PACKED_NR,
                                            first.mc, first.nc, b.balance_waves)
              ELSE [cm |-> first.mc, cn |-> first.nc]
      kc == IF WantsLongK(op, threads, grid.cm, grid.cn, b) THEN 512 ELSE first.kc
      deep == DeepRows(op, ctx, threads, mr, b)
      rows == IF deep > 0 THEN deep ELSE ShallowRows(op, ctx, threads, mr, b)
  IN  [mc |-> IF rows > 0 THEN op.m \div rows ELSE grid.cm,
       nc |-> IF rows > 0 THEN op.n \div (threads \div rows) ELSE grid.cn,
       kc |-> kc, mr |-> mr, nr |-> PAIRED_PACKED_NR]

---------------------------------------------------------------------------
(* camblas_plan_make: its status, and the plan when the status is 0.       *)

NoPlan == [kernel |-> "none"]
NoBlocks == [mc |-> 0, nc |-> 0, kc |-> 0, mr |-> 0, nr |-> 0]
Refused(status) == [rc |-> status, plan |-> NoPlan]

Made(kernel, threads, wide, blocks) ==
  [rc |-> 0,
   plan |-> [kernel |-> kernel, pack |-> IF kernel = "PACKED" THEN "BOTH" ELSE "NONE",
             threads |-> threads, scheme |-> IF threads > 1 THEN wide ELSE "NONE",
             blocks |-> blocks]]
Scalar == Made("SCALAR", 1, "ROW", NoBlocks)

\* Mode "sve": one CPU, and a kernel that takes an untransposed A.
SvePlan(op, topo, b) ==
  IF op.batch = 1 /\ op.m > 0 /\ op.n > 0 /\ op.ta = "N"
  THEN Made("SVE", 1, "ROW", [NoBlocks EXCEPT !.mr = topo.sve_vl_bits \div Per(op, 32, 64),
                                              !.nr = b.sve_nr])
  ELSE Scalar

\* Modes "shape-aware" and "ablation": by the size of the product.
ShapePlan(op, topo, ctx, requested, b) ==
  LET flops == compute_flops(op)
      Threads(most) == clamp_threads(least(requested, most), topo.n_allowed)
  IN  IF op.batch > 1 THEN Made("BATCHED", Threads(requested), "2D", NoBlocks)
      ELSE IF topo.n_allowed = 1 \/ flops < SMALL_CUTOFF THEN Scalar
      ELSE IF flops < MEDIUM_CUTOFF THEN Made("NOPACK", Threads(MEDIUM_MAX_THREADS), "ROW", NoBlocks)
      ELSE Made("PACKED", Threads(requested), "2D",
                PackedBlocks(op, topo, ctx, Threads(requested), b))

camblas_plan_make(op, topo, ctx, b) ==
  LET mode_rc == validate_mode_context(ctx.mode, ctx.given, topo)
      requested == IF ctx.num_threads < 1 THEN 1 ELSE ctx.num_threads
  IN  IF ~validate_op(op) \/ ~validate_reproducibility(ctx.repro) THEN Refused(-1)
      ELSE IF mode_rc # 0 THEN Refused(mode_rc)
      ELSE IF ctx.repro = "BITWISE" \/ ctx.mode = "none" THEN Scalar
      ELSE IF ctx.mode = "fixed"
           THEN Made("SCALAR", clamp_threads(requested, IF ctx.given THEN topo.n_allowed ELSE 1),
                     "ROW", NoBlocks)
      ELSE IF ctx.mode = "sve" THEN SvePlan(op, topo, b)
      ELSE ShapePlan(op, topo, ctx, requested, b)

---------------------------------------------------------------------------
(* What a plan promises for its operation, whatever the snapshot.          *)

\* Threads come from the allowed CPUs, and a plan for one is not parallel.
ThreadsAllowed(plan, topo, ctx) ==
  /\ plan.threads >= 1
  /\ plan.threads <= (IF ctx.given /\ topo.n_allowed > 1 THEN topo.n_allowed ELSE 1)
  /\ (plan.scheme = "NONE") <=> (plan.threads = 1)

\* Blocks that differ from the default ones are whole micro-tiles, at most
\* one grid of 16 x 16 tasks, no thread without one.
GridIsFull(op, plan, first) ==
  LET t == plan.blocks IN
  t.mc # first.mc \/ t.nc # first.nc =>
    /\ t.mc % t.mr = 0 /\ t.nc % t.nr = 0
    /\ CeilDiv(op.m, t.mc) \in 1 .. MaxSide /\ CeilDiv(op.n, t.nc) \in 1 .. MaxSide
    /\ CeilDiv(op.m, t.mc) * CeilDiv(op.n, t.nc) >= plan.threads

\* A depth of 512 chosen for the cache still fits it with the final tiles.
DepthFitsCache(op, plan, first, b) ==
  LET t == plan.blocks IN
  t.kc # first.kc => WorkingBytes(t.mc, t.nc) <= b.deep_kc_cache_bytes

PlanKeepsPromises(op, topo, ctx, b, plan) ==
  /\ ThreadsAllowed(plan, topo, ctx)
  /\ plan.kernel = "PACKED" =>
       LET first == CacheBlocks(op, plan.threads, b) IN
       /\ {plan.blocks.mc, plan.blocks.nc, plan.blocks.kc, plan.blocks.mr} \subseteq Nat \ {0}
       /\ b.fill_grid /\ ctx.executor => GridIsFull(op, plan, first)
       /\ DepthFitsCache(op, plan, first, b)
=============================================================================
