----------------------------- MODULE PackedGemm -----------------------------
(***************************************************************************)
(* The packed GEMM of src/packed.c: camblas_[sd]gemm_packed (one thread)   *)
(* and camblas_[sd]gemm_packed_executor_workspace (tasks on the caller's   *)
(* executor, private or shared packed panels, optional caller workspace).  *)
(*                                                                         *)
(* Rows and columns of C are counted in packing units, depth in blocks of  *)
(* kc.  A macro tile is Mc x Nc units; c[tile] lists what has been done to *)
(* it, as in Gemm.  panels is what the shared buffers hold.  A task is a   *)
(* sequence of items (pack one panel, prepare one rectangle of C, multiply *)
(* one macro tile by one depth block); at[t] counts the items a running    *)
(* task has done.  The executor is any that keeps its contract: tasks      *)
(* start in any order, several run at a time, and unless it is the serial  *)
(* one it may give up once nothing runs.                                   *)
(***************************************************************************)
EXTENDS Integers, FiniteSets, Sequences, Slices

CONSTANTS
  M, Mc,            \* rows of C, rows of a macro tile
  N, Nc,            \* columns of C, columns of a macro tile
  Depth,            \* depth blocks
  Width, KStep,     \* columns and depth blocks of one task that packs B
  MaxSide,          \* groups of tiles a task grid has in each dimension; 16
  Workers,          \* tasks the executor runs at a time
  WorkspaceSizes,   \* workspaces a caller may bring; 0 is none
  Alignment         \* of a panel descriptor

ASSUME GridAssumption ==
  /\ {M, Mc, N, Nc, Depth, Width, KStep, MaxSide, Workers, Alignment} \subseteq Nat \ {0}
  /\ WorkspaceSizes \subseteq Nat

VARIABLES
  call,      \* the arguments that matter here: executor, product, beta, workspace
  stage,     \* where the caller is
  c,         \* what has been done to each macro tile
  panels,    \* shared panels packed so far: <<"A", row block, p>>, <<"B", column, p>>
  heap,      \* shared buffers obtained from malloc and not yet freed
  inside,    \* part of the workspace each shared buffer occupies
  fused,     \* are A and B packed by one batch (prepared_a, prepared_b)?
  pending,   \* with fused: which of "A", "B" that batch packs
  todo,      \* tasks of the current batch not started
  at,        \* items done by the tasks that run
  failed,    \* the work's atomic flag
  run_rc,    \* run_rc of the executor entry
  rc         \* the packed entry's status

packedVars ==
  <<call, stage, c, panels, heap, inside, fused, pending, todo, at, failed, run_rc, rc>>

UNAVAILABLE == -1
EXECUTION_ERROR == -2

ceil_div_positive(value, divisor) == value \div divisor + (IF value % divisor # 0 THEN 1 ELSE 0)

RowBlocks == 0 .. ceil_div_positive(M, Mc) - 1
ColBlocks == 0 .. ceil_div_positive(N, Nc) - 1
Tiles == RowBlocks \X ColBlocks
Columns(cb) == cb * Nc .. (IF (cb + 1) * Nc < N THEN (cb + 1) * Nc ELSE N) - 1

---------------------------------------------------------------------------
(* Task grids: sequences of pairs of index ranges.                         *)

\* 0 .. blocks-1 in at most most ranges of equal length, the last one shorter.
Groups(blocks, most) ==
  LET per == ceil_div_positive(blocks, most)
  IN  [x \in 1 .. ceil_div_positive(blocks, per) |->
        (x - 1) * per .. (IF x * per < blocks THEN x * per ELSE blocks) - 1]

Pairs(R, S) ==
  [t \in 1 .. Len(R) * Len(S) |-> <<R[((t - 1) \div Len(S)) + 1], S[((t - 1) % Len(S)) + 1]>>]

split_packed_tasks(rows, cols) == Pairs(Groups(rows, MaxSide), Groups(cols, MaxSide))

\* Columns and depth blocks of each task that packs B.
SharedBTasks ==
  Pairs([x \in 1 .. ceil_div_positive(N, Width) |->
           (x - 1) * Width .. (IF x * Width < N THEN x * Width ELSE N) - 1],
        [x \in 1 .. ceil_div_positive(Depth, KStep) |->
           (x - 1) * KStep + 1 .. (IF x * KStep < Depth THEN x * KStep ELSE Depth)])

---------------------------------------------------------------------------
(* What a task does, item by item.                                         *)

InOrder(S) == [x \in 1 .. Cardinality(S) |-> (CHOOSE f \in S : \A y \in S : f <= y) + x - 1]

sgemm_shared_b_task(t) ==
  LET p == InOrder(t[2]) IN [x \in DOMAIN p |-> <<"B", t[1], p[x]>>]

sgemm_shared_a_task(t) ==
  LET s == Pairs(InOrder(t[1]), InOrder(t[2]))
  IN  [x \in DOMAIN s |-> <<"A", s[x][1], s[x][2] + 1>>]

sgemm_packed_task_fn(t) ==
  LET s == Pairs(InOrder(1 .. Depth), Pairs(InOrder(t[1]), InOrder(t[2])))
  IN  [x \in DOMAIN s |-> <<"tile", s[x][2], s[x][1]>>]

BItems == [x \in DOMAIN SharedBTasks |-> sgemm_shared_b_task(SharedBTasks[x])]
AItems ==
  LET tasks == split_packed_tasks(Cardinality(RowBlocks), Depth)
  IN  [x \in DOMAIN tasks |-> sgemm_shared_a_task(tasks[x])]

\* A mutant: the batch has as many tasks as B's list.
TasksOfB == Len(BItems)

\* The tasks of the batch that packs A and B: as many as the longer list has.
prepared_count == IF Len(AItems) > Len(BItems) THEN Len(AItems) ELSE Len(BItems)

\* Both lists spread over them.
sgemm_shared_ab_task ==
  LET count == prepared_count
      Part(list, i) ==
        LET share == Share(i - 1, Len(list), count)
        IN  IF share = {} THEN <<>> ELSE list[(CHOOSE x \in share : TRUE) + 1]
  IN  [i \in 1 .. count |-> Part(AItems, i) \o Part(BItems, i)]

TileTasks == split_packed_tasks(Cardinality(RowBlocks), Cardinality(ColBlocks))

\* A task prepares its rectangle of C, then multiplies, if there is a product.
Preparing == [x \in DOMAIN TileTasks |-> << <<"prepare", TileTasks[x][1] \X TileTasks[x][2]>> >>]
Computing == [x \in DOMAIN TileTasks |-> Preparing[x] \o sgemm_packed_task_fn(TileTasks[x])]

\* The one thread of the serial entry: all of C, then column by column.
SerialItems ==
  LET s == Pairs(InOrder(ColBlocks), Pairs(InOrder(1 .. Depth), InOrder(RowBlocks)))
  IN  << <<"prepare", Tiles>> >> \o
         [x \in DOMAIN s |-> <<"tile", <<s[x][2][2], s[x][1]>>, s[x][2][1]>>]

\* The tasks of a batch, each the sequence of its items.
Items(kind, product) ==
  IF kind = "packA" THEN AItems
  ELSE IF kind = "packB" THEN BItems
  ELSE IF kind = "packAB" THEN sgemm_shared_ab_task
  ELSE IF kind = "serial" THEN <<SerialItems>>
  ELSE IF product THEN Computing ELSE Preparing

---------------------------------------------------------------------------
(* Shared buffers.  Sizes in elements; a descriptor counts as one.         *)

Slots  == Cardinality(RowBlocks) * Depth
BBytes == N * Depth
ABytes == Slots * Mc
NoSpace == [b \in {"A", "B", "shapes"} |-> {}]

Shares(b) == b \in heap \/ inside[b] # {}

ShapesAtPanels == BBytes      \* a mutant: forgets the panels of A

\* First address of the descriptors, were they put behind the panels of A.
ShapesAt == ceil_div_positive(BBytes + ABytes, Alignment) * Alignment

\* The buffers the entry frees on its way out.
Freed ==
  (IF call.workspace = 0 THEN {"B"} ELSE {}) \cup
  (IF inside["A"] = {} THEN {"A"} ELSE {}) \cup
  (IF inside["shapes"] = {} THEN {"shapes"} ELSE {})

---------------------------------------------------------------------------
Submit(kind) ==
  /\ stage' = kind
  /\ todo' = DOMAIN Items(kind, call.product)
  /\ at' = << >>

Leave(status) ==
  /\ stage' = "returned"
  /\ rc' = status
  /\ todo' = {}
  /\ at' = << >>

(* The executor entry: checks, then the shared panels of B and of A. *)

RefusePacked ==
  /\ stage = "packed"
  /\ Leave(UNAVAILABLE)
  /\ UNCHANGED <<call, c, panels, heap, inside, fused, pending, failed, run_rc>>

RefuseWorkspace ==
  /\ stage = "packed"
  /\ call.workspace # 0
  /\ Leave(EXECUTION_ERROR)
  /\ UNCHANGED <<call, c, panels, heap, inside, fused, pending, failed, run_rc>>

UsesExecutorEntry == call.workspace # 0 \/ call.executor # "serial"

EnterExecutor ==
  /\ stage = "packed"
  /\ UsesExecutorEntry
  /\ \E f \in BOOLEAN : fused' = f
  /\ stage' = "prepareB"
  /\ UNCHANGED <<call, c, panels, heap, inside, pending, todo, at, failed, run_rc, rc>>

PrivateB ==
  /\ stage = "prepareB"
  /\ ~call.product \/ call.workspace = 0
  /\ stage' = "prepareA"
  /\ UNCHANGED <<call, c, panels, heap, inside, fused, pending, todo, at, failed, run_rc, rc>>

NoRoomForB ==
  /\ stage = "prepareB"
  /\ call.product
  /\ call.workspace < BBytes
  /\ run_rc' = -1
  /\ stage' = "release"
  /\ UNCHANGED <<call, c, panels, heap, inside, fused, pending, todo, at, failed, rc>>

ShareB ==
  /\ stage = "prepareB"
  /\ call.product
  /\ \/ /\ call.workspace = 0
        /\ heap' = heap \cup {"B"}
        /\ UNCHANGED inside
     \/ /\ call.workspace >= BBytes
        /\ inside' = [inside EXCEPT !["B"] = 0 .. BBytes - 1]
        /\ UNCHANGED heap
  /\ IF fused
     THEN /\ pending' = pending \cup {"B"}
          /\ stage' = "prepareA"
          /\ UNCHANGED <<todo, at>>
     ELSE /\ Submit("packB")
          /\ UNCHANGED pending
  /\ UNCHANGED <<call, c, panels, fused, failed, run_rc, rc>>

\* The batch that follows the preparation, given what that left pending.
AfterPreparation(left) ==
  Submit(IF left = {"A", "B"} THEN "packAB"
         ELSE IF "A" \in left THEN "packA" ELSE IF "B" \in left THEN "packB" ELSE "tiles")

PrivateA ==
  /\ stage = "prepareA"
  /\ AfterPreparation(pending)
  /\ UNCHANGED <<call, c, panels, heap, inside, fused, pending, failed, run_rc, rc>>

\* Where the panels of A and their descriptors are put: in the workspace if
\* there is room behind the panels of B (for the descriptors only under a
\* policy of the build), else in memory of their own, if there is any.
ShareA ==
  /\ stage = "prepareA"
  /\ call.product
  /\ LET room == inside["B"] # {} /\ BBytes + ABytes <= call.workspace
     IN  \E own \in (IF room THEN {{"shapes"}, {}} ELSE {{"A", "shapes"}}) :
         \E got \in SUBSET own :
           /\ own = {} => ShapesAt + Slots <= call.workspace
           /\ heap' = heap \cup got
           /\ inside' = [inside EXCEPT
                !["A"]      = IF "A" \in own THEN {} ELSE BBytes .. BBytes + ABytes - 1,
                !["shapes"] = IF own = {} THEN ShapesAt .. ShapesAt + Slots - 1 ELSE {}]
           /\ IF got # own
              THEN /\ run_rc' = -1
                   /\ stage' = "release"
                   /\ UNCHANGED <<pending, todo, at>>
              ELSE /\ IF fused
                      THEN /\ pending' = pending \cup {"A"}
                           /\ AfterPreparation(pending')
                      ELSE /\ Submit("packA")
                           /\ UNCHANGED pending
                   /\ UNCHANGED run_rc
  /\ UNCHANGED <<call, c, panels, fused, failed, rc>>

---------------------------------------------------------------------------
(* The batches. *)

packed_can_initialize == call.initialize /\ call.product /\ call.beta = "zero"

\* beta applied to the tiles of a task: what was there is kept only by "other".
Scaled(tiles) ==
  [t \in Tiles |->
    IF t \notin tiles \/ call.beta = "one" THEN c[t]
    ELSE IF call.beta = "zero" THEN <<0>> ELSE Append(c[t], 0)]

\* One depth block added to a tile, the first one overwriting it if it may.
Multiplied(t, p) ==
  [c EXCEPT ![t] = IF p = 1 /\ packed_can_initialize THEN <<0, 1>> ELSE Append(@, p)]

InBatch == stage \in {"packA", "packB", "packAB", "tiles"}
MyItems(t) == Items(stage, call.product)[t]

Start(t) ==
  /\ InBatch
  /\ t \in todo
  /\ Cardinality(DOMAIN at) < Workers
  /\ call.executor = "serial" => DOMAIN at = {} /\ \A u \in todo : t <= u
  /\ todo' = todo \ {t}
  /\ at' = [u \in DOMAIN at \cup {t} |-> IF u = t THEN 0 ELSE at[u]]
  /\ UNCHANGED <<call, stage, c, panels, heap, inside, fused, pending, failed, run_rc, rc>>

Without(t) == [u \in DOMAIN at \ {t} |-> at[u]]
Advanced(t) == IF at[t] + 1 = Len(MyItems(t)) THEN Without(t) ELSE [at EXCEPT ![t] = @ + 1]

\* A running task notices that another one failed and returns; one that packs
\* panels of A does not look.
Abandon(t) ==
  /\ InBatch
  /\ t \in DOMAIN at
  /\ failed
  /\ MyItems(t)[at[t] + 1][1] # "A"
  /\ at' = Without(t)
  /\ UNCHANGED <<call, stage, c, panels, heap, inside, fused, pending, todo, failed, run_rc, rc>>

\* An item that works: the effect on C and on the shared panels.
Perform(item) ==
  \/ /\ item[1] = "A"
     /\ panels' = panels \cup {item} /\ UNCHANGED c
  \/ /\ item[1] = "B"
     /\ panels' = panels \cup {<<"B", j, item[3]>> : j \in item[2]} /\ UNCHANGED c
  \/ /\ item[1] = "prepare"
     /\ c' = (IF packed_can_initialize THEN c ELSE Scaled(item[2])) /\ UNCHANGED panels
  \/ /\ item[1] = "tile"
     /\ c' = Multiplied(item[2], item[3]) /\ UNCHANGED panels

Work(t) ==
  /\ InBatch
  /\ t \in DOMAIN at
  /\ LET item == MyItems(t)[at[t] + 1]
     IN  /\ item[1] # "A" => ~failed
         /\ Perform(item)
  /\ at' = Advanced(t)
  /\ UNCHANGED <<call, stage, heap, inside, fused, pending, todo, failed, run_rc, rc>>

\* malloc of the private panels, the packing of a panel or a tile fails.
Fail(t) ==
  /\ InBatch
  /\ t \in DOMAIN at
  /\ LET item == MyItems(t)[at[t] + 1]
     IN  /\ item[1] = "prepare" => call.product /\ ~(Shares("A") /\ Shares("B"))
         /\ item[1] # "A" => ~failed
         /\ at' = IF item[1] = "A" THEN Advanced(t) ELSE Without(t)
  /\ failed' = TRUE
  /\ UNCHANGED <<call, stage, c, panels, heap, inside, fused, pending, todo, run_rc, rc>>

\* executor->run returns: 0 when every task has, nonzero when it gives up.
Returned(code) ==
  /\ DOMAIN at = {}
  /\ \/ code = 0 /\ todo = {}
     \/ code # 0 /\ call.executor # "serial"

PackingDone ==
  /\ stage \in {"packA", "packB", "packAB"}
  /\ \E code \in {0, -1} :
       /\ Returned(code)
       /\ run_rc' = IF code # 0 \/ failed THEN -1 ELSE 0
  /\ IF run_rc' # 0
     THEN stage' = "release" /\ todo' = {} /\ UNCHANGED at
     ELSE IF stage = "packB" /\ ~fused
          THEN stage' = "prepareA" /\ UNCHANGED <<todo, at>>
          ELSE Submit("tiles")
  /\ UNCHANGED <<call, c, panels, heap, inside, fused, pending, failed, rc>>

TilesDone ==
  /\ stage = "tiles"
  /\ \E code \in {0, -1} : Returned(code) /\ run_rc' = code
  /\ stage' = "release"
  /\ todo' = {}
  /\ UNCHANGED <<call, c, panels, heap, inside, fused, pending, at, failed, rc>>

\* The way out.  A product also fails if the environment requires the vector
\* kernels and some tile had to do without.
Release ==
  /\ stage = "release"
  /\ heap' = heap \ Freed
  /\ \/ Leave(IF run_rc # 0 \/ failed THEN EXECUTION_ERROR ELSE 0)
     \/ call.product /\ Leave(EXECUTION_ERROR)
  /\ panels' = {}
  /\ inside' = NoSpace
  /\ fused' = FALSE
  /\ pending' = {}
  /\ failed' = FALSE
  /\ run_rc' = 0
  /\ UNCHANGED <<call, c>>

(* The serial entry, camblas_[sd]gemm_packed with CAMBLAS_PACKED_REUSE_B. *)

SerialEntry ==
  /\ stage = "packed"
  /\ ~UsesExecutorEntry
  /\ IF call.product
     THEN Submit("serial")
     ELSE /\ c' = Scaled(Tiles)
          /\ Leave(0)
  /\ call.product => UNCHANGED <<c, rc>>
  /\ UNCHANGED <<call, panels, heap, inside, fused, pending, failed, run_rc>>

\* malloc of the two panels fails before C is scaled.
SerialRefuse ==
  /\ stage = "serial"
  /\ todo # {}
  /\ Leave(UNAVAILABLE)
  /\ UNCHANGED <<call, c, panels, heap, inside, fused, pending, failed, run_rc>>

SerialStep ==
  /\ stage = "serial"
  /\ LET done == IF todo # {} THEN 0 ELSE at[1]
     IN  IF done = Len(MyItems(1))
         THEN /\ \E status \in {0, EXECUTION_ERROR} : Leave(status)
              /\ UNCHANGED c
         ELSE /\ Perform(MyItems(1)[done + 1])
              /\ at' = << done + 1 >>
              /\ todo' = {}
              /\ UNCHANGED <<stage, rc>>
  /\ UNCHANGED <<call, panels, heap, inside, fused, pending, failed, run_rc>>

SerialFail ==
  /\ stage = "serial"
  /\ todo = {}
  /\ at[1] < Len(MyItems(1))
  /\ Leave(EXECUTION_ERROR)
  /\ UNCHANGED <<call, c, panels, heap, inside, fused, pending, failed, run_rc>>

PackedNext ==
  \/ RefusePacked \/ RefuseWorkspace \/ EnterExecutor
  \/ PrivateB \/ NoRoomForB \/ ShareB \/ PrivateA \/ ShareA
  \/ \E t \in DOMAIN TileTasks \cup DOMAIN AItems \cup DOMAIN BItems :
       Start(t) \/ Abandon(t) \/ Work(t) \/ Fail(t)
  \/ PackingDone \/ TilesDone \/ Release
  \/ SerialEntry \/ SerialRefuse \/ SerialStep \/ SerialFail
=============================================================================
