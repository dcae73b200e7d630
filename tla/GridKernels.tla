----------------------------- MODULE GridKernels -----------------------------
(***************************************************************************)
(* framework/shared_grid32.h: the two FP32 kernels whose tasks, one per    *)
(* thread of a Rows x Columns grid, pack shared panels of A and B and then *)
(* multiply them.  shared32_task packs everything, passes a one-shot       *)
(* barrier of all threads and computes.  stream32_task does so for one     *)
(* block of the depth at a time; its barrier only waits for the threads of *)
(* the same row and of the same column of the grid, once before and once   *)
(* after each block's products.                                            *)
(*                                                                         *)
(* The executor has started one task on every thread; each has its slice   *)
(* of the output preparation to do first.                                  *)
(***************************************************************************)
EXTENDS Integers, FiniteSets, Slices

CONSTANTS
  Rows,      \* w->rows
  Columns,   \* w->columns
  AGroups,   \* m / 8: micro-panels of A
  BGroups,   \* micro-panels of B in each column group
  Blocks     \* ceil(k / kc): depth blocks of the streaming kernel

ASSUME GridAssumption ==
  {Rows, Columns, AGroups, BGroups, Blocks} \subseteq Nat \ {0}

N       == Rows * Columns
Threads == 0 .. N - 1
Row(t)    == t % Rows
Column(t) == t \div Rows

VARIABLES
  kernel,      \* "shared" or "stream"
  pc,          \* where each thread is in its task
  block,       \* the depth block each thread is at, from 1
  half,        \* which barrier of the block comes next: 1 arrival, 2 completion
  aVersion,    \* the block each panel of A holds, 0 before it is packed
  bVersion,    \* the same for the panels of B of each column group
  ready,       \* shared32_work_t.ready
  rowReady,    \* stream32_work_t.row_ready
  columnReady  \* stream32_work_t.column_ready

panelVars == <<aVersion, bVersion>>
counterVars == <<ready, rowReady, columnReady>>
vars == <<kernel, pc, block, half, panelVars, counterVars>>

Init ==
  /\ kernel \in {"shared", "stream"}
  /\ pc = [t \in Threads |-> "touch"]
  /\ block = [t \in Threads |-> 1] /\ half = [t \in Threads |-> 1]
  /\ aVersion = [g \in 0 .. AGroups - 1 |-> 0]
  /\ bVersion = [c \in 0 .. Columns - 1 |-> [g \in 0 .. BGroups - 1 |-> 0]]
  /\ ready = 0
  /\ rowReady = [r \in 0 .. Rows - 1 |-> 0]
  /\ columnReady = [c \in 0 .. Columns - 1 |-> 0]

Goto(t, to) == pc' = [pc EXCEPT ![t] = to]
-----------------------------------------------------------------------------
(* Which panels a thread reads, and which it packs                         *)

AReads(t) == Share(Row(t), AGroups, Rows)

\* The streaming kernel deals the panels of a row out to the row's threads,
\* the shared one all panels to all threads.
APacks(t) ==
  IF kernel = "shared" THEN Share(t, AGroups, N)
  ELSE LET first == ShareFrom(Row(t), AGroups, Rows)
           count == ShareFrom(Row(t) + 1, AGroups, Rows) - first
       IN  {first + g : g \in Share(Column(t), count, Columns)}

BPacks(t) == Share(Row(t), BGroups, Rows)

\* How many blocks the kernel's task loops over.
Passes == IF kernel = "shared" THEN 1 ELSE Blocks
-----------------------------------------------------------------------------
TouchSlice(t) ==
  /\ pc[t] = "touch"
  /\ Goto(t, "pack")
  /\ UNCHANGED <<kernel, block, half, panelVars, counterVars>>

Pack(t) ==
  /\ pc[t] = "pack"
  /\ aVersion' = [g \in DOMAIN aVersion |-> IF g \in APacks(t) THEN block[t] ELSE aVersion[g]]
  /\ bVersion' = [bVersion EXCEPT ![Column(t)] =
                    [g \in DOMAIN @ |-> IF g \in BPacks(t) THEN block[t] ELSE @[g]]]
  /\ Goto(t, "arrive")
  /\ UNCHANGED <<kernel, block, half, counterVars>>

\* atomic_fetch_add(&w->ready) and the loop after it.
ArriveShared(t) ==
  /\ kernel = "shared" /\ pc[t] = "arrive"
  /\ ready' = ready + 1
  /\ Goto(t, "await")
  /\ UNCHANGED <<kernel, block, half, panelVars, rowReady, columnReady>>

ReadyOneEarly == ready >= N - 1
AllReady == ready = N
PassShared(t) ==
  /\ kernel = "shared" /\ pc[t] = "await" /\ AllReady
  /\ Goto(t, "compute")
  /\ UNCHANGED <<kernel, block, half, panelVars, counterVars>>

\* stream32_barrier, with phase counting two barriers for every block.
Phase(t) == 2 * (block[t] - 1) + half[t]

ArriveRow(t) ==
  /\ kernel = "stream" /\ pc[t] = "arrive"
  /\ rowReady' = [rowReady EXCEPT ![Row(t)] = @ + 1]
  /\ Goto(t, "arrive column")
  /\ UNCHANGED <<kernel, block, half, panelVars, ready, columnReady>>

ArriveColumn(t) ==
  /\ pc[t] = "arrive column"
  /\ columnReady' = [columnReady EXCEPT ![Column(t)] = @ + 1]
  /\ Goto(t, "await row")
  /\ UNCHANGED <<kernel, block, half, panelVars, ready, rowReady>>

RowOfBlockReady(t) == rowReady[Row(t)] >= Columns * block[t]
RowReady(t) == rowReady[Row(t)] >= Columns * Phase(t)

AwaitRow(t) ==
  /\ pc[t] = "await row" /\ RowReady(t)
  /\ Goto(t, "await column")
  /\ UNCHANGED <<kernel, block, half, panelVars, counterVars>>

ColumnNeverReady(t) == columnReady[Column(t)] >= Rows * (Phase(t) + 1)
ColumnReady(t) == columnReady[Column(t)] >= Rows * Phase(t)

\* After the arrival barrier the products, after the completion barrier the
\* next block.
AwaitColumn(t) ==
  /\ pc[t] = "await column" /\ ColumnReady(t)
  /\ \/ /\ half[t] = 1
        /\ Goto(t, "compute")
        /\ UNCHANGED <<block, half>>
     \/ /\ half[t] = 2 /\ block[t] < Passes
        /\ Goto(t, "pack")
        /\ block' = [block EXCEPT ![t] = @ + 1] /\ half' = [half EXCEPT ![t] = 1]
     \/ /\ half[t] = 2 /\ block[t] = Passes
        /\ Goto(t, "done")
        /\ UNCHANGED <<block, half>>
  /\ UNCHANGED <<kernel, panelVars, counterVars>>

Compute(t) ==
  /\ pc[t] = "compute"
  /\ Goto(t, IF kernel = "shared" THEN "done" ELSE "arrive")
  /\ half' = [half EXCEPT ![t] = 2]
  /\ UNCHANGED <<kernel, block, panelVars, counterVars>>

Step(t) ==
  \/ TouchSlice(t) \/ Pack(t) \/ ArriveShared(t) \/ PassShared(t)
  \/ ArriveRow(t) \/ ArriveColumn(t) \/ AwaitRow(t) \/ AwaitColumn(t) \/ Compute(t)

\* The executor returns once every task has.
Terminated ==
  /\ \A t \in Threads : pc[t] = "done"
  /\ UNCHANGED vars

Next == Terminated \/ \E t \in Threads : Step(t)

\* Every task runs on a thread of its own, so each is scheduled.
Fairness == \A t \in Threads : WF_vars(Step(t))

Spec == Init /\ [][Next]_vars
FairSpec == Spec /\ Fairness
-----------------------------------------------------------------------------
(* Properties                                                              *)

\* Types of every variable; the counters never exceed what the threads add.
TypeOK ==
  /\ kernel \in {"shared", "stream"}
  /\ pc \in [Threads -> {"touch", "pack", "arrive", "await", "arrive column", "await row",
                         "await column", "compute", "done"}]
  /\ block \in [Threads -> 1 .. Blocks] /\ half \in [Threads -> {1, 2}]
  /\ aVersion \in [0 .. AGroups - 1 -> 0 .. Blocks]
  /\ bVersion \in [0 .. Columns - 1 -> [0 .. BGroups - 1 -> 0 .. Blocks]]
  /\ ready \in 0 .. N
  /\ rowReady \in [0 .. Rows - 1 -> 0 .. 2 * Blocks * Columns]
  /\ columnReady \in [0 .. Columns - 1 -> 0 .. 2 * Blocks * Rows]

\* A thread multiplies only panels that hold the block it is at, although it
\* packed few of them itself and the streaming barrier waits for some of the
\* threads only.
ReadsPackedPanels ==
  \A t \in Threads : pc[t] = "compute" =>
    /\ \A g \in AReads(t) : aVersion[g] = block[t]
    /\ \A g \in 0 .. BGroups - 1 : bVersion[Column(t)][g] = block[t]

\* No panel is being packed while another thread multiplies it: all products
\* of a block are finished before any of its panels is overwritten.
NoPanelOverwritten ==
  \A t, u \in Threads : pc[t] = "compute" /\ pc[u] = "pack" =>
    /\ AReads(t) \intersect APacks(u) = {}
    /\ Column(t) = Column(u) => BPacks(u) = {}

\* Two threads never pack the same panel at once, nor is any left out.
OnePacker ==
  /\ \A g \in 0 .. AGroups - 1 : \E t \in Threads :
       \A u \in Threads : g \in APacks(u) <=> u = t
  /\ \A c \in 0 .. Columns - 1, g \in 0 .. BGroups - 1 : \E t \in Threads :
       \A u \in Threads : Column(u) = c /\ g \in BPacks(u) <=> u = t

\* The one-shot barrier orders the preparation of the output pages before the
\* first write of C.
TouchBeforeShared ==
  kernel = "shared" =>
    \A t, u \in Threads : pc[t] \in {"compute", "done"} => pc[u] # "touch"

\* Every thread gets through every barrier.
AllFinish == <>(\A t \in Threads : pc[t] = "done")
=============================================================================
