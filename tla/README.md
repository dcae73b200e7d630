# CAMBLAS in TLA+

A verification project for CAMBLAS, a BLAS library for Arm servers (GEMM and SYRK in FP32 and FP64,
a CUDA backend and bridges to PyTorch and SGLang). This directory models the library's control: who
runs which task when, what is shared between threads, and in which order. Floating-point values are
abstracted to what the properties tell apart ("computed" or not, "which depth block a packed panel
holds", small integers where a sum of products has to come out). Paths below are relative to the
repository root.

## The system

| part | state it keeps | operations | talks to |
|------|----------------|------------|----------|
| executor contract (`include/camblas_executor.h`), serial executor (`src/executor.c`) | none | `run(fn, tasks, n)` | called by every GEMM path |
| pthread pool (`src/pthread_pool.c`) | mutexes `submit` and `state`, two condition variables, generation, claim counter, published batch | create, run, worker loop, destroy | implements the executor |
| spin pool (`framework/framework_blas_bridge.c`) | `spin_gen`, acknowledgement slots, the published batch in globals, pending output preparation | start, run, helper loop with futex, stop | implements the executor for 64-thread bridges |
| OpenMP executor and team (same file) | `active_team`, the team's published batch, OpenMP barriers | `framework_omp_run`, `framework_team_call`, `framework_team_exchange` | implements the executor for the other bridges |
| shared-grid kernels (`framework/shared_grid32.h`) | shared packed panels, `ready`, row and column counters | `shared32_task`, `stream32_task`, their execute functions | run by the two bridge executors, one task per thread |
| bridge front end (`framework/framework_blas_bridge.c`) | `gemm_mutex`, context, workspaces, counters | initialise, GEMM routing, SYRK, release | everything above |
| planned GEMM (`src/scalar.c`, `src/gemm_bounds.h`) | none between calls | validate, plan, packed / unpacked / scalar routes | planner, packed GEMM, executor |
| planner (`src/planner.c`) | none | `camblas_plan_make` | topology |
| packed GEMM (`src/packed.c`, `src/packed_grid.h`, `src/packing.c`) | caller's workspace | grids of tasks, shared packed B, private packing | executor, micro-kernels |
| CBLAS shim (`src/cblas_shim.c`) | a thread-local error number | argument checks and translation | planned GEMM |
| rectangular Strassen (`src/rectangular32.c`, `src/rectangular64.c`) | the caller's scratch or segments | pack seven pairs of factors, multiply, recombine, per slab of the depth | executor |
| one- and two-level Strassen (`framework/strassen_one_level.h`) | the bridge's scratch planes | sums, seven sub-products one after the other, recombination | planned GEMM, executor |
| symmetric products (`src/symmetric/symmetric.c`) | the bridge's workspace | pack each block once as a left and a right panel, compute the block pairs on and above the diagonal | executor |
| topology (`src/topology.c`) | the discovered record | discover | sysfs, planner |
| CUDA backend (`src/cuda/backend.cu` and the files it includes) | contexts: scratch arena, cuBLASLt workspace, range guard, plan cache, retired allocations | GEMM by several algorithms, fused and quantised operators, create, destroy | CUDA runtime, cuBLAS |
| PyTorch bindings (`src/cuda/torch_bindings.cpp`) | thread-local handles, the registry of contexts | every operator on device tensors and host memory, `close()`, thread exit | CUDA backend, PyTorch's allocator |
| Python layers (`camblas/*.py`) | caches of modules and weights | dispatch to the bindings | PyTorch bindings, SGLang |

What is hard in it: three executors with different synchronisation (a mutex and condition
variables; one atomic generation and a futex; OpenMP barriers), all of them publishing a batch in
plain fields that other threads read outside any lock; kernels whose tasks wait for each other;
an output preparation that writes into C ahead of the computation; fall-backs that may be taken
only before C has been written; workspaces and caches reused across calls of other shapes; a
process that forks; a topology that changes while it is being read; a device that runs behind the
host, on memory the host may want to replace, and graphs that keep pointers to it for later.
`PROJECT.json` lists each such point with its line under "hazards".

What makes each part correct: every executor runs each task exactly once and returns only then;
a batch's fields are stable while anyone can read them; every wait ends; no panel is read before
it is packed or repacked while it is read; C holds the computed product when a GEMM returns, also
when the product was assembled from seven others; a buffer is as large as the call that uses it
needs; a plan fits the machine it was made for; a kernel finds its operands where the call left
them, whenever the device gets to it.

## Modules

| module | models |
|--------|--------|
| `Executor` | the contract of `run()`, as an abstract specification: calls begin, tasks complete in any order and grouping, calls return 0 or -1 |
| `PthreadPool` | `src/pthread_pool.c`, all of it |
| `PthreadPool_proofs` | the pool's inductive invariant, safety theorems and refinement |
| `Slices` | how an index range is dealt out: contiguous slices (executors) and proportional shares (grid kernels) |
| `Slices_proofs` | slices and shares partition their range |
| `SpinPool` | the spin pool with the GEMM around it as far as batches and output preparation go |
| `SpinPool_proofs` | its inductive invariant, safety theorems and refinement |
| `OmpTeam` | the OpenMP executor and team with the same GEMM around it, and grid kernels that decline |
| `OmpTeam_proofs` | its inductive invariant, safety theorems and refinement |
| `GridKernels` | the two shared-grid kernels |
| `GridKernels_proofs` | their inductive invariant and safety theorems |
| `Gemm` | what one GEMM call promises about C, as an abstract specification |
| `PackedGemm` | `src/packed.c`: the packed GEMM's serial and executor entries |
| `PlannedGemm` | one call of the planned GEMM, `src/scalar.c`; it extends `PackedGemm` with the routes around it |
| `PlannedGemm_proofs` | its inductive invariant, safety theorems and refinement |
| `SevenProducts` | the coefficients of the seven products and their recombination, shared by the next modules |
| `BilinearCall` | one call of one of these algorithms: operands in memory, status, range verdict, what it owes |
| `Rectangular` | `src/rectangular32.c` and `src/rectangular64.c`, address by address |
| `Strassen` | `framework/strassen_one_level.h`, address by address, with its recursion |
| `Symmetric` | `src/symmetric/symmetric.c`, address by address |
| `Bilinear` | the three routes side by side |
| `Routes` | which route of the bridge takes a GEMM, and the size of the memory each needs |
| `Bridge` | the bridge's entry points, initialisation, mutex, buffers, output preparation, SYRK, fork, destructor |
| `Bridge_proofs` | its inductive invariant; preparations, results, forked children, and the memory the bridge keeps and lends out |
| `Planner` | `src/planner.c` and the task grid of `src/packed_grid.h`, as operators |
| `Topology` | `src/topology.c` read by read, and the plans made from what it found |
| `CudaStream` | the CUDA runtime as the backend uses it: memory, one stream, one graph (external) |
| `CudaContext` | the CUDA backend: contexts, and every operation as a program of launches and reservations |
| `TorchBindings` | the PyTorch bindings, with the threads and the application around them |
| `TorchBindings_proofs` | its inductive invariant; who has each context and each block, and what a capture may execute |
| `MC...` | the instances TLC checks |

`PthreadPool`, `SpinPool` and `OmpTeam` each instantiate `Executor` with a refinement mapping of
its four variables and have it as a property. `PlannedGemm` does the same with `Gemm`. The other
compositions are by extension: `PlannedGemm` of `PackedGemm`, `Bilinear` of the three algorithms,
`Bridge` of `Routes`, `Topology` of `Planner`, `TorchBindings` of `CudaContext` and that of
`CudaStream`. An executor is a module of its own once, and its contract (one batch, in any order,
that may fail) in the modules of the algorithms that run on it.

Where a module has a definition `TypeOK` that is in no configuration, it is there for the proofs of
that module.

### PthreadPool

A critical section of the mutex `state` is one step. That is exact: the mutex is released only at
its end or in `pthread_cond_wait`, and no other thread can see the middle of it. What a worker does
outside of it is modelled one access at a time: `Claim` (the atomic add), `EnterTask` /
`LeaveBatch` (the read of `n_tasks`), `LeaveTask` (fn returns). `LeaveTask` counts the invocation
against the batch that is published at that moment, so a worker that ran on after its batch had
been retired would be seen running someone else's task. Condition variables are sets of sleeping
threads; sleepers may wake without a signal. With `Spins` the end of a batch and the head of the
worker's loop are two critical sections (`CAMBLAS_PTHREAD_SPINS > 0`), otherwise one. Creation
can fail after any number of workers. `Destroy` requires what `include/camblas_pthread.h` asks of
the caller: no submission in progress.

### SpinPool

There is one caller at a time because `gemm_mutex` is held around a GEMM; it is thread 0 and also
runs a slice. Every access to `spin_gen` and to an acknowledgement slot is a step. `FutexWait`
compares and sleeps in one step, as the kernel does; `Timeout` covers the one-second timeout, a
signal, and a spurious return. The polling window is abstracted: a helper may stop polling at any
time. A GEMM is "direct" (one batch, which computes C) or "packed" (a packing batch first); with
beta = 0 its first batch may carry the output preparation. `cells` holds the byte of each column
that the preparation stores into: "stale" when the GEMM starts, "zero" after the preparation,
"value" after the task that owns the row has computed it. The fence at the end of a GEMM is an
empty batch.

### OmpTeam

`Fork` grants any team size from one to the requested one, as OpenMP may. Each `#pragma omp
barrier` is an arrival (`Arrive...`) and a passage (`Pass...`) that requires every member to have
arrived as often. The middle barrier is taken only if the published batch has a preparation, as in
the code. Batches without a team (below 16 threads, Strassen, the caller's own parallel region)
run in one step, `RunAlone`, because the work-sharing loops of that region end in barriers.

### GridKernels

A thread packs all its panels in one step and multiplies in one step, but both last as long as
control stays there: `pc = "pack"` is the state in which it may be writing its panels and
`pc = "compute"` the one in which it is reading others'. Panels carry the depth block they hold.
The barriers' counters are stepped exactly as in `stream32_barrier`: add to the row counter, add
to the column counter, wait for the row, wait for the column.

### Gemm, PackedGemm, PlannedGemm

C is cut into the macro tiles of the packed GEMM, and `c[t]` lists what has been done to tile t: 0
for beta, then one entry per depth block. `Gemm` says that this list only moves forward along one
fixed list, and that a call which returns 0 has reached its end for every tile. So a second route
that starts over, a beta applied twice, a depth block skipped, repeated or added out of order (the
sum would be rounded differently), and a success reported early all violate the refinement, by
whichever interleaving of tasks they come about.

A call's arguments are reduced to what the control depends on: valid or not, the kernel the
planner selects or its refusal, the executor (invalid, the serial one, or a pool), whether C is
empty, whether there is a product, the kind of beta, whether the build may overwrite C with the first
product, and the size of the workspace. Which kernel the planner selects is not computed here;
every plan that is possible for the arguments is tried. Choices that depend on build options or
on sizes too large for the model (shared or private panels of A and B, one fused packing batch or two,
descriptors in the workspace or not) are nondeterministic, so the model covers every build.

Tasks are sequences of items, in the code's loop order: pack one panel, prepare one rectangle of C,
multiply one macro tile by one depth block. Each item may fail (no memory, a packing error), which
sets the shared flag that the other tasks read. The executor is the contract with at most `Workers`
tasks running at once: any order, and it may return an error with tasks left. Two items of different
tasks never write the same tile or panel, so an item is one step.

`inside` is the part of the caller's workspace each shared buffer takes, `heap` the buffers that
have been allocated; sizes are in elements. The FP32 and FP64 routines are the same control (only
FP32 fuses packing and may put descriptors in the workspace); `PROJECT.json` maps most definitions
to the FP32 routine and some to its FP64 counterpart.

### SevenProducts, BilinearCall, Rectangular, Strassen, Symmetric, Bilinear

Here the question is whether an element of C receives exactly its sum of products. In the Strassen
routes all steps are linear in A and linear in B, so it is enough to look at operands with one non-zero column of A and
one non-zero row of B, for each choice of the two: the integers in them (distinct primes) show
which product reached which element with which coefficient. Memory is a function from addresses to
integers, addresses are computed as the code computes them, and memory nobody has written holds
`Garbage`. Other initial operands hold one infinite element, for the range verdict.

`Rectangular` is a loop of stages: pack, verdict, multiply, and recombine after the last slab. A
stage is one batch of the executor, so it is one step here, and `OneWriter` says why that is sound:
the tasks write disjoint addresses, and leave none out. Block sizes, vector lengths and thread thresholds are constants, which
scales the code's choices (streaming, fused packing of B, the wide depth block, NEON kernels that
store whole vectors) down to matrices of 2 to 12. A batch may fail at each stage, at the last one
after some of its tasks have stored.

`Strassen` keeps the stack of active `strassen_execute` calls, the planes each one carves out of
the one allocation, and operands as references into A, B or that allocation. The build variants
(ordinary sums, Winograd's, sums fused into the sub-GEMM) are part of the call. A sub-product is the
planned GEMM, one step. A scratch allocation that is too small is rejected before anything is
computed.

`Symmetric` is quadratic in its operand, which therefore has two non-zero columns with different
numbers, so that a product across them would show. A block pair is computed from the panels through
the kernels' own index function and scattered in two passes, as in the code: with both triangles the
second pass sees what the first one stored, so a diagonal element visited twice has beta applied
twice. What a kernel is not asked to compute (`Height`) holds `Garbage`. Build options (balanced
groups, diagonal strips, padded left panels, the 12-column kernel) are part of the call.

### Routes, Bridge

`Routes` translates the `try_*` functions, as predicates of the call and the build, and the sizes
of the memory they ask for. `Bridge` runs threads of an application through the entry points:
`pthread_once`, argument checks, `gemm_mutex`, the routes in the code's order, each of which may
decline or run out of memory, and the way out. A route's computation is two steps: its first batch,
which consumes a pending output preparation, and the one that writes C. C is two triangles, since
that is what SYRK distinguishes. Buffers are blocks of a heap with sizes, so that a capacity
recorded for a freed or smaller block shows. An allocation may fail at any time, and does when no
block of the heap is free. `Fork` continues in the child: the forking thread is the only one, the
helpers of the pools are gone, the state is the parent's. `release_resources` is the destructor,
which runs when no call is in progress.

### Planner, Topology

`Planner` has `camblas_plan_make` with its validation, decision table and block policies, and the
search for the task grid, for a build given as a record of its macros. `Topology` does one read per
step, in the order of `camblas_topology_discover`, while `SystemChanges` moves the allowed and
online CPUs between any two of them. A file is what it says (ranges of CPUs, lines as records, a
marker for malformed text), and any read may fail or be truncated. When the discovery is done any
of the planner calls of the instance is made on the snapshot.

### CudaStream, CudaContext, TorchBindings

The floating-point work of a kernel is left out; what stays is which memory it reads and writes. A
block of device memory is a set of tags <<call, layout, region, value>>. A kernel reads tags and
leaves tags; writing under one layout destroys those of another call or another layout. So a
pointer that is stale, a launch that is missing, a wait that is not made, or an arena handed to two
users makes a kernel read a tag that is not there (`OperandsFound`).

A call is a program, the list of its launches, reservations, waits and branches in the code's order;
`ContextStep` executes one instruction of one thread, while `Device` runs the stream behind it.
Reserving arena or workspace may find it large enough, grow it after a wait, or retire the old block
because a graph may refer to it. During a capture commands go to the graph. Any CUDA call that can
fail may, within `MaxFaults`.

`TorchBindings` adds what is around a call: the thread-local handles for device and host calls,
registration, the tensors' return to the allocator in stream order, thread exit, and `close()`,
which must take the contexts out of the handles of every thread. The application is a script for
each thread of calls, captures, replays and `close()`. What it may do follows the contract in
`include/camblas_cuda.h` (lines 25 to 36): a capture begins and ends with no call in progress, graphs are
destroyed before their contexts, `close()` is called while callers are idle.

`Applications` is any set of scripts whose calls are written with the instructions that the
operations of the module use (`IsTurn`): launches, products, products of cuBLASLt with what follows
them, and reservations with the code that needs them. TLC evaluates this assumption on the
applications of the run. Blocks are bounded: what needs more of them than are free waits (`Room`),
which never happens in the run.

Abstractions: one stream and at most one graph in a behaviour; tuning candidates are collapsed to
one, and failing tries are skipped; a plan's key has the sizes, transpositions and what follows the
product, the leading dimensions and alignments being those the sizes give; sizes are in units of
1024 elements, rounded up, so that nothing reserved is empty. Only the operands a call on device
tensors is given are taken to be there: all that it reserves or writes itself has to be found. Left
out: the early return for alpha = 0 and beta = 1, failures of `DeviceScope`, counters and error
texts, argument rejections, a forked child, `torch_backend.cuh`, and the autograd node of `affine`.

## Runs

| run | shows | bounds |
|-----|-------|--------|
| `pthread_pool` | exactly-once execution, stable batches, no lost wake-up, shutdown | 2 workers, 2 callers, one call each with -1 to 3 tasks, one nested call per task, claim counter up to 4 |
| `spin_pool` | executor contract, expired batches never run, packed GEMMs leave C computed, shutdown | caller and 2 helpers, 2 columns, 3 batches of 2 or 4 tasks, generations up to 7 |
| `spin_touch_race` | (violation) a GEMM whose only batch prepares and computes can return a zeroed element | as above |
| `spin_gen_wrap` | (violation) a wrapped generation stops the pool for ever | generations up to 1 |
| `omp_team` | matching barriers, published batches not rewritten while read, C computed, every GEMM ends | 3 threads, teams of 1 to 3, 3 batches of 0, 2 or 3 tasks, 2 columns |
| `team_decline` | (violation) declining a smaller team aborts instead of falling through | one batch |
| `grid_kernels` | panels packed before they are read, never repacked while read, dealt out once, no deadlock | 3 x 2 grid, 5 panels of A, 4 of B per column group, 2 depth blocks |
| `planned_gemm` | one route writes C, in order and once, whatever fails; shared panels complete before use; nothing leaked, no overlap in the workspace; no call gets stuck (deadlock is checked) | 3 x 2 macro tiles in 4 tasks (two of them two tiles), 2 depth blocks, 2 tasks at a time, 5 workspace sizes |
| `bilinear` | the seven products add up to A * B and to nothing else, a symmetric product reaches each owed element once and with beta once, C is untouched until the last batch, tasks write disjoint addresses, the fused range check decides like a separate scan, a child keeps its parent's planes | 13 rectangular calls of sizes 2 to 12 on 1 to 4 workers, 6 Strassen calls of sizes 4 to 8, 7 symmetric calls of sizes 2 to 13, block constants scaled down (see the configuration) |
| `bridge` | kept buffers are live and large enough, a call delivers the triangles it owes, a preparation is consumed by its own call, a forked child stops, every call ends | 2 threads, 2 calls, 8 heap blocks, 9 scenarios: production with 16 and 64 threads, PyTorch, no teams, experimental routes, plain OpenMP, vendor backend |
| `topology` | the planner accepts a snapshot exactly when no fatal status is set, plans fit the snapshot | 64 CPUs, 2 nodes at most, masks up to 256, 2 changes of the system, 5 node directories, planner calls on the reference, grace and opt-in builds |
| `cuda` | kernels find their operands in allocated memory, captures stay legal, contexts and handles agree and are destroyed once | 40 applications on 2 threads, 4 contexts, 16 blocks, one fault, at most 4 commands ahead of the device |

Two workers and two callers are enough for a worker to lag behind while the other finishes the
batch and the second caller publishes the next one, and for both callers to contend. Three tasks
with two workers give claims past the end, and `IntMax` = 4 puts the largest batch out of range.
Three threads in the bridge's executors give slices of different lengths, threads without a task,
and two others that are at different places. Three batches are a packed GEMM followed by the first
batch of another one. In the 3 x 2 grid rows and columns have different lengths, a thread shares
neither with two of the others, and there are fewer panels of A than threads; two blocks are the
first repacking. In `planned_gemm` rows and columns leave a remainder in every split, the two task
lists of the fused batch differ in length (4 and 3), two depth blocks are the first at which order
matters and direct initialisation differs from adding, and the workspace sizes are none, one element
too few for B, and room for B, for B and A, and for the descriptors too.

In `bilinear` the sizes leave partial tiles in each direction, one and several depth blocks, and one
and several slabs, in both layouts and both kernels; n = 8 is the smallest size at which the second
level of Strassen still has a sub-product of more than one element. The symmetric calls have up to
three blocks of rows, the last one partial, so there are six block pairs for up to four groups. Two calls in `bridge` are what
it takes for one to grow a buffer the other reuses, or to consume the other's preparation; eight
blocks are enough for everything two calls allocate, so that a full heap takes nothing away from
the run. In `topology` the two changes can undo each other, so the
first and the last read may agree while one between them does not; the third node and the CPUs from
64 on exceed the capacities, and a mask of 1024 exceeds the cap; `INT64_MAX` is 2^31 - 1, since TLC's
integers have 32 bits, and the sizes of the planner calls reach it. CPUs do not move between nodes. In
`cuda` every operation is called, captured, called in a capture, replayed and closed; the sequences
grow the arena and the workspace before, in and after a capture, the backward pass with partial bias
gradients in the arena is captured without and with a call before it, and products with a bias alone
and with bias and ReLU have plans of their own; two threads are the caller and
PyTorch's autograd worker. One fault anywhere reaches every failure path, and two contexts for each
of two threads is the most there can be.

### Fairness

Weak fairness of each thread's steps: threads that can run are scheduled, and a mutex that stays
free is taken. With one call per submitter nobody can be overtaken for ever, so this is enough for
`submit`. Nothing is assumed about callers submitting, the application destroying the pool,
spurious wake-ups, or futex timeouts: liveness must not depend on them. `Bridge` assumes that a
thread that can go on does, as long as the process runs; with two calls in all nobody is overtaken
for ever at `gemm_mutex`. The other modules state no fairness: their calls cannot get stuck, by the
deadlock check (`planned_gemm`, `topology`, `cuda`; `bilinear` really stops when a call has returned).

## What the checks found

1. `spin_execute_slice` has no barrier between the preparation slice and the task slice. When the
   first batch of a GEMM with beta = 0 already computes C (an unpacked kernel whose tasks are rows),
   a slow helper's zero byte can land on a computed element. The OpenMP executor has a barrier at
   this place. The streaming kernel has the same exposure on the spin pool, since its barrier does
   not join all threads; the one-shot kernel does not (`TouchBeforeShared`).
2. `spin_gen` is an `int` and negative values mean shutdown: after 2^31 - 1 batches the helpers of
   a wrapping build leave and the caller spins for ever.
3. The grid kernels decline a smaller OpenMP team, but `framework_team_call` then reports that
   team as an error, and the process aborts before the next route is tried.

## What is proved

Each module of proofs has an inductive invariant (`IInv`; `MInv` on top of it for the bridge's
buffers), one lemma per action that the action preserves it, the theorem that it holds in every
reachable state, and the properties that follow. TLC has checked each invariant on the module's
run before it was proved.

| module | theorems | what they say |
|--------|----------|---------------|
| `PthreadPool_proofs` | `InvariantHolds`, `TypeCorrect`, `RunsExactlyOnce`, `BatchStaysPublished`, `ClaimCounterFits`, `WakeupsAreNotLost`, `PoolIsExecutor` | the safety properties of the run `pthread_pool`, and that the pool implements `Executor` |
| `Slices_proofs` | `SlicesDisjoint`, `SlicesCover`, `SharesDisjoint`, `SharesCover` | the two ways of dealing out a range are partitions of it |
| `SpinPool_proofs` | `InvariantHolds`, `TypeCorrect`, `OnlyLiveBatchesRead`, `PackedGemmsComputed`, `PoolIsExecutor` | helpers run only live batches; a packed GEMM leaves C computed; the pool implements `Executor` |
| `OmpTeam_proofs` | `InvariantHolds`, `TypeCorrect`, `BarriersMatch`, `GemmsComputed`, `TeamFieldsUnread`, `TeamIsExecutor` | members meet the same barriers; C is computed; the master rewrites the batch only when nobody reads it; the team implements `Executor` |
| `GridKernels_proofs` | `InvariantHolds`, `TypeCorrect`, `OnlyPackedPanelsRead`, `PanelsKeptWhileRead`, `PanelsDealtOut`, `PagesTouchedFirst` | the order of packing, products and repacking, and who packs what |
| `PlannedGemm_proofs` | `InvariantHolds`, `TypeCorrect`, `PanelsPacked`, `WorkspaceIsKept`, `KeepsPromise` | panels are packed before use; the workspace is divided and given back; a call implements `Gemm` |
| `Bridge_proofs` | `InvariantHolds`, `TouchesOwnCall`, `ChildStops`, `CallsDeliver`, `MemoryOwned`, `BuffersStayKept` | a preparation is the running call's; a forked child stops; a call delivers the triangles it owes; every block has one owner, every route room enough |
| `TorchBindings_proofs` | `InvariantHolds`, `HandlesStayLive`, `CapturesStayLegal` | registered contexts live, are destroyed once and never under a call; every allocation has an owner; nothing breaks a capture |

### Assumptions

* Pthread pool: workers are a non-empty finite set, disjoint from callers (`ThreadsAssumption`);
  sizes are a finite set of integers, and the number of workers is at most INT_MAX; the code bounds
  it by CPU_SETSIZE (`SizesAssumption`). With and without polling, for every nesting.
* Spin pool (`SpinAssumption`): at least two threads, as the bridge starts no pool for one; sizes
  are natural numbers and 0 is one of them, since the fence is a batch of nothing. The limit of the
  generation is any number: the theorems hold across the point where it turns negative.
* OpenMP team (`TeamAssumption`): at least one thread; the size of the team is a size that occurs,
  since that is what a grid kernel submits.
* Grid kernels (`GridAssumption`): rows, columns, panels per group and depth blocks are positive.
* Planned GEMM (`GridAssumption`, `MaxRowTasksAssumption`): sizes of the matrices, blocks, steps
  and the alignment are positive, and so are the limits on tasks and workers. That C is empty, or
  that there is no product, is a field of the call. Workspace sizes are any natural numbers.
* Bridge (`BridgeAssumption`): block addresses are positive, every call of every scenario has
  arguments of the C types, and `None` is none of the values it is compared with. Nothing is
  assumed of builds, sizes or the number of threads and calls.
* PyTorch bindings (`ApplicationsAssumption`, and those of the modules below it): every thread has a
  script, and every call in it is a program of the instructions above; blocks are positive
  numbers, and contexts are numbered up to some bound. Nothing is assumed of the order of calls,
  captures, `close()` and thread ends, nor of the sizes, algorithms and routes.

### Why the invariants look as they do

None of the properties is inductive alone: they speak of the end of a call, or of two threads at
once, and so the invariants say what is true in between.

Pthread pool. `ClaimInv` relates each claimed index to the one worker that holds it, and its run
count to whether it is claimed and no longer held. By `CountInv`, `remaining` is the number of
workers that have yet to see the batch or are still in it, so that 0 leaves nobody in it, and a
caller sleeps only while there is somebody to wake it. By `RoomInv` every worker oversteps the end
of a batch at most once, which bounds the claim counter. By `SubmitInv` only the holder of `submit`
publishes. `LifeInv` is for creation and destruction, and has no worker asleep that has a batch to
take or a pool to leave; `CallInv` for what each call has run so far.

Spin pool. The generation is all that ties the helpers to the batch. `GenInv` has the handshake: a
helper in its slice has seen the current generation and has not acknowledged it, and the caller is
then still between the release and its last wait. Hence nobody is in a slice when the caller
publishes again, and a new generation is one nobody has acknowledged. `RanInv` says what has run
by where each thread is in its slice; with `SlicesDisjoint` and `SlicesCover` everything has run
exactly once when all have acknowledged. `JobInv` has the published fields equal to the call's, and
`CellInv` the preparation used up by the packing batch.

OpenMP team. `BarrierInv`: the arrivals of two members differ by at most one, and the one ahead
waits at the barrier. `RegionInv` reads the sequence of barriers a member has met off its place in
the exchange, and the two together give `SameBarriers`, the middle barrier included, which is met
only when the published batch has a preparation; `PlaceInv` says who is where with a team, without
one and while it ends. `JobInv`, `RanInv` and `CellInv` are the counterparts of the spin pool's.

Grid kernels. The barriers are counters that only grow. `CountInv`: each counter is the sum of what
its threads have added, and within a row (a column) nobody is more than one block ahead.
`PassInv`: a thread past a barrier is so after everybody's arrival in its row and its column.
`PanelInv`: a panel holds the last block its owner has packed. Reader and owner of a panel share a
row or a column, and the owner is unique by `SharesDisjoint` and `SharesCover`.

Planned GEMM. A tile's list is always a part of the promised one (`CurrentParts`), so its length says
all; `Did` gives that length from how far the task that owns the tile is in its items. It takes
that the tasks cut the tiles into disjoint rectangles that leave none out (`TileGrid`), and that each
task goes through the depth blocks in order (`Computes`). `PartInv` states `Did` for every task of
the batch, for the serial entry and for the rows of the scalar route; outside of them it says which
stages have C untouched, which is why a fallback may start over. Packing: `PackedInv` says that what a task's
items put is in the panels or is still to be done, `PendingInv` which shared operand the fused batch owes, and
`PanelInv` that shared panels are all there when tiles begin. That the packing tasks reach every
panel, however they are cut and dealt out, are the lemmas `APacks`, `BPacks` and `ABPacks`.
`SpaceInv` knows each buffer's place.

Bridge. `ProcessInv` says which process has initialised what, `MutexInv` that whoever is in the
locked part holds the mutex, or a thread that a fork has left behind there; `PendingInv` extends
`TouchIsOfThisCall` by the fact that the operand is to be overwritten. For each thread `CallInv`
and `FrameInv` relate the locals to the arguments it was called with, `RouteInv` the chosen route to the
predicate that chose it, and `OutInv` the triangles of C to how far the route is. Buffers: `MemInv`
has a block live exactly when one buffer or one thread owns it, with the recorded size. `HoldInv`
says when a thread owns memory. `FitInv` says that the workspace, once its step has passed, stays
large enough for the last route although the routes in between may grow other buffers, and that
the storage of the chosen route is large enough for its own size.

PyTorch bindings. `Shape` says in which of four modes each thread is: at rest, between the creation
of a context and its registration (`Creating`), in a call (`Calling`), or destroying contexts
(`Leaving`), and which instructions it may still have in that mode. A call's program is nested, code
inside the branches of code, to any depth; so "this instruction and all that it can lead to" is
membership in some set of instructions closed under its branches (`IsCode`), which needs no
recursion. While a capture is active the set holds no wait, no allocation and no measurement
(`SafeDos`), and that is `CapturesStayLegal`; the steps that turn a reservation or a first use of a
plan into such instructions are the ones that test for the capture. `WaitsLater`: a try of the tuning
is followed by a wait, so skipping what failed does not run past the end of the call. `Separate`
gives each context one owner: the registry, one instruction that registers or destroys it, or, for
the moment between the two halves of `~Handle`, the handle of a thread that ends (`Leaves`). That is
why nothing is destroyed twice or under a call. `Kept` gives each allocated block one that will
release it, with the addition that a call's pointer into an arena never is what keeps it, since the
call forgets it. `Untouched` is what `camblas_cuda_create` finds in a context it begins to fill.

### Only model-checked

Every liveness property (the prover does not do fairness); the invariants and action properties of
`Bilinear` and `Topology`, and `OperandsFound` of `TorchBindings`, which would take the contents of
every block along every program. What `Rectangular`, `Strassen`,
`Symmetric` and `Planner` compute is checked on the calls of their instances only; of `Routes` the
proofs use which sizes are positive, not that they suffice for the kernels.

## Not modelled

* Memory order. Each shared access is a step and steps are sequentially consistent. The code's
  release/acquire pairs sit exactly where the models hand over a batch, and the plain fields are
  covered by properties that nobody reads them while they change.
* `SpinPool` and `Bridge` assume that the library's destructor does not run while a GEMM is in
  progress; it does not take `gemm_mutex`.
* A pool thread that cannot be created at start aborts the bridge; nested `run()` on the spin pool
  (`spin_inside`) has no caller among the tasks of the repository.
* Floating-point code: micro-kernels (SVE, NEON, paired), CUDA kernels, conversions. It is
  straight-line code without state; the tiles it is called on are modelled.
* The CBLAS shim: argument checks and translation in front of the planned GEMM, without state but for
  a thread-local error number. Batched GEMM exists as a kind of plan only; no entry point takes one.
* The Python layers (`_native.py`, `_hopper.py`, `sglang.py`): dispatch to the bindings.
* Everything `PROJECT.json` lists as `not_modelled`, with the reason.

## Plan

What is left, in this order:

1. Theorems: `Topology`: `PlanFitsSnapshot`; `Planner`: the task grid covers its range;
   `TorchBindings`: the part of `OperandsFound` that says that queued kernels use allocated memory.
2. The CBLAS shim in front of the planned GEMM.
3. The composition of `Bridge` with the executors' modules in place of their contract.
