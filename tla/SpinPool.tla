------------------------------ MODULE SpinPool ------------------------------
(***************************************************************************)
(* framework/framework_blas_bridge.c: the private worker pool of 64-thread *)
(* builds.  The calling thread is worker 0; it publishes a batch in plain  *)
(* globals, releases it by storing the next generation in spin_gen, runs   *)
(* its own slice and waits until every helper has acknowledged that        *)
(* generation.  Helpers poll, then sleep on a futex.  The first batch of a *)
(* GEMM with beta = 0 also carries the output preparation: a zero byte     *)
(* stored in each page of C, dealt out by columns as the tasks are by      *)
(* index.                                                                  *)
(*                                                                         *)
(* The mutex gemm_mutex admits one GEMM at a time, so there is one caller, *)
(* thread 0.  A GEMM is "direct" when its only batch computes C, "packed"  *)
(* when a packing batch precedes the computing one.                        *)
(***************************************************************************)
EXTENDS Integers, FiniteSets, Slices

CONSTANTS
  N,        \* thread_count: the caller and N - 1 helpers
  Columns,  \* columns of C that the output preparation touches (touch.n)
  Sizes,    \* n_tasks arguments; 0 is the fence at the end of a GEMM, an empty batch
  Batches,  \* bound: non-empty batches run in a behaviour
  GenMax    \* INT_MAX of spin_gen

ASSUME SpinAssumption ==
  /\ N \in Nat /\ N > 1 /\ Columns \in Nat /\ Batches \in Nat /\ GenMax \in Nat
  /\ Sizes \subseteq Nat /\ 0 \in Sizes /\ IsFiniteSet(Sizes)

Threads == 0 .. N - 1
Helpers == 1 .. N - 1
Cells   == 0 .. Columns - 1

VARIABLES
  phase,     \* of the pool: "new", "starting", "live", "stopping", "joining", "stopped"
  created,   \* helpers created so far
  workers,   \* spin_workers
  gen,       \* spin_gen
  ack,       \* spin_ack_slot
  job,       \* spin_count, spin_touch.c and what spin_fn does: the published batch
  pending,   \* pending_output_touch.c # NULL
  pc,        \* where each thread is
  seen,      \* the generation each thread works on (gen in the code, seen in the worker)
  at,        \* loop counter of each thread's current loop
  gemm,      \* the GEMM in progress or last done: "direct", "packed" or "none"
  packed,    \* has its packing batch been run?
  parallel,  \* is the caller inside an OpenMP parallel region?
  owner,     \* the task whose rows hold the touched byte of every column
  cells,     \* what that byte of each column holds: "stale", "zero" or "value"
  batches, ntasks, ran, result

poolVars == <<phase, created, workers>>
gemmVars == <<gemm, packed, parallel, owner>>
callVars == <<batches, ntasks, result>>
vars == <<poolVars, gen, ack, job, pending, pc, seen, at, gemmVars, cells, callVars, ran>>

Contract == INSTANCE Executor WITH
  Threads <- {0},
  status  <- [t \in {0} |-> IF pc[0] \in {"idle", "ready", "fence"} THEN "out" ELSE "in"],
  ntasks  <- [t \in {0} |-> ntasks],
  ran     <- [t \in {0} |-> ran],
  result  <- [t \in {0} |-> result]

Indices == UNION {0 .. n - 1 : n \in Sizes}
NotRun  == [k \in Indices |-> 0]

Init ==
  /\ phase = "new" /\ created = {} /\ workers = 0
  /\ gen = 0 /\ ack = [t \in Threads |-> 0]
  /\ job = [n |-> 0, touch |-> FALSE, computes |-> FALSE] /\ pending = FALSE
  /\ pc = [t \in Threads |-> IF t = 0 THEN "idle" ELSE "absent"]
  /\ seen = [t \in Threads |-> 0] /\ at = [t \in Threads |-> 0]
  /\ gemm = "none" /\ packed = FALSE /\ parallel = FALSE /\ owner = 0
  /\ cells = [j \in Cells |-> "value"]
  /\ batches = 0 /\ ntasks = 0 /\ ran = NotRun /\ result = 0

Goto(t, to) == pc' = [pc EXCEPT ![t] = to]
-----------------------------------------------------------------------------
(* spin_pool_start and spin_pool_stop                                      *)

Start ==
  /\ phase = "new" /\ pc[0] = "idle"
  /\ phase' = "starting"
  /\ UNCHANGED <<created, workers, gen, ack, job, pending, pc, seen, at, gemmVars, cells,
                 callVars, ran>>

CreateHelper(h) ==
  /\ phase = "starting" /\ h \notin created
  /\ created' = created \union {h}
  /\ Goto(h, "poll")
  /\ UNCHANGED <<phase, workers, gen, ack, job, pending, seen, at, gemmVars, cells,
                 callVars, ran>>

Started ==
  /\ phase = "starting" /\ created = Helpers
  /\ phase' = "live" /\ workers' = N - 1
  /\ UNCHANGED <<created, gen, ack, job, pending, pc, seen, at, gemmVars, cells, callVars, ran>>

\* spin_futex_wake.
WakeNobody == pc
Wake == [t \in Threads |-> IF pc[t] = "sleep" THEN "load" ELSE pc[t]]

\* The destructor runs when no GEMM is in progress.
Stop ==
  /\ phase = "live" /\ pc[0] = "idle" /\ workers # 0
  /\ phase' = "stopping" /\ gen' = -1
  /\ UNCHANGED <<created, workers, ack, job, pending, pc, seen, at, gemmVars, cells,
                 callVars, ran>>

StopWake ==
  /\ phase = "stopping"
  /\ phase' = "joining" /\ pc' = Wake
  /\ UNCHANGED <<created, workers, gen, ack, job, pending, seen, at, gemmVars, cells,
                 callVars, ran>>

Join ==
  /\ phase = "joining" /\ \A h \in Helpers : pc[h] = "exit"
  /\ phase' = "stopped" /\ workers' = 0
  /\ UNCHANGED <<created, gen, ack, job, pending, pc, seen, at, gemmVars, cells, callVars, ran>>
-----------------------------------------------------------------------------
(* A GEMM and its batches, on the calling thread                           *)

BeginGemm(g, touch, par) ==
  /\ pc[0] = "idle" /\ phase \in {"live", "stopped"}
  /\ batches + (IF g = "packed" THEN 2 ELSE 1) <= Batches
  /\ gemm' = g /\ packed' = FALSE /\ parallel' = par /\ pending' = touch
  /\ cells' = [j \in Cells |-> "stale"]
  /\ Goto(0, "ready")
  /\ UNCHANGED <<poolVars, gen, ack, job, seen, at, owner, callVars, ran>>

Computes == gemm = "direct" \/ packed

Call(n, o) ==
  /\ pc[0] = "ready" /\ n > 0 /\ o \in 0 .. n - 1
  /\ ~Computes => o = 0
  /\ Goto(0, "enter")
  /\ batches' = batches + 1 /\ ntasks' = n /\ ran' = NotRun /\ owner' = o
  /\ UNCHANGED <<poolVars, gen, ack, job, pending, seen, at, gemm, packed, parallel, cells,
                 result>>

Return(to) ==
  /\ Goto(0, to)
  /\ result' = 0

\* camblas_call_fence: an empty batch, after the GEMM.
Fence ==
  /\ pc[0] = "fence"
  /\ Goto(0, "enter")
  /\ ntasks' = 0 /\ ran' = NotRun
  /\ UNCHANGED <<poolVars, gen, ack, job, pending, seen, at, gemmVars, cells, batches, result>>

ReturnEmpty ==
  /\ pc[0] = "enter" /\ ntasks = 0
  /\ Return("idle")
  /\ UNCHANGED <<poolVars, gen, ack, job, pending, seen, at, gemmVars, cells, batches, ntasks, ran>>

RunsSerially == workers = 0 \/ parallel

\* The whole preparation, then the whole batch, on the calling thread.
RunSerial ==
  /\ pc[0] = "enter" /\ ntasks # 0 /\ RunsSerially
  /\ pending' = FALSE
  /\ cells' = [j \in Cells |-> IF Computes THEN "value"
                               ELSE IF pending THEN "zero" ELSE cells[j]]
  /\ ran' = [k \in Indices |-> IF k < ntasks THEN 1 ELSE 0]
  /\ Goto(0, "done")
  /\ UNCHANGED <<poolVars, gen, ack, job, seen, at, gemmVars, callVars>>

KeepTouch == pending
TakeTouch == FALSE

Publish ==
  /\ pc[0] = "enter" /\ ntasks # 0 /\ ~RunsSerially
  /\ job' = [n |-> ntasks, touch |-> pending, computes |-> Computes]
  /\ pending' = TakeTouch
  /\ Goto(0, "store")
  /\ UNCHANGED <<poolVars, gen, ack, seen, at, gemmVars, cells, callVars, ran>>

\* int arithmetic: the build wraps.
NextGen == IF gen = GenMax THEN -GenMax - 1 ELSE gen + 1

StoreGen ==
  /\ pc[0] = "store"
  /\ gen' = NextGen /\ seen' = [seen EXCEPT ![0] = NextGen]
  /\ Goto(0, "wake")
  /\ UNCHANGED <<poolVars, ack, job, pending, at, gemmVars, cells, callVars, ran>>

FutexWake ==
  /\ pc[0] = "wake"
  /\ pc' = [Wake EXCEPT ![0] = "touch"]
  /\ at' = [at EXCEPT ![0] = Begin(0, Columns, N)]
  /\ UNCHANGED <<poolVars, gen, ack, job, pending, seen, gemmVars, cells, callVars, ran>>

\* The acknowledgements are awaited in the order of the helpers.
AwaitAck ==
  /\ pc[0] = "wait" /\ at[0] <= workers /\ ack[at[0]] = seen[0]
  /\ at' = [at EXCEPT ![0] = @ + 1]
  /\ UNCHANGED <<poolVars, gen, ack, job, pending, pc, seen, gemmVars, cells, callVars, ran>>

AllAcked ==
  /\ pc[0] = "wait" /\ at[0] > workers
  /\ Goto(0, "done")
  /\ UNCHANGED <<poolVars, gen, ack, job, pending, seen, at, gemmVars, cells, callVars, ran>>

\* run() returns; after the computing batch the GEMM clears the touch.
FinishBatch ==
  /\ pc[0] = "done"
  /\ Return(IF Computes THEN "fence" ELSE "ready")
  /\ packed' = (gemm = "packed")
  /\ pending' = (pending /\ ~Computes)
  /\ UNCHANGED <<poolVars, gen, ack, job, seen, at, gemm, parallel, owner, cells, batches,
                 ntasks, ran>>
-----------------------------------------------------------------------------
(* spin_worker and spin_wait_for_work                                      *)

SeeWork(h) ==
  /\ pc[h] = "poll" /\ gen # seen[h]
  /\ Goto(h, "load")
  /\ UNCHANGED <<poolVars, gen, ack, job, pending, seen, at, gemmVars, cells, callVars, ran>>

\* The polling window is over.
StopPolling(h) ==
  /\ pc[h] = "poll"
  /\ Goto(h, "futex")
  /\ UNCHANGED <<poolVars, gen, ack, job, pending, seen, at, gemmVars, cells, callVars, ran>>

\* FUTEX_WAIT compares and sleeps in one step of the kernel.
SleepsAnyway(h) == TRUE
SleepsOn(h) == gen = seen[h]

FutexWait(h) ==
  /\ pc[h] = "futex"
  /\ Goto(h, IF SleepsOn(h) THEN "sleep" ELSE "load")
  /\ UNCHANGED <<poolVars, gen, ack, job, pending, seen, at, gemmVars, cells, callVars, ran>>

\* The wait ends without a wake-up: after a second, or by a signal.
Timeout(h) ==
  /\ pc[h] = "sleep"
  /\ Goto(h, "load")
  /\ UNCHANGED <<poolVars, gen, ack, job, pending, seen, at, gemmVars, cells, callVars, ran>>

TakesAnything(h) == FALSE
NoNewWork(h) == gen = seen[h]

LoadGen(h) ==
  /\ pc[h] = "load"
  /\ \/ /\ NoNewWork(h)
        /\ Goto(h, "poll")
        /\ UNCHANGED <<seen, at>>
     \/ /\ ~NoNewWork(h)
        /\ seen' = [seen EXCEPT ![h] = gen]
        /\ Goto(h, IF gen < 0 THEN "exit" ELSE "touch")
        /\ at' = [at EXCEPT ![h] = Begin(h, Columns, N)]
  /\ UNCHANGED <<poolVars, gen, ack, job, pending, gemmVars, cells, callVars, ran>>
-----------------------------------------------------------------------------
(* spin_execute_slice                                                      *)

TouchColumn(t) ==
  /\ pc[t] = "touch" /\ job.touch /\ at[t] < End(t, Columns, N)
  /\ cells' = [cells EXCEPT ![at[t]] = "zero"]
  /\ at' = [at EXCEPT ![t] = @ + 1]
  /\ UNCHANGED <<poolVars, gen, ack, job, pending, pc, seen, gemmVars, callVars, ran>>

BeginTasks(t) ==
  /\ pc[t] = "touch" /\ (job.touch => at[t] >= End(t, Columns, N))
  /\ Goto(t, "task")
  /\ at' = [at EXCEPT ![t] = Begin(t, job.n, N)]
  /\ UNCHANGED <<poolVars, gen, ack, job, pending, seen, gemmVars, cells, callVars, ran>>

RunTask(t) ==
  /\ pc[t] = "task" /\ at[t] < End(t, job.n, N)
  /\ ran' = [ran EXCEPT ![at[t]] = @ + 1]
  /\ cells' = IF job.computes /\ at[t] = owner THEN [j \in Cells |-> "value"] ELSE cells
  /\ at' = [at EXCEPT ![t] = @ + 1]
  /\ UNCHANGED <<poolVars, gen, ack, job, pending, pc, seen, gemmVars, callVars>>

Acknowledge(t) ==
  /\ pc[t] = "task" /\ at[t] >= End(t, job.n, N)
  /\ ack' = [ack EXCEPT ![t] = seen[t]]
  /\ Goto(t, IF t = 0 THEN "wait" ELSE "poll")
  /\ at' = [at EXCEPT ![t] = IF t = 0 THEN 1 ELSE @]
  /\ UNCHANGED <<poolVars, gen, job, pending, seen, gemmVars, cells, callVars, ran>>
-----------------------------------------------------------------------------
PoolStep == Started \/ StopWake \/ Join

CallStep ==
  \/ ReturnEmpty \/ RunSerial \/ Publish \/ StoreGen \/ FutexWake \/ AwaitAck \/ AllAcked
  \/ FinishBatch

SliceStep(t) == TouchColumn(t) \/ BeginTasks(t) \/ RunTask(t) \/ Acknowledge(t)

HelperStep(h) == SeeWork(h) \/ StopPolling(h) \/ FutexWait(h) \/ LoadGen(h) \/ SliceStep(h)

\* The program is over: no more batches within the bound, or the pool is gone.
Terminated ==
  /\ pc[0] = "idle" /\ phase = "stopped"
  /\ UNCHANGED vars

Next ==
  \/ Start \/ Stop \/ PoolStep \/ Fence \/ CallStep \/ SliceStep(0)
  \/ \E g \in {"direct", "packed"}, touch, par \in BOOLEAN : BeginGemm(g, touch, par)
  \/ \E n \in Sizes : \E o \in 0 .. n - 1 : Call(n, o)
  \/ \E h \in Helpers : CreateHelper(h) \/ HelperStep(h) \/ Timeout(h)
  \/ Terminated

Spec == Init /\ [][Next]_vars

\* Every thread is scheduled.  Timeouts are not needed, and not assumed.
Fairness ==
  /\ WF_vars(PoolStep) /\ WF_vars(CallStep) /\ WF_vars(SliceStep(0))
  /\ \A h \in Helpers : WF_vars(CreateHelper(h)) /\ WF_vars(HelperStep(h))

FairSpec == Spec /\ Fairness
-----------------------------------------------------------------------------
(* Properties                                                              *)

\* Types of every variable.
TypeOK ==
  /\ phase \in {"new", "starting", "live", "stopping", "joining", "stopped"}
  /\ created \subseteq Helpers /\ workers \in {0, N - 1}
  /\ gen \in -GenMax - 1 .. GenMax
  /\ ack \in [Threads -> -GenMax - 1 .. GenMax] /\ seen \in [Threads -> -GenMax - 1 .. GenMax]
  /\ job \in [n : Sizes \union {0}, touch : BOOLEAN, computes : BOOLEAN]
  /\ pending \in BOOLEAN
  /\ pc \in [Threads -> {"idle", "ready", "enter", "store", "wake", "wait", "done", "fence",
                         "absent", "poll", "futex", "sleep", "load", "exit", "touch", "task"}]
  /\ at \in [Threads -> Nat]
  /\ gemm \in {"none", "direct", "packed"} /\ packed \in BOOLEAN /\ parallel \in BOOLEAN
  /\ owner \in Nat /\ cells \in [Cells -> {"stale", "zero", "value"}]
  /\ batches \in 0 .. Batches /\ ntasks \in Sizes \union {0}
  /\ ran \in [Indices -> {0, 1}] /\ result \in {0, -1}

InSlice(t) == pc[t] \in {"touch", "task"}

\* A helper is in its slice only while the caller waits in run() for that
\* very generation: after a timed-out sleep it must not run the previous task,
\* whose stack-backed arguments may have expired.
HelpersReadLiveBatch ==
  \A h \in Helpers : InSlice(h) =>
    /\ pc[0] \in {"wake", "touch", "task", "wait"}
    /\ seen[h] = gen /\ seen[0] = gen

\* The pool is an executor for its one caller.
ImplementsExecutor == Contract!Spec

\* A packed GEMM has C computed when it returns: the preparation is used up by
\* its first batch and cannot zero what the second one computes.
PackedOutputComputed ==
  pc[0] \in {"fence", "idle"} /\ gemm = "packed" => \A j \in Cells : cells[j] = "value"

\* Every GEMM has C computed when it returns.
OutputComputed ==
  pc[0] \in {"fence", "idle"} => \A j \in Cells : cells[j] = "value"

\* run() calls fn for every task of its batch.
EveryTaskIsCalled ==
  \A k \in Indices : pc[0] = "enter" /\ k < ntasks ~> ran[k] = 1

\* Every call of run() returns.
CallsReturn == pc[0] \notin {"idle", "ready", "fence"} ~> pc[0] \in {"idle", "ready", "fence"}

\* The destructor joins every helper, asleep, polling or about to sleep.
ShutdownEnds == phase = "stopping" ~> phase = "stopped"
=============================================================================
