----------------------------- MODULE PthreadPool -----------------------------
(***************************************************************************)
(* src/pthread_pool.c: the persistent, caller-owned executor.  Workers     *)
(* sleep on the condition variable `work`, pick up a batch by its          *)
(* generation, claim task indices from an atomic counter outside every     *)
(* lock, and report back through `remaining`.  Callers of run() are        *)
(* serialised by the mutex `submit`; run() called from one of the pool's   *)
(* own tasks executes its batch on the spot.                               *)
(*                                                                         *)
(* A critical section of the mutex `state` is one step: everything it      *)
(* reads and writes, and the wait or the signal it ends with.  What the    *)
(* workers read without that mutex (next, n_tasks, fn and tasks) is read   *)
(* in steps of its own.                                                    *)
(***************************************************************************)
EXTENDS Integers, FiniteSets

CONSTANTS
  Workers,     \* the threads the pool is to create (count of them)
  Submitters,  \* application threads that call run()
  Sizes,       \* n_tasks arguments of their calls; negative is invalid
  NestSizes,   \* n_tasks arguments of calls made from inside a task
  Calls,       \* bound: calls each submitter makes, and each task nests
  IntMax,      \* INT_MAX of the task counter's type
  Spins,       \* CAMBLAS_PTHREAD_SPINS > 0: unlock and poll between batches
  NoThread     \* a value that is no thread

ASSUME ThreadsAssumption ==
  /\ IsFiniteSet(Workers) /\ Workers # {}
  /\ Workers \intersect Submitters = {}
  /\ NoThread \notin Workers \union Submitters

ASSUME SizesAssumption ==
  /\ Sizes \subseteq Int /\ NestSizes \subseteq Sizes /\ IsFiniteSet(Sizes)
  /\ Calls \in Nat /\ IntMax \in Nat /\ Spins \in BOOLEAN
  /\ Cardinality(Workers) <= IntMax

Threads == Workers \union Submitters

VARIABLES
  phase,       \* "creating", "live", "stopping" or "freed"
  created,     \* workers for which pthread_create has succeeded
  stop,        \* p->stop
  generation,  \* p->generation
  remaining,   \* p->remaining
  nTasks,      \* p->n_tasks
  next,        \* p->next
  batch,       \* whose fn, tasks and gctx are published, or NoThread
  submit,      \* holder of the mutex submit, or NoThread
  wpc,         \* where each worker is
  seen,        \* each worker's local generation
  index,       \* the index each worker claimed last
  active,      \* is the worker's thread-local active_pool this pool?
  rpc,         \* where each thread is inside run()
  calls,       \* calls begun so far (a worker: within its current task)
  ntasks,      \* n_tasks argument of each thread's current or last call
  ran,         \* history: how often fn completed for each index of it
  result       \* what that call returned

poolVars == <<phase, created, stop>>
batchVars == <<generation, remaining, nTasks, next, batch>>
workerVars == <<wpc, seen, index, active>>
callVars == <<rpc, calls, ntasks, ran, result>>
vars == <<poolVars, batchVars, submit, workerVars, callVars>>

Contract == INSTANCE Executor WITH
              status <- [t \in Threads |-> IF rpc[t] = "out" THEN "out" ELSE "in"]

Indices == UNION {0 .. n - 1 : n \in Sizes}
NotRun  == [k \in Indices |-> 0]

Init ==
  /\ phase = "creating" /\ created = {} /\ stop = FALSE
  /\ generation = 0 /\ remaining = 0 /\ nTasks = 0 /\ next = 0 /\ batch = NoThread
  /\ submit = NoThread
  /\ wpc    = [w \in Workers |-> "absent"]
  /\ seen   = [w \in Workers |-> 0]
  /\ index  = [w \in Workers |-> 0]
  /\ active = [w \in Workers |-> FALSE]
  /\ rpc    = [t \in Threads |-> "out"]
  /\ calls  = [t \in Threads |-> 0]
  /\ ntasks = [t \in Threads |-> 0]
  /\ ran    = [t \in Threads |-> NotRun]
  /\ result = [t \in Threads |-> 0]
-----------------------------------------------------------------------------
(* camblas_pthread_pool_create and camblas_pthread_pool_destroy            *)

\* pthread_cond_broadcast(&p->work).
WakeOneWorker ==
  IF \E w \in Workers : wpc[w] = "sleep"
  THEN [wpc EXCEPT ![CHOOSE w \in Workers : wpc[w] = "sleep"] = "test"]
  ELSE wpc
WakeWorkers == [w \in Workers |-> IF wpc[w] = "sleep" THEN "test" ELSE wpc[w]]

CreateWorker(w) ==
  /\ phase = "creating" /\ w \notin created
  /\ created' = created \union {w}
  /\ wpc' = [wpc EXCEPT ![w] = "test"]
  /\ UNCHANGED <<phase, stop, batchVars, submit, seen, index, active, callVars>>

CreateDone ==
  /\ phase = "creating" /\ created = Workers
  /\ phase' = "live"
  /\ UNCHANGED <<created, stop, batchVars, submit, workerVars, callVars>>

Shutdown ==
  /\ phase' = "stopping" /\ stop' = TRUE
  /\ wpc' = WakeWorkers
  /\ UNCHANGED <<created, batchVars, submit, seen, index, active, callVars>>

\* An attribute, an affinity mask or a thread could not be had: destroy what
\* was created so far.
CreateFails ==
  /\ phase = "creating" /\ created # Workers
  /\ Shutdown

\* The caller has to exclude submissions in progress (camblas_pthread.h).
Destroy ==
  /\ phase = "live" /\ \A t \in Threads : rpc[t] = "out"
  /\ Shutdown

Joined == \A w \in created : wpc[w] = "exit"

JoinAndFree ==
  /\ phase = "stopping" /\ Joined
  /\ phase' = "freed"
  /\ UNCHANGED <<created, stop, batchVars, submit, workerVars, callVars>>
-----------------------------------------------------------------------------
(* run()                                                                   *)

Caller(t) == t \in Submitters \/ (t \in Workers /\ wpc[t] = "task")

Call(t, n) ==
  /\ phase = "live" /\ Caller(t)
  /\ rpc[t] = "out" /\ calls[t] < Calls
  /\ n \in IF t \in Submitters THEN Sizes ELSE NestSizes
  /\ rpc'    = [rpc EXCEPT ![t] = "enter"]
  /\ calls'  = [calls EXCEPT ![t] = @ + 1]
  /\ ntasks' = [ntasks EXCEPT ![t] = n]
  /\ ran'    = [ran EXCEPT ![t] = NotRun]
  /\ UNCHANGED <<poolVars, batchVars, submit, workerVars, result>>

\* Room is left for every worker's final claim.
RefusedWithoutRoom(n) == n < 0 \/ n > IntMax
Refused(n) == n < 0 \/ n > IntMax - Cardinality(created)
Refuse(t) ==
  /\ rpc[t] = "enter" /\ Refused(ntasks[t])
  /\ rpc' = [rpc EXCEPT ![t] = "out"]
  /\ result' = [result EXCEPT ![t] = -1]
  /\ UNCHANGED <<poolVars, batchVars, submit, workerVars, calls, ntasks, ran>>

Succeed(t) ==
  /\ rpc' = [rpc EXCEPT ![t] = "out"]
  /\ result' = [result EXCEPT ![t] = 0]

ReturnEmpty(t) ==
  /\ rpc[t] = "enter" /\ ntasks[t] = 0
  /\ Succeed(t)
  /\ UNCHANGED <<poolVars, batchVars, submit, workerVars, calls, ntasks, ran>>

OnNoPool(t) == FALSE
OnThisPool(t) == t \in Workers /\ active[t]

\* Called from one of this pool's own tasks: run the batch here.
RunNested(t) ==
  /\ rpc[t] = "enter" /\ ntasks[t] # 0 /\ ~Refused(ntasks[t]) /\ OnThisPool(t)
  /\ rpc' = [rpc EXCEPT ![t] = "return"]
  /\ ran' = [ran EXCEPT ![t] = [k \in Indices |-> IF k < ntasks[t] THEN @[k] + 1 ELSE @[k]]]
  /\ UNCHANGED <<poolVars, batchVars, submit, workerVars, calls, ntasks, result>>

ReturnNested(t) ==
  /\ rpc[t] = "return"
  /\ Succeed(t)
  /\ UNCHANGED <<poolVars, batchVars, submit, workerVars, calls, ntasks, ran>>

LockSubmit(t) ==
  /\ rpc[t] = "enter" /\ ntasks[t] # 0 /\ ~Refused(ntasks[t]) /\ ~OnThisPool(t)
  /\ submit = NoThread
  /\ submit' = t
  /\ rpc' = [rpc EXCEPT ![t] = "publish"]
  /\ UNCHANGED <<poolVars, batchVars, workerVars, calls, ntasks, ran, result>>

\* count is positive, so the caller goes to sleep on `done` in this step.
Publish(t) ==
  /\ rpc[t] = "publish"
  /\ batch' = t
  /\ nTasks' = ntasks[t]
  /\ remaining' = Cardinality(created)
  /\ next' = 0
  /\ generation' = generation + 1
  /\ wpc' = WakeWorkers
  /\ rpc' = [rpc EXCEPT ![t] = "sleep"]
  /\ UNCHANGED <<poolVars, submit, seen, index, active, calls, ntasks, ran, result>>

\* pthread_cond_wait may return without a signal.
SpuriousWake(t) ==
  /\ rpc[t] = "sleep"
  /\ rpc' = [rpc EXCEPT ![t] = "retest"]
  /\ UNCHANGED <<poolVars, batchVars, submit, workerVars, calls, ntasks, ran, result>>

BatchDoneOnAnyWake == TRUE
BatchDone == remaining = 0

SleepAgain(t) ==
  /\ rpc[t] = "retest" /\ ~BatchDone
  /\ rpc' = [rpc EXCEPT ![t] = "sleep"]
  /\ UNCHANGED <<poolVars, batchVars, submit, workerVars, calls, ntasks, ran, result>>

Retire(t) ==
  /\ rpc[t] = "retest" /\ BatchDone
  /\ batch' = NoThread
  /\ rpc' = [rpc EXCEPT ![t] = "unlock"]
  /\ UNCHANGED <<poolVars, generation, remaining, nTasks, next, submit, workerVars,
                 calls, ntasks, ran, result>>

UnlockSubmit(t) ==
  /\ rpc[t] = "unlock"
  /\ submit' = NoThread
  /\ Succeed(t)
  /\ UNCHANGED <<poolVars, batchVars, workerVars, calls, ntasks, ran>>
-----------------------------------------------------------------------------
(* worker()                                                                *)

\* The head of the worker's loop, under the mutex state: sleep, leave, or
\* take the current generation.
LoopHead(w) ==
  \/ /\ ~stop /\ seen[w] = generation
     /\ wpc' = [wpc EXCEPT ![w] = "sleep"]
     /\ active' = [active EXCEPT ![w] = FALSE]
     /\ UNCHANGED seen
  \/ /\ stop
     /\ wpc' = [wpc EXCEPT ![w] = "exit"]
     /\ active' = [active EXCEPT ![w] = FALSE]
     /\ UNCHANGED seen
  \/ /\ ~stop /\ seen[w] # generation
     /\ seen' = [seen EXCEPT ![w] = generation]
     /\ wpc' = [wpc EXCEPT ![w] = "claim"]
     /\ active' = [active EXCEPT ![w] = TRUE]

Test(w) ==
  /\ wpc[w] = "test"
  /\ LoopHead(w)
  /\ UNCHANGED <<poolVars, batchVars, submit, index, callVars>>

SpuriousTest(w) ==
  /\ wpc[w] = "sleep"
  /\ wpc' = [wpc EXCEPT ![w] = "test"]
  /\ UNCHANGED <<poolVars, batchVars, submit, seen, index, active, callVars>>

Claim(w) ==
  /\ wpc[w] = "claim"
  /\ index' = [index EXCEPT ![w] = next]
  /\ next' = next + 1
  /\ wpc' = [wpc EXCEPT ![w] = "check"]
  /\ UNCHANGED <<poolVars, generation, remaining, nTasks, batch, submit, seen, active, callVars>>

InRangeOrLast(i) == i <= nTasks
InRange(i) == i < nTasks

EnterTask(w) ==
  /\ wpc[w] = "check" /\ InRange(index[w])
  /\ wpc' = [wpc EXCEPT ![w] = "task"]
  /\ UNCHANGED <<poolVars, batchVars, submit, seen, index, active, callVars>>

\* fn(&p->tasks[index], p->gctx) returns; any call it nested has returned.
LeaveTask(w) ==
  /\ wpc[w] = "task" /\ rpc[w] = "out"
  /\ ran' = IF batch = NoThread THEN ran ELSE [ran EXCEPT ![batch][index[w]] = @ + 1]
  /\ calls' = [calls EXCEPT ![w] = 0]
  /\ wpc' = [wpc EXCEPT ![w] = "claim"]
  /\ UNCHANGED <<poolVars, batchVars, submit, seen, index, active, rpc, ntasks, result>>

LeaveBatch(w) ==
  /\ wpc[w] = "check" /\ ~InRange(index[w])
  /\ wpc' = [wpc EXCEPT ![w] = "finish"]
  /\ active' = [active EXCEPT ![w] = FALSE]
  /\ UNCHANGED <<poolVars, batchVars, submit, seen, index, callVars>>

SignalNever == rpc
SignalDone ==
  IF remaining' = 0
  THEN [t \in Threads |-> IF rpc[t] = "sleep" THEN "retest" ELSE rpc[t]]
  ELSE rpc

\* The last worker wakes the caller.  Without polling, the same critical
\* section goes on to the head of the loop.
Finish(w) ==
  /\ wpc[w] = "finish"
  /\ remaining' = remaining - 1
  /\ rpc' = SignalDone
  /\ IF Spins THEN /\ wpc' = [wpc EXCEPT ![w] = "test"]
                   /\ UNCHANGED <<seen, active>>
              ELSE LoopHead(w)
  /\ UNCHANGED <<poolVars, generation, nTasks, next, batch, submit, index,
                 calls, ntasks, ran, result>>
-----------------------------------------------------------------------------
RunStep(t) ==
  \/ Refuse(t) \/ ReturnEmpty(t) \/ RunNested(t) \/ ReturnNested(t)
  \/ LockSubmit(t) \/ Publish(t) \/ SleepAgain(t) \/ Retire(t) \/ UnlockSubmit(t)

WorkerStep(w) ==
  \/ Test(w) \/ Claim(w) \/ EnterTask(w) \/ LeaveTask(w) \/ LeaveBatch(w) \/ Finish(w)

PoolStep == CreateDone \/ CreateFails \/ Destroy \/ JoinAndFree

Terminated == phase = "freed" /\ UNCHANGED vars

Next ==
  \/ PoolStep
  \/ \E w \in Workers : CreateWorker(w) \/ WorkerStep(w) \/ SpuriousTest(w)
  \/ \E t \in Threads : RunStep(t) \/ SpuriousWake(t) \/ \E n \in Sizes : Call(t, n)
  \/ Terminated

Spec == Init /\ [][Next]_vars

(***************************************************************************)
(* Threads that hold or wait for nothing are scheduled, and a thread that  *)
(* waits for a mutex gets it when it stays free.  Nothing obliges the      *)
(* application to submit or to destroy, nor a wake-up to be spurious.      *)
(***************************************************************************)
Fairness ==
  /\ WF_vars(CreateDone) /\ WF_vars(JoinAndFree)
  /\ \A w \in Workers : WF_vars(CreateWorker(w)) /\ WF_vars(WorkerStep(w))
  /\ \A t \in Threads : WF_vars(RunStep(t))

FairSpec == Spec /\ Fairness
-----------------------------------------------------------------------------
(* Properties                                                              *)

\* Types of every variable.
TypeOK ==
  /\ phase \in {"creating", "live", "stopping", "freed"}
  /\ created \subseteq Workers
  /\ stop \in BOOLEAN
  /\ generation \in Nat /\ remaining \in Nat /\ nTasks \in Int /\ next \in Nat
  /\ batch \in Threads \union {NoThread}
  /\ submit \in Threads \union {NoThread}
  /\ wpc \in [Workers -> {"absent", "test", "sleep", "claim", "check", "task", "finish", "exit"}]
  /\ seen \in [Workers -> Nat]
  /\ index \in [Workers -> Nat]
  /\ active \in [Workers -> BOOLEAN]
  /\ rpc \in [Threads -> {"out", "enter", "return", "publish", "sleep", "retest", "unlock"}]
  /\ calls \in [Threads -> Nat]
  /\ ntasks \in [Threads -> Sizes \union {0}]
  /\ ran \in [Threads -> [Indices -> Nat]]
  /\ result \in [Threads -> {0, -1}]

InBatch(w) == wpc[w] \in {"claim", "check", "task", "finish"}

\* A successful run() has executed every task of its batch exactly once, a
\* refused one none, whichever workers were slow, woke spuriously or were
\* still draining when another caller's batch was published.
ExactlyOnce ==
  \A t \in Threads : rpc[t] = "out" =>
    \A k \in Indices :
      ran[t][k] = IF result[t] = 0 /\ k < ntasks[t] THEN 1 ELSE 0

\* fn, tasks, gctx and n_tasks are plain fields that workers read outside the
\* state mutex: while any worker is in a batch, it is the published one.
WorkersReadLiveBatch ==
  \A w \in Workers : InBatch(w) => batch # NoThread /\ seen[w] = generation

\* The claim counter never passes INT_MAX: run() refuses batches that leave
\* no room for the claim each worker makes past the end.
ClaimsFit == next <= IntMax

\* Whoever sleeps will be woken: a worker asleep has taken part in the latest
\* batch and is not to leave; a caller asleep has a worker that is awake, still
\* owes its report, and does not wait for that caller with a call of its own.
NoLostWakeup ==
  /\ \A w \in Workers : wpc[w] = "sleep" => ~stop /\ seen[w] = generation
  /\ \A t \in Threads : rpc[t] = "sleep" =>
       \E w \in created :
         /\ wpc[w] \notin {"sleep", "exit"} /\ (InBatch(w) \/ seen[w] # generation)
         /\ rpc[w] # "out" => active[w]

\* The pool is an executor.
ImplementsExecutor == Contract!Spec

\* Every call of run() returns: no wake-up is lost between the two condition
\* variables, and a nested call does not wait for its own worker.
CallsReturn == \A t \in Threads : rpc[t] # "out" ~> rpc[t] = "out"

\* destroy() and a failed create() end: every worker leaves and is joined.
ShutdownEnds == stop ~> phase = "freed"
=============================================================================
