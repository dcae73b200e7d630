------------------------- MODULE PthreadPool_proofs -------------------------
(***************************************************************************)
(* The inductive invariant of PthreadPool and what follows from it for     *)
(* every pool size, batch size, number of callers and of calls.            *)
(***************************************************************************)
EXTENDS PthreadPool, FiniteSetTheorems, TLAPS

\* Workers the published generation still waits for.
Pending == {w \in created : InBatch(w) \/ seen[w] # generation}

\* A worker that has claimed an index and not yet run or rejected it.
Holds(w, k) == wpc[w] \in {"check", "task"} /\ index[w] = k

\* Workers that have made a claim past the end of the batch.
Overran ==
  {w \in Workers : \/ wpc[w] = "finish"
                   \/ wpc[w] = "check" /\ index[w] >= nTasks
                   \/ w \notin Pending}

\* Which phases of the pool's life allow what.
LifeInv ==
  /\ phase = "live" => created = Workers
  /\ phase = "creating" => generation = 0
  /\ stop <=> phase \in {"stopping", "freed"}
  /\ phase # "live" => \A t \in Threads : rpc[t] = "out"
  /\ \A w \in Workers :
       /\ wpc[w] = "absent" <=> w \notin created
       /\ wpc[w] = "exit" => stop
       /\ wpc[w] = "sleep" => ~stop /\ seen[w] = generation
       /\ active[w] <=> wpc[w] \in {"claim", "check", "task"}
       /\ seen[w] <= generation
       /\ w \notin created => seen[w] = 0

\* Who holds the mutex submit, and that only its holder publishes.
SubmitInv ==
  /\ \A t \in Threads :
       /\ rpc[t] \in {"publish", "sleep", "retest", "unlock"} => submit = t
       /\ rpc[t] \in {"sleep", "retest"} <=> batch = t
       /\ t \in Workers /\ rpc[t] # "out" => wpc[t] = "task"
       /\ t \in Workers => rpc[t] \in {"out", "enter", "return"}

\* remaining counts the workers the batch waits for; a retired batch waits
\* for none; a caller asleep still waits for some; a worker in a batch is in the
\* published one.
CountInv ==
  /\ remaining = Cardinality(Pending)
  /\ batch = NoThread => Pending = {}
  /\ \A t \in Threads : rpc[t] = "sleep" => remaining > 0
  /\ batch # NoThread => nTasks = ntasks[batch] /\ nTasks > 0
  /\ \A w \in Workers : InBatch(w) => seen[w] = generation

\* Claims are distinct, below next, and run at most once; a worker that has
\* left the claim loop has seen every index taken.
ClaimInv ==
  /\ \A w \in Workers :
       /\ wpc[w] \in {"check", "task"} => index[w] < next
       /\ wpc[w] = "task" => index[w] < nTasks
       /\ batch # NoThread /\ (wpc[w] = "finish" \/ w \notin Pending) => nTasks <= next
  /\ \A v, w \in Workers, k \in Nat : Holds(v, k) /\ Holds(w, k) => v = w
  /\ batch # NoThread =>
       \A k \in Indices :
         ran[batch][k] = IF k < nTasks /\ k < next /\ ~\E w \in Workers : Holds(w, k)
                         THEN 1 ELSE 0

\* What each call has run so far, by where it is.
AllRan(t) == ran[t] = [k \in Indices |-> IF k < ntasks[t] THEN 1 ELSE 0]
CallInv ==
  \A t \in Threads :
    /\ rpc[t] = "out" => IF result[t] = 0 THEN AllRan(t) ELSE ran[t] = NotRun
    /\ rpc[t] \in {"enter", "publish"} => ran[t] = NotRun
    /\ rpc[t] = "publish" => ntasks[t] > 0
    /\ rpc[t] \in {"publish", "sleep", "retest"} => ~Refused(ntasks[t])
    /\ rpc[t] \in {"return", "unlock"} => AllRan(t) /\ ntasks[t] > 0

\* Room for one claim past the end by every worker.
RoomInv ==
  /\ next <= nTasks + Cardinality(Overran)
  /\ next = 0 \/ nTasks + Cardinality(Workers) <= IntMax

IInv ==
  TypeOK /\ LifeInv /\ SubmitInv /\ CountInv /\ ClaimInv /\ CallInv /\ RoomInv
-----------------------------------------------------------------------------
(* Facts about the sets the invariant counts                               *)

\* Pending and Overran are finite whatever the workers do.
LEMMA CountsAreNat ==
  ASSUME created \subseteq Workers
  PROVE  /\ IsFiniteSet(created) /\ Cardinality(created) \in Nat
         /\ IsFiniteSet(Pending) /\ Cardinality(Pending) \in Nat
         /\ IsFiniteSet(Overran) /\ Cardinality(Overran) \in Nat
         /\ Cardinality(Overran) <= Cardinality(Workers)
         /\ Cardinality(Workers) \in Nat
<1>1. /\ created \subseteq Workers /\ Pending \subseteq Workers /\ Overran \subseteq Workers
  BY DEF Pending, Overran
<1>2. QED
  BY <1>1, ThreadsAssumption, FS_Subset, FS_CardinalityType

\* The invariant holds initially.
LEMMA InitIInv == Init => IInv
<1> SUFFICES ASSUME Init PROVE IInv
  OBVIOUS
<1> USE DEF Init
<1>1. Pending = {} /\ Overran = Workers
  BY DEF Pending, Overran, InBatch
<1>2. TypeOK
  <2>1. NotRun \in [Indices -> Nat]
    BY DEF NotRun
  <2>2. ran \in [Threads -> [Indices -> Nat]]
    BY <2>1
  <2>3. stop \in BOOLEAN /\ active \in [Workers -> BOOLEAN]
    OBVIOUS
  <2>4. result \in [Threads -> {0, -1}] /\ ntasks \in [Threads -> Sizes \union {0}]
    OBVIOUS
  <2>5. /\ wpc \in [Workers -> {"absent", "test", "sleep", "claim", "check", "task", "finish", "exit"}]
        /\ rpc \in [Threads -> {"out", "enter", "return", "publish", "sleep", "retest", "unlock"}]
    OBVIOUS
  <2>6. QED
    BY <2>2, <2>3, <2>4, <2>5 DEF TypeOK
<1>3. LifeInv
  BY DEF LifeInv
<1>4. SubmitInv
  BY ThreadsAssumption DEF SubmitInv, Threads
<1>5. CountInv
  BY <1>1, FS_EmptySet DEF CountInv, InBatch
<1>6. ClaimInv
  BY DEF ClaimInv, Holds
<1>7. CallInv
  <2>1. \A k \in Indices : ~(k < 0)
    BY SizesAssumption DEF Indices
  <2>2. QED
    BY <2>1 DEF CallInv, AllRan, NotRun
<1>8. RoomInv
  BY <1>1, CountsAreNat DEF RoomInv
<1>9. QED
  BY <1>2, <1>3, <1>4, <1>5, <1>6, <1>7, <1>8 DEF IInv
-----------------------------------------------------------------------------
(* Consequences of the invariant that the steps below share                *)

\* A worker in a batch is pending, so a batch is published and its caller
\* waits for it in a live pool.
LEMMA InBatchFacts ==
  ASSUME IInv, NEW w \in Workers, InBatch(w)
  PROVE  /\ w \in Pending /\ batch \in Threads /\ rpc[batch] \in {"sleep", "retest"}
         /\ phase = "live" /\ created = Workers
<1>1. w \in Pending
  BY DEF IInv, LifeInv, InBatch, Pending
<1>2. batch # NoThread
  BY <1>1 DEF IInv, CountInv
<1>3. batch \in Threads /\ rpc[batch] \in {"sleep", "retest"}
  BY <1>2 DEF IInv, TypeOK, SubmitInv
<1>4. QED
  BY <1>1, <1>3 DEF IInv, TypeOK, LifeInv

\* A published batch has between 1 and INT_MAX - workers tasks, and their
\* indices are those of Indices below nTasks.
LEMMA BatchFacts ==
  ASSUME IInv, batch # NoThread
  PROVE  /\ batch \in Threads /\ rpc[batch] \in {"sleep", "retest"}
         /\ phase = "live" /\ created = Workers
         /\ nTasks \in Sizes /\ nTasks > 0
         /\ nTasks + Cardinality(Workers) <= IntMax
         /\ \A k \in Nat : k < nTasks => k \in Indices
<1>1. batch \in Threads /\ rpc[batch] \in {"sleep", "retest"}
  BY DEF IInv, TypeOK, SubmitInv
<1>2. phase = "live" /\ created = Workers
  BY <1>1 DEF IInv, TypeOK, LifeInv
<1>3. nTasks = ntasks[batch] /\ nTasks > 0 /\ nTasks \in Sizes /\ nTasks \in Int
  BY <1>1 DEF IInv, CountInv, TypeOK
<1>4. ~Refused(nTasks)
  BY <1>1, <1>3 DEF IInv, CallInv
<1>5. nTasks + Cardinality(Workers) <= IntMax
  BY <1>2, <1>3, <1>4, CountsAreNat, SizesAssumption DEF Refused
<1>6. ASSUME NEW k \in Nat, k < nTasks PROVE k \in Indices
  BY <1>3, <1>6 DEF Indices
<1>7. QED
  BY <1>1, <1>2, <1>3, <1>5, <1>6

\* The n_tasks arguments are integers.
LEMMA SizesAreInt == \A n \in Sizes \union {0} : n \in Int
BY SizesAssumption

\* The two spellings of what a finished batch has run agree.
LEMMA NotRunIsAllRan ==
  ASSUME NEW t \in Threads, ntasks[t] = 0, ran[t] = NotRun
  PROVE  AllRan(t)
<1>1. \A k \in Indices : ~(k < 0)
  BY SizesAssumption DEF Indices
<1>2. QED
  BY <1>1 DEF AllRan, NotRun
-----------------------------------------------------------------------------
(* The life of the pool                                                    *)

\* A new worker has seen generation 0, the only one there has been.
LEMMA CreateWorkerInv ==
  ASSUME IInv, NEW w \in Workers, CreateWorker(w)
  PROVE  IInv'
<1> USE DEF CreateWorker, poolVars, batchVars, callVars
<1>1. Pending' = Pending /\ Overran' = Overran
  BY DEF IInv, LifeInv, TypeOK, Pending, Overran, InBatch
<1>2. TypeOK'
  BY DEF IInv, TypeOK
<1>3. LifeInv'
  BY DEF IInv, TypeOK, LifeInv
<1>4. SubmitInv'
  BY DEF IInv, TypeOK, LifeInv, SubmitInv
<1>5. CountInv'
  BY <1>1 DEF IInv, TypeOK, LifeInv, CountInv, InBatch
<1>6. ClaimInv'
  <2>1. \A v \in Workers : wpc'[v] = wpc[v] \/ (wpc[v] = "absent" /\ wpc'[v] = "test")
    BY DEF IInv, TypeOK, LifeInv
  <2>2. \A v \in Workers : \A k : Holds(v, k)' <=> Holds(v, k)
    BY <2>1 DEF Holds
  <2>3. UNCHANGED <<index, next, nTasks, batch, ran>>
    OBVIOUS
  <2> HIDE DEF CreateWorker
  <2> QED
    BY <1>1, <2>1, <2>2, <2>3 DEF IInv, ClaimInv
<1>7. CallInv'
  BY DEF IInv, TypeOK, LifeInv, CallInv, AllRan, Refused
<1>8. RoomInv'
  BY <1>1 DEF IInv, RoomInv
<1>9. QED
  BY <1>2, <1>3, <1>4, <1>5, <1>6, <1>7, <1>8 DEF IInv

\* create() returns a pool with all its workers.
LEMMA CreateDoneInv ==
  ASSUME IInv, CreateDone
  PROVE  IInv'
<1> USE DEF CreateDone, batchVars, workerVars, callVars
<1>1. Pending' = Pending /\ Overran' = Overran
  BY DEF IInv, LifeInv, TypeOK, Pending, Overran, InBatch, WakeWorkers
<1>2. TypeOK'
  BY DEF IInv, TypeOK
<1>3. LifeInv'
  BY DEF IInv, TypeOK, LifeInv
<1>4. SubmitInv'
  BY DEF IInv, TypeOK, SubmitInv
<1>5. CountInv'
  BY <1>1 DEF IInv, TypeOK, LifeInv, CountInv, InBatch
<1>6. ClaimInv'
  BY <1>1 DEF IInv, TypeOK, LifeInv, ClaimInv, Holds
<1>7. CallInv'
  BY DEF IInv, TypeOK, CallInv, AllRan, Refused
<1>8. RoomInv'
  BY <1>1 DEF IInv, RoomInv
<1>9. QED
  BY <1>2, <1>3, <1>4, <1>5, <1>6, <1>7, <1>8 DEF IInv

\* destroy() frees the pool when every worker has left.
LEMMA JoinAndFreeInv ==
  ASSUME IInv, JoinAndFree
  PROVE  IInv'
<1> USE DEF JoinAndFree, Joined, batchVars, workerVars, callVars
<1>1. Pending' = Pending /\ Overran' = Overran
  BY DEF IInv, LifeInv, TypeOK, Pending, Overran, InBatch, WakeWorkers
<1>2. TypeOK'
  BY DEF IInv, TypeOK
<1>3. LifeInv'
  BY DEF IInv, TypeOK, LifeInv
<1>4. SubmitInv'
  BY DEF IInv, TypeOK, SubmitInv
<1>5. CountInv'
  BY <1>1 DEF IInv, TypeOK, LifeInv, CountInv, InBatch
<1>6. ClaimInv'
  BY <1>1 DEF IInv, TypeOK, LifeInv, ClaimInv, Holds
<1>7. CallInv'
  BY DEF IInv, TypeOK, CallInv, AllRan, Refused
<1>8. RoomInv'
  BY <1>1 DEF IInv, RoomInv
<1>9. QED
  BY <1>2, <1>3, <1>4, <1>5, <1>6, <1>7, <1>8 DEF IInv

\* Neither the start of destroy() nor a failed create() disturbs a batch.
LEMMA ShutdownInv ==
  ASSUME IInv, CreateFails \/ Destroy
  PROVE  IInv'
<1> USE DEF CreateFails, Destroy, Shutdown, WakeWorkers, batchVars, callVars
<1>1. Pending' = Pending /\ Overran' = Overran
  BY DEF IInv, LifeInv, TypeOK, Pending, Overran, InBatch, WakeWorkers
<1>2. TypeOK'
  BY DEF IInv, TypeOK
<1>3. LifeInv'
  BY DEF IInv, TypeOK, LifeInv
<1>4. SubmitInv'
  BY DEF IInv, TypeOK, LifeInv, SubmitInv
<1>5. CountInv'
  BY <1>1 DEF IInv, TypeOK, LifeInv, CountInv, InBatch
<1>6. ClaimInv'
  BY <1>1 DEF IInv, TypeOK, LifeInv, ClaimInv, Holds
<1>7. CallInv'
  BY DEF IInv, TypeOK, CallInv, AllRan, Refused
<1>8. RoomInv'
  BY <1>1 DEF IInv, RoomInv
<1>9. QED
  BY <1>2, <1>3, <1>4, <1>5, <1>6, <1>7, <1>8 DEF IInv
-----------------------------------------------------------------------------
(* run(), the steps that leave the batch to others                         *)

\* A call begins with nothing run.
LEMMA CallStepInv ==
  ASSUME IInv, NEW t \in Threads, NEW n \in Sizes, Call(t, n)
  PROVE  IInv'
<1> USE DEF Call, Caller, poolVars, batchVars, workerVars
<1>1. Pending' = Pending /\ Overran' = Overran
  BY DEF Pending, Overran, InBatch
<1>2. NotRun \in [Indices -> Nat]
  BY DEF NotRun
<1>3. TypeOK'
  BY <1>2 DEF IInv, TypeOK
<1>4. LifeInv'
  BY DEF IInv, TypeOK, LifeInv
<1>5. SubmitInv'
  BY ThreadsAssumption DEF IInv, TypeOK, SubmitInv
<1>6. CountInv'
  BY <1>1 DEF IInv, TypeOK, SubmitInv, CountInv, InBatch
<1>7. ClaimInv'
  BY <1>1 DEF IInv, TypeOK, SubmitInv, ClaimInv, Holds
<1>8. CallInv'
  BY DEF IInv, TypeOK, CallInv, AllRan, Refused
<1>9. RoomInv'
  BY <1>1 DEF IInv, RoomInv
<1>10. QED
  BY <1>3, <1>4, <1>5, <1>6, <1>7, <1>8, <1>9 DEF IInv

\* A refused call has run nothing.
LEMMA RefuseInv ==
  ASSUME IInv, NEW t \in Threads, Refuse(t)
  PROVE  IInv'
<1> USE DEF Refuse, poolVars, batchVars, workerVars
<1>1. Pending' = Pending /\ Overran' = Overran
  BY DEF Pending, Overran, InBatch
<1>2. TypeOK'
  BY DEF IInv, TypeOK
<1>3. LifeInv'
  BY DEF IInv, TypeOK, LifeInv
<1>4. SubmitInv'
  BY DEF IInv, TypeOK, SubmitInv
<1>5. CountInv'
  BY <1>1 DEF IInv, TypeOK, SubmitInv, CountInv, InBatch
<1>6. ClaimInv'
  BY <1>1 DEF IInv, TypeOK, SubmitInv, ClaimInv, Holds
<1>7. CallInv'
  BY DEF IInv, TypeOK, CallInv, AllRan, Refused
<1>8. RoomInv'
  BY <1>1 DEF IInv, RoomInv
<1>9. QED
  BY <1>2, <1>3, <1>4, <1>5, <1>6, <1>7, <1>8 DEF IInv

\* An empty batch is complete before it starts.
LEMMA ReturnEmptyInv ==
  ASSUME IInv, NEW t \in Threads, ReturnEmpty(t)
  PROVE  IInv'
<1> USE DEF ReturnEmpty, Succeed, poolVars, batchVars, workerVars
<1>1. Pending' = Pending /\ Overran' = Overran
  BY DEF Pending, Overran, InBatch
<1>2. TypeOK'
  BY DEF IInv, TypeOK
<1>3. LifeInv'
  BY DEF IInv, TypeOK, LifeInv
<1>4. SubmitInv'
  BY DEF IInv, TypeOK, SubmitInv
<1>5. CountInv'
  BY <1>1 DEF IInv, TypeOK, SubmitInv, CountInv, InBatch
<1>6. ClaimInv'
  BY <1>1 DEF IInv, TypeOK, SubmitInv, ClaimInv, Holds
<1>7. CallInv'
  <2>1. AllRan(t)
    BY NotRunIsAllRan DEF IInv, CallInv
  <2>2. QED
    BY <2>1 DEF IInv, TypeOK, CallInv, AllRan, Refused
<1>8. RoomInv'
  BY <1>1 DEF IInv, RoomInv
<1>9. QED
  BY <1>2, <1>3, <1>4, <1>5, <1>6, <1>7, <1>8 DEF IInv

\* A nested batch is run by its caller, who is no batch's owner.
LEMMA RunNestedInv ==
  ASSUME IInv, NEW t \in Threads, RunNested(t)
  PROVE  IInv'
<1> USE DEF RunNested, OnThisPool, poolVars, batchVars, workerVars
<1>1. Pending' = Pending /\ Overran' = Overran
  BY DEF Pending, Overran, InBatch
<1>2. /\ rpc[t] = "enter" /\ ran[t] = NotRun /\ t \in Workers /\ ran[t] \in [Indices -> Nat]
      /\ batch # t
  BY DEF IInv, TypeOK, SubmitInv, CallInv
<1>3. ran' = [ran EXCEPT ![t] = [k \in Indices |-> IF k < ntasks[t] THEN 1 ELSE 0]]
  <2>1. [k \in Indices |-> IF k < ntasks[t] THEN ran[t][k] + 1 ELSE ran[t][k]]
          = [k \in Indices |-> IF k < ntasks[t] THEN 1 ELSE 0]
    BY <1>2 DEF NotRun
  <2>2. QED
    BY <2>1 DEF IInv, TypeOK
<1>4. TypeOK'
  BY <1>3 DEF IInv, TypeOK
<1>5. LifeInv'
  BY DEF IInv, TypeOK, LifeInv
<1>6. SubmitInv'
  BY DEF IInv, TypeOK, SubmitInv
<1>7. CountInv'
  BY <1>1 DEF IInv, TypeOK, SubmitInv, CountInv, InBatch
<1>8. ClaimInv'
  BY <1>1, <1>2, <1>3 DEF IInv, TypeOK, SubmitInv, ClaimInv, Holds
<1>9. CallInv'
  <2>1. ntasks[t] \in Int /\ ~(ntasks[t] < 0) /\ ntasks[t] # 0
    BY SizesAssumption DEF IInv, TypeOK, Refused
  <2>2. QED
    BY <1>2, <1>3, <2>1 DEF IInv, TypeOK, CallInv, AllRan, Refused
<1>10. RoomInv'
  BY <1>1 DEF IInv, RoomInv
<1>11. QED
  BY <1>4, <1>5, <1>6, <1>7, <1>8, <1>9, <1>10 DEF IInv

\* A nested call returns with its batch complete.
LEMMA ReturnNestedInv ==
  ASSUME IInv, NEW t \in Threads, ReturnNested(t)
  PROVE  IInv'
<1> USE DEF ReturnNested, Succeed, poolVars, batchVars, workerVars
<1>1. Pending' = Pending /\ Overran' = Overran
  BY DEF Pending, Overran, InBatch
<1>2. TypeOK'
  BY DEF IInv, TypeOK
<1>3. LifeInv'
  BY DEF IInv, TypeOK, LifeInv
<1>4. SubmitInv'
  BY DEF IInv, TypeOK, SubmitInv
<1>5. CountInv'
  BY <1>1 DEF IInv, TypeOK, SubmitInv, CountInv, InBatch
<1>6. ClaimInv'
  BY <1>1 DEF IInv, TypeOK, SubmitInv, ClaimInv, Holds
<1>7. CallInv'
  BY DEF IInv, TypeOK, CallInv, AllRan, Refused
<1>8. RoomInv'
  BY <1>1 DEF IInv, RoomInv
<1>9. QED
  BY <1>2, <1>3, <1>4, <1>5, <1>6, <1>7, <1>8 DEF IInv

\* Only application threads get as far as the mutex submit.
LEMMA LockSubmitInv ==
  ASSUME IInv, NEW t \in Threads, LockSubmit(t)
  PROVE  IInv'
<1> USE DEF LockSubmit, OnThisPool, poolVars, batchVars, workerVars
<1>1. Pending' = Pending /\ Overran' = Overran
  BY DEF Pending, Overran, InBatch
<1>2. t \notin Workers
  BY DEF IInv, TypeOK, LifeInv, SubmitInv
<1>3. ntasks[t] > 0
  <2>1. ntasks[t] \in Int /\ ~(ntasks[t] < 0) /\ ntasks[t] # 0
    BY SizesAssumption DEF IInv, TypeOK, Refused
  <2>2. QED
    BY <2>1
<1>4. TypeOK'
  BY DEF IInv, TypeOK
<1>5. LifeInv'
  BY DEF IInv, TypeOK, LifeInv
<1>6. SubmitInv'
  BY <1>2, ThreadsAssumption DEF IInv, TypeOK, SubmitInv, Threads
<1>7. CountInv'
  BY <1>1 DEF IInv, TypeOK, SubmitInv, CountInv, InBatch
<1>8. ClaimInv'
  BY <1>1 DEF IInv, TypeOK, SubmitInv, ClaimInv, Holds
<1>9. CallInv'
  BY <1>3 DEF IInv, TypeOK, CallInv, AllRan, Refused
<1>10. RoomInv'
  BY <1>1 DEF IInv, RoomInv
<1>11. QED
  BY <1>4, <1>5, <1>6, <1>7, <1>8, <1>9, <1>10 DEF IInv

\* Waking up and sleeping again change nothing of the batch.
LEMMA WakeInv ==
  ASSUME IInv, NEW t \in Threads, SpuriousWake(t) \/ SleepAgain(t)
  PROVE  IInv'
<1> USE DEF SpuriousWake, SleepAgain, poolVars, batchVars, workerVars
<1>1. Pending' = Pending /\ Overran' = Overran
  BY DEF Pending, Overran, InBatch
<1>2. TypeOK'
  BY DEF IInv, TypeOK
<1>3. LifeInv'
  BY DEF IInv, TypeOK, LifeInv
<1>4. SubmitInv'
  BY DEF IInv, TypeOK, SubmitInv
<1>5. CountInv'
  BY <1>1 DEF IInv, TypeOK, SubmitInv, CountInv, InBatch, BatchDone
<1>6. ClaimInv'
  BY <1>1 DEF IInv, TypeOK, SubmitInv, ClaimInv, Holds
<1>7. CallInv'
  <2>1. rpc[t] \in {"sleep", "retest"} /\ rpc' \in {[rpc EXCEPT ![t] = "sleep"], [rpc EXCEPT ![t] = "retest"]}
    OBVIOUS
  <2>2. created' = created /\ ntasks' = ntasks /\ ran' = ran /\ result' = result
    OBVIOUS
  <2>3. QED
    BY <2>1, <2>2 DEF IInv, TypeOK, CallInv, AllRan, Refused
<1>8. RoomInv'
  BY <1>1 DEF IInv, RoomInv
<1>9. QED
  BY <1>2, <1>3, <1>4, <1>5, <1>6, <1>7, <1>8 DEF IInv

\* The mutex submit is free only when no batch is published.
LEMMA UnlockSubmitInv ==
  ASSUME IInv, NEW t \in Threads, UnlockSubmit(t)
  PROVE  IInv'
<1> USE DEF UnlockSubmit, Succeed, poolVars, batchVars, workerVars
<1>1. Pending' = Pending /\ Overran' = Overran
  BY DEF Pending, Overran, InBatch
<1>2. TypeOK'
  BY DEF IInv, TypeOK
<1>3. LifeInv'
  BY DEF IInv, TypeOK, LifeInv
<1>4. SubmitInv'
  BY ThreadsAssumption DEF IInv, TypeOK, SubmitInv, Threads
<1>5. CountInv'
  BY <1>1 DEF IInv, TypeOK, SubmitInv, CountInv, InBatch
<1>6. ClaimInv'
  BY <1>1 DEF IInv, TypeOK, SubmitInv, ClaimInv, Holds
<1>7. CallInv'
  BY DEF IInv, TypeOK, CallInv, AllRan, Refused
<1>8. RoomInv'
  BY <1>1 DEF IInv, RoomInv
<1>9. QED
  BY <1>2, <1>3, <1>4, <1>5, <1>6, <1>7, <1>8 DEF IInv
-----------------------------------------------------------------------------
(* run(), publishing and retiring a batch                                  *)

\* A batch is published when no worker is pending, and makes all of them so.
LEMMA PublishInv ==
  ASSUME IInv, NEW t \in Threads, Publish(t)
  PROVE  IInv'
<1> USE DEF Publish, WakeWorkers, poolVars
<1>1. batch = NoThread /\ Pending = {} /\ created = Workers
  BY DEF IInv, TypeOK, LifeInv, SubmitInv, CountInv
<1>2. \A w \in Workers : ~InBatch(w) /\ ~InBatch(w)' /\ seen'[w] # generation'
  BY <1>1 DEF IInv, TypeOK, LifeInv, Pending, InBatch
<1>3. Pending' = Workers /\ created' = Workers
  BY <1>1, <1>2 DEF Pending
<1>4. Cardinality(Overran') \in Nat /\ Cardinality(created) \in Nat
  <2>1. Overran' \subseteq Workers /\ created \subseteq Workers
    BY DEF IInv, TypeOK, Overran
  <2>2. QED
    BY <2>1, ThreadsAssumption, FS_Subset, FS_CardinalityType
<1>5. ~Refused(ntasks[t]) /\ ntasks[t] > 0 /\ ran[t] = NotRun /\ ntasks[t] \in Int
  BY SizesAssumption DEF IInv, TypeOK, CallInv
<1>6. TypeOK'
  BY <1>4, <1>5 DEF IInv, TypeOK
<1>7. LifeInv'
  BY <1>1 DEF IInv, TypeOK, LifeInv
<1>8. SubmitInv'
  BY <1>1, ThreadsAssumption DEF IInv, TypeOK, SubmitInv
<1>9. CountInv'
  <2>1. IsFiniteSet(created) /\ Cardinality(created) # 0
    BY <1>1, ThreadsAssumption, FS_EmptySet
  <2>2. remaining' > 0
    BY <1>4, <2>1
  <2>3. QED
    BY <1>1, <1>2, <1>3, <1>5, <2>2, ThreadsAssumption DEF IInv, TypeOK, CountInv, Threads
<1>10. ClaimInv'
  <2>1. \A w \in Workers : wpc'[w] \notin {"check", "task", "finish"}
    BY <1>2 DEF InBatch
  <2>2. \A k \in Indices : ran'[batch'][k] = 0 /\ ~(k < next')
    BY <1>5 DEF NotRun, Indices
  <2>3. QED
    BY <1>3, <2>1, <2>2 DEF ClaimInv, Holds
<1>11. CallInv'
  <2>1. ~Refused(ntasks[t])'
    BY <1>5 DEF Refused
  <2>2. QED
    BY <2>1 DEF IInv, TypeOK, CallInv, AllRan, Refused
<1>12. RoomInv'
  BY <1>4, <1>5 DEF RoomInv
<1>13. QED
  BY <1>6, <1>7, <1>8, <1>9, <1>10, <1>11, <1>12 DEF IInv

\* A batch is retired when no worker is pending: each index was claimed, and
\* each claim below nTasks has been run.
LEMMA RetireInv ==
  ASSUME IInv, NEW t \in Threads, Retire(t)
  PROVE  IInv'
<1> USE DEF Retire, poolVars, workerVars
<1>1. batch = t /\ Pending = {} /\ created = Workers
  <2>1. batch = t /\ remaining = 0
    BY DEF IInv, SubmitInv, BatchDone
  <2>2. created = Workers /\ IsFiniteSet(Pending) /\ Cardinality(Pending) = 0
    BY <2>1, CountsAreNat DEF IInv, TypeOK, LifeInv, CountInv
  <2>3. QED
    BY <2>1, <2>2, FS_EmptySet
<1>2. Pending' = Pending /\ Overran' = Overran
  BY DEF Pending, Overran, InBatch
<1>3. \A w \in Workers, k \in Nat : w \notin Pending /\ ~Holds(w, k)
  BY <1>1 DEF Pending, InBatch, Holds
<1>4. nTasks <= next
  BY <1>1, <1>3, ThreadsAssumption DEF IInv, ClaimInv, Threads
<1>5. AllRan(t)
  <2>1. ASSUME NEW k \in Indices PROVE ran[t][k] = IF k < ntasks[t] THEN 1 ELSE 0
    <3>1. k \in Nat
      BY DEF Indices
    <3>2. nTasks = ntasks[t] /\ nTasks \in Int /\ next \in Int
      BY <1>1, ThreadsAssumption DEF IInv, TypeOK, CountInv, Threads
    <3>3. k < nTasks => k < next
      BY <1>4, <3>1, <3>2
    <3>4. ran[t][k] = IF k < nTasks /\ k < next /\ ~\E w \in Workers : Holds(w, k) THEN 1 ELSE 0
      BY <1>1, ThreadsAssumption DEF IInv, ClaimInv, Threads
    <3>5. QED
      BY <1>3, <3>1, <3>2, <3>3, <3>4
  <2>2. ran[t] \in [Indices -> Nat]
    BY DEF IInv, TypeOK
  <2>3. QED
    BY <2>1, <2>2 DEF AllRan
<1>6. TypeOK'
  BY DEF IInv, TypeOK
<1>7. LifeInv'
  BY DEF IInv, TypeOK, LifeInv
<1>8. SubmitInv'
  BY <1>1, ThreadsAssumption DEF IInv, TypeOK, SubmitInv, Threads
<1>9. CountInv'
  BY <1>1, <1>2 DEF IInv, TypeOK, CountInv, InBatch
<1>10. ClaimInv'
  BY <1>2 DEF IInv, TypeOK, ClaimInv, Holds
<1>11. CallInv'
  <2>1. ntasks[t] > 0
    BY <1>1, ThreadsAssumption DEF IInv, TypeOK, CountInv, Threads
  <2>2. QED
    BY <1>5, <2>1 DEF IInv, TypeOK, CallInv, AllRan, Refused
<1>12. RoomInv'
  BY <1>2 DEF IInv, RoomInv
<1>13. QED
  BY <1>6, <1>7, <1>8, <1>9, <1>10, <1>11, <1>12 DEF IInv
-----------------------------------------------------------------------------
(* worker()                                                                *)

\* A worker that takes up a generation was pending and stays so.
LEMMA TestInv ==
  ASSUME IInv, NEW w \in Workers, Test(w)
  PROVE  IInv'
<1> USE DEF Test, LoopHead, poolVars, batchVars, callVars
<1>1. Pending' = Pending /\ Overran' = Overran
  BY DEF IInv, TypeOK, LifeInv, CountInv, Pending, Overran, InBatch
<1>2. wpc[w] = "test" /\ w \in created
  BY DEF IInv, TypeOK, LifeInv
<1>3. \A v \in Workers, k \in Nat : Holds(v, k)' <=> Holds(v, k)
  BY <1>2 DEF IInv, TypeOK, Holds
<1>4. TypeOK'
  <2>1. wpc' \in [Workers -> {"absent", "test", "sleep", "claim", "check", "task", "finish", "exit"}]
    BY DEF IInv, TypeOK
  <2>2. seen' \in [Workers -> Nat]
    BY DEF IInv, TypeOK
  <2>3. active' \in [Workers -> BOOLEAN]
    BY DEF IInv, TypeOK
  <2>4. QED
    BY <2>1, <2>2, <2>3 DEF IInv, TypeOK
<1>5. LifeInv'
  <2>1. CASE ~stop /\ seen[w] = generation
    BY <1>2, <2>1 DEF IInv, TypeOK, LifeInv
  <2>2. CASE stop
    BY <1>2, <2>2 DEF IInv, TypeOK, LifeInv
  <2>3. CASE ~stop /\ seen[w] # generation
    BY <1>2, <2>3 DEF IInv, TypeOK, LifeInv
  <2>4. QED
    BY <2>1, <2>2, <2>3
<1>6. SubmitInv'
  BY DEF IInv, TypeOK, SubmitInv
<1>7. CountInv'
  BY <1>1 DEF IInv, TypeOK, LifeInv, CountInv, InBatch
<1>8. ClaimInv'
  <2>1. \A v \in Workers :
          /\ wpc'[v] \in {"check", "task"} => wpc'[v] = wpc[v]
          /\ wpc'[v] = "finish" => wpc[v] = "finish"
    BY <1>2 DEF IInv, TypeOK
  <2>2. \A k \in Indices : k \in Nat
    BY DEF Indices
  <2>3. QED
    BY <1>1, <1>3, <2>1, <2>2 DEF IInv, ClaimInv
<1>9. CallInv'
  BY DEF IInv, TypeOK, CallInv, AllRan, Refused
<1>10. RoomInv'
  BY <1>1 DEF IInv, RoomInv
<1>11. QED
  BY <1>4, <1>5, <1>6, <1>7, <1>8, <1>9, <1>10 DEF IInv

\* A sleeping worker may look at the generation at any time.
LEMMA SpuriousTestInv ==
  ASSUME IInv, NEW w \in Workers, SpuriousTest(w)
  PROVE  IInv'
<1> USE DEF SpuriousTest, poolVars, batchVars, callVars
<1>1. Pending' = Pending /\ Overran' = Overran
  BY DEF IInv, TypeOK, LifeInv, CountInv, Pending, Overran, InBatch
<1>2. TypeOK'
  BY DEF IInv, TypeOK
<1>3. LifeInv'
  BY DEF IInv, TypeOK, LifeInv
<1>4. SubmitInv'
  BY DEF IInv, TypeOK, SubmitInv
<1>5. CountInv'
  BY <1>1 DEF IInv, TypeOK, LifeInv, CountInv, InBatch
<1>6. ClaimInv'
  BY <1>1 DEF IInv, TypeOK, ClaimInv, Holds
<1>7. CallInv'
  BY DEF IInv, TypeOK, CallInv, AllRan, Refused
<1>8. RoomInv'
  BY <1>1 DEF IInv, RoomInv
<1>9. QED
  BY <1>2, <1>3, <1>4, <1>5, <1>6, <1>7, <1>8 DEF IInv

\* A claim is above all earlier ones; one past the end uses up the room run()
\* left for the worker.
LEMMA ClaimStepInv ==
  ASSUME IInv, NEW w \in Workers, Claim(w)
  PROVE  IInv'
<1> USE DEF Claim, poolVars, callVars
<1>1. InBatch(w) /\ batch # NoThread /\ wpc[w] = "claim"
  BY InBatchFacts, ThreadsAssumption DEF InBatch, Threads
<1>2. Pending' = Pending
  BY DEF IInv, TypeOK, Pending, InBatch
<1>3. Overran' = IF next >= nTasks THEN Overran \union {w} ELSE Overran
  BY InBatchFacts, <1>1, <1>2 DEF IInv, TypeOK, Overran
<1>4. w \notin Overran
  BY InBatchFacts, <1>1 DEF Overran
<1>5. /\ IsFiniteSet(Overran) /\ Cardinality(Overran) \in Nat
      /\ Cardinality(Overran \union {w}) = Cardinality(Overran) + 1
  BY <1>4, CountsAreNat, FS_AddElement DEF IInv, TypeOK
<1>6. TypeOK'
  BY DEF IInv, TypeOK
<1>7. LifeInv'
  BY DEF IInv, TypeOK, LifeInv
<1>8. SubmitInv'
  BY DEF IInv, TypeOK, SubmitInv
<1>9. CountInv'
  BY <1>2 DEF IInv, TypeOK, LifeInv, CountInv, InBatch
<1>10. ClaimInv'
  <2>1. \A v \in Workers, k \in Nat : Holds(v, k)' <=> IF v = w THEN k = next ELSE Holds(v, k)
    BY DEF IInv, TypeOK, Holds
  <2>2. \A v \in Workers, k \in Nat : Holds(v, k) => k < next
    BY DEF IInv, ClaimInv, Holds
  <2>3. \A u, v \in Workers, k \in Nat : (Holds(u, k) /\ Holds(v, k))' => u = v
    BY <2>1, <2>2 DEF IInv, TypeOK, ClaimInv
  <2>4. ASSUME NEW k \in Indices
        PROVE  ran'[batch'][k] = IF k < nTasks' /\ k < next' /\ ~\E v \in Workers : Holds(v, k)'
                                 THEN 1 ELSE 0
    <3>1. k \in Nat /\ next \in Nat
      BY DEF Indices, IInv, TypeOK
    <3>2. ran[batch][k] = IF k < nTasks /\ k < next /\ ~\E v \in Workers : Holds(v, k) THEN 1 ELSE 0
      BY <1>1 DEF IInv, ClaimInv
    <3>3. ~Holds(w, k)
      BY <1>1 DEF Holds
    <3>4. CASE k = next
      BY <2>1, <3>1, <3>2, <3>4
    <3>5. CASE k # next
      <4>1. (\E v \in Workers : Holds(v, k)') <=> (\E v \in Workers : Holds(v, k))
        BY <2>1, <3>1, <3>3, <3>5
      <4>2. k < next' <=> k < next
        BY <3>1, <3>5
      <4>3. QED
        BY <3>2, <4>1, <4>2
    <3>6. QED
      BY <3>4, <3>5
  <2>5. \A v \in Workers :
          /\ (wpc[v] \in {"check", "task"} => index[v] < next)'
          /\ (wpc[v] = "task" => index[v] < nTasks)'
          /\ (batch # NoThread /\ (wpc[v] = "finish" \/ v \notin Pending) => nTasks <= next)'
    BY <1>2 DEF IInv, TypeOK, ClaimInv
  <2>6. QED
    BY <2>3, <2>4, <2>5 DEF ClaimInv
<1>11. CallInv'
  BY DEF IInv, TypeOK, CallInv, AllRan, Refused
<1>12. RoomInv'
  <2>1. nTasks + Cardinality(Workers) <= IntMax
    BY <1>1, BatchFacts
  <2>2. next + 1 <= nTasks + Cardinality(Overran')
    BY <1>3, <1>5 DEF IInv, TypeOK, RoomInv
  <2>3. QED
    BY <2>1, <2>2 DEF RoomInv
<1>13. QED
  BY <1>6, <1>7, <1>8, <1>9, <1>10, <1>11, <1>12 DEF IInv

\* Only an index of the batch is run.
LEMMA EnterTaskInv ==
  ASSUME IInv, NEW w \in Workers, EnterTask(w)
  PROVE  IInv'
<1> USE DEF EnterTask, InRange, poolVars, batchVars, callVars
<1>1. Pending' = Pending /\ Overran' = Overran
  BY DEF IInv, TypeOK, LifeInv, CountInv, Pending, Overran, InBatch
<1>2. TypeOK'
  BY DEF IInv, TypeOK
<1>3. LifeInv'
  BY DEF IInv, TypeOK, LifeInv
<1>4. SubmitInv'
  BY DEF IInv, TypeOK, SubmitInv
<1>5. CountInv'
  BY <1>1 DEF IInv, TypeOK, LifeInv, CountInv, InBatch
<1>6. ClaimInv'
  BY <1>1 DEF IInv, TypeOK, ClaimInv, Holds
<1>7. CallInv'
  BY DEF IInv, TypeOK, CallInv, AllRan, Refused
<1>8. RoomInv'
  BY <1>1 DEF IInv, RoomInv
<1>9. QED
  BY <1>2, <1>3, <1>4, <1>5, <1>6, <1>7, <1>8 DEF IInv

\* A task run counts once for the index its worker alone held.
LEMMA LeaveTaskInv ==
  ASSUME IInv, NEW w \in Workers, LeaveTask(w)
  PROVE  IInv'
<1> USE DEF LeaveTask, poolVars, batchVars
<1>1. /\ batch # NoThread /\ batch \in Threads /\ rpc[batch] \in {"sleep", "retest"}
      /\ wpc[w] = "task" /\ batch # w
  BY InBatchFacts, ThreadsAssumption DEF IInv, SubmitInv, InBatch, Threads
<1>2. Pending' = Pending
  BY DEF IInv, TypeOK, Pending, InBatch
<1>3. Overran' = Overran
  BY <1>2 DEF IInv, TypeOK, Overran
<1>4. index[w] \in Indices /\ index[w] \in Nat /\ index[w] < nTasks /\ index[w] < next
  BY <1>1, BatchFacts DEF IInv, TypeOK, ClaimInv
<1>5. ran' = [ran EXCEPT ![batch][index[w]] = @ + 1]
  BY <1>1
<1>6. TypeOK'
  <2>1. ran[batch] \in [Indices -> Nat] /\ ran \in [Threads -> [Indices -> Nat]]
    BY <1>1 DEF IInv, TypeOK
  <2>2. [ran[batch] EXCEPT ![index[w]] = @ + 1] \in [Indices -> Nat]
    BY <1>4, <2>1
  <2>3. ran' \in [Threads -> [Indices -> Nat]]
    BY <1>1, <1>5, <2>1, <2>2
  <2>4. calls' \in [Threads -> Nat]
    BY DEF IInv, TypeOK
  <2>5. wpc' \in [Workers -> {"absent", "test", "sleep", "claim", "check", "task", "finish", "exit"}]
    BY DEF IInv, TypeOK
  <2>6. QED
    BY <2>3, <2>4, <2>5 DEF IInv, TypeOK
<1>7. LifeInv'
  BY DEF IInv, TypeOK, LifeInv
<1>8. SubmitInv'
  BY DEF IInv, TypeOK, SubmitInv
<1>9. CountInv'
  BY <1>2 DEF IInv, TypeOK, LifeInv, CountInv, InBatch
<1>10. ClaimInv'
  <2>1. \A v \in Workers, k \in Nat : Holds(v, k)' <=> v # w /\ Holds(v, k)
    BY DEF IInv, TypeOK, Holds
  <2>2. Holds(w, index[w]) /\ \A k \in Nat : Holds(w, k) => k = index[w]
    BY <1>1 DEF Holds
  <2>3. \A u, v \in Workers, k \in Nat : Holds(u, k) /\ Holds(v, k) => u = v
    BY DEF IInv, ClaimInv
  <2>4. ASSUME NEW k \in Indices
        PROVE  ran'[batch'][k] = IF k < nTasks' /\ k < next' /\ ~\E v \in Workers : Holds(v, k)'
                                 THEN 1 ELSE 0
    <3>1. k \in Nat /\ ran \in [Threads -> [Indices -> Nat]]
      <4>1. k \in Nat
        BY DEF Indices
      <4>2. QED
        BY <4>1 DEF IInv, TypeOK
    <3>2. ran[batch][k] = IF k < nTasks /\ k < next /\ ~\E v \in Workers : Holds(v, k) THEN 1 ELSE 0
      BY <1>1 DEF IInv, ClaimInv
    <3>3. CASE k = index[w]
      <4>1. ran[batch][k] = 0
        BY <2>2, <3>2, <3>3
      <4>2. ran'[batch][k] = 1
        BY <1>1, <1>5, <3>1, <3>3, <4>1
      <4>3. ~\E v \in Workers : Holds(v, k)'
        BY <2>1, <2>2, <2>3, <3>1, <3>3
      <4>4. QED
        BY <1>4, <3>3, <4>2, <4>3
    <3>4. CASE k # index[w]
      <4>1. ran'[batch][k] = ran[batch][k]
        BY <1>1, <1>5, <3>1, <3>4
      <4>2. (\E v \in Workers : Holds(v, k)') <=> (\E v \in Workers : Holds(v, k))
        BY <2>1, <2>2, <3>1, <3>4
      <4>3. QED
        BY <3>2, <4>1, <4>2
    <3>5. QED
      BY <3>3, <3>4
  <2>5. \A v \in Workers :
          /\ (wpc[v] \in {"check", "task"} => index[v] < next)'
          /\ (wpc[v] = "task" => index[v] < nTasks)'
          /\ (batch # NoThread /\ (wpc[v] = "finish" \/ v \notin Pending) => nTasks <= next)'
    BY <1>2 DEF IInv, TypeOK, ClaimInv
  <2>6. QED
    BY <2>1, <2>3, <2>4, <2>5 DEF ClaimInv
<1>11. CallInv'
  <2>1. \A t \in Threads : t # batch => ran'[t] = ran[t]
    BY <1>5 DEF IInv, TypeOK
  <2>2. QED
    BY <1>1, <2>1 DEF IInv, TypeOK, CallInv, AllRan, Refused
<1>12. RoomInv'
  BY <1>3 DEF IInv, RoomInv
<1>13. QED
  BY <1>6, <1>7, <1>8, <1>9, <1>10, <1>11, <1>12 DEF IInv

\* A worker leaves the claim loop only when every index has been claimed.
LEMMA LeaveBatchInv ==
  ASSUME IInv, NEW w \in Workers, LeaveBatch(w)
  PROVE  IInv'
<1> USE DEF LeaveBatch, InRange, poolVars, batchVars, callVars
<1>1. Pending' = Pending /\ Overran' = Overran
  BY DEF IInv, TypeOK, LifeInv, CountInv, Pending, Overran, InBatch
<1>2. TypeOK'
  BY DEF IInv, TypeOK
<1>3. LifeInv'
  BY DEF IInv, TypeOK, LifeInv
<1>4. SubmitInv'
  BY DEF IInv, TypeOK, SubmitInv
<1>5. CountInv'
  BY <1>1 DEF IInv, TypeOK, LifeInv, CountInv, InBatch
<1>6. ClaimInv'
  BY <1>1 DEF IInv, TypeOK, ClaimInv, Holds
<1>7. CallInv'
  BY DEF IInv, TypeOK, CallInv, AllRan, Refused
<1>8. RoomInv'
  BY <1>1 DEF IInv, RoomInv
<1>9. QED
  BY <1>2, <1>3, <1>4, <1>5, <1>6, <1>7, <1>8 DEF IInv

\* A worker that reports back leaves Pending, so remaining stays its size.
LEMMA FinishInv ==
  ASSUME IInv, NEW w \in Workers, Finish(w)
  PROVE  IInv'
<1> USE DEF Finish, SignalDone, LoopHead, poolVars
<1>1. InBatch(w) /\ w \in Pending /\ wpc[w] = "finish" /\ seen[w] = generation
  BY InBatchFacts DEF IInv, CountInv, InBatch
<1>2. phase = "live" /\ stop = FALSE /\ batch # NoThread
  BY <1>1, InBatchFacts, ThreadsAssumption DEF IInv, TypeOK, LifeInv, Threads
<1>3. /\ wpc' \in {[wpc EXCEPT ![w] = "test"], [wpc EXCEPT ![w] = "sleep"]}
      /\ wpc'[w] = "sleep" => seen[w] = generation
      /\ seen' = seen
      /\ active' = active \/ active' = [active EXCEPT ![w] = FALSE]
  BY <1>1, <1>2
<1>4. Pending' = Pending \ {w}
  BY <1>1, <1>3 DEF IInv, TypeOK, Pending, InBatch
<1>5. Overran' = Overran
  BY <1>1, <1>3, <1>4 DEF IInv, TypeOK, Overran
<1>6. Cardinality(Pending') = remaining - 1 /\ remaining - 1 \in Nat
  <2>1. remaining = Cardinality(Pending) /\ IsFiniteSet(Pending)
    BY CountsAreNat DEF IInv, TypeOK, CountInv
  <2>2. IsFiniteSet(Pending \ {w}) /\ Cardinality(Pending \ {w}) = Cardinality(Pending) - 1
    BY <1>1, <2>1, FS_RemoveElement
  <2>3. QED
    BY <1>4, <2>1, <2>2, FS_CardinalityType
<1>7. rpc' \in [Threads -> {"out", "enter", "return", "publish", "sleep", "retest", "unlock"}]
  BY DEF IInv, TypeOK
<1>8. \A t \in Threads :
        rpc'[t] = rpc[t] \/ (rpc[t] = "sleep" /\ rpc'[t] = "retest")
  BY DEF IInv, TypeOK
<1>9. TypeOK'
  BY <1>3, <1>6, <1>7 DEF IInv, TypeOK
<1>10. LifeInv'
  <2>1. phase' = phase /\ created' = created /\ stop' = stop /\ generation' = generation
    OBVIOUS
  <2>2. \A t \in Threads : rpc[t] = "out" => rpc'[t] = "out"
    BY <1>8
  <2>3. ASSUME NEW v \in Workers
        PROVE  /\ wpc'[v] = "absent" <=> v \notin created'
               /\ wpc'[v] = "exit" => stop'
               /\ wpc'[v] = "sleep" => ~stop' /\ seen'[v] = generation'
               /\ active'[v] <=> wpc'[v] \in {"claim", "check", "task"}
               /\ seen'[v] <= generation'
               /\ v \notin created' => seen'[v] = 0
    <3>1. CASE v = w
      BY <1>1, <1>3, <2>1, <3>1 DEF IInv, TypeOK, LifeInv
    <3>2. CASE v # w
      BY <1>3, <2>1, <3>2 DEF IInv, TypeOK, LifeInv
    <3>3. QED
      BY <3>1, <3>2
  <2>4. QED
    BY <1>2, <2>1, <2>2, <2>3 DEF IInv, LifeInv
<1>11. SubmitInv'
  BY <1>1, <1>3, <1>8 DEF IInv, TypeOK, SubmitInv
<1>12. CountInv'
  <2>1. \A t \in Threads : rpc'[t] = "sleep" => remaining' # 0
    OBVIOUS
  <2>2. ASSUME NEW t \in Threads, rpc'[t] = "sleep" PROVE remaining' > 0
    <3>1. remaining' # 0 /\ remaining' \in Nat
      BY <1>6, <2>1, <2>2
    <3>2. QED
      BY ONLY <3>1
  <2>3. QED
    BY <1>2, <1>3, <1>6, <2>2 DEF IInv, TypeOK, CountInv, InBatch
<1>13. ClaimInv'
  <2>1. \A v \in Workers, k \in Nat : Holds(v, k)' <=> Holds(v, k)
    BY <1>1, <1>3 DEF IInv, TypeOK, Holds
  <2>2. \A v \in Workers :
          /\ (wpc[v] \in {"check", "task"} => index[v] < next)'
          /\ (wpc[v] = "task" => index[v] < nTasks)'
          /\ (batch # NoThread /\ (wpc[v] = "finish" \/ v \notin Pending) => nTasks <= next)'
    BY <1>1, <1>2, <1>3, <1>4 DEF IInv, TypeOK, ClaimInv
  <2>3. \A k \in Indices : k \in Nat
    BY DEF Indices
  <2>4. QED
    BY <2>1, <2>2, <2>3 DEF IInv, ClaimInv
<1>14. CallInv'
  <2>1. ran' = ran /\ ntasks' = ntasks /\ result' = result /\ created' = created
    OBVIOUS
  <2>2. QED
    BY <1>8, <2>1 DEF IInv, CallInv, AllRan, Refused
<1>15. RoomInv'
  BY <1>5 DEF IInv, RoomInv
<1>16. QED
  BY <1>9, <1>10, <1>11, <1>12, <1>13, <1>14, <1>15 DEF IInv

\* Steps that change nothing keep the invariant.
LEMMA StutterInv ==
  ASSUME IInv, UNCHANGED vars
  PROVE  IInv'
<1> USE DEF vars, poolVars, batchVars, workerVars, callVars
<1>1. Pending' = Pending /\ Overran' = Overran
  BY DEF Pending, Overran, InBatch
<1>2. TypeOK' /\ LifeInv' /\ SubmitInv'
  BY DEF IInv, TypeOK, LifeInv, SubmitInv
<1>3. CountInv' /\ RoomInv'
  BY <1>1 DEF IInv, CountInv, RoomInv, InBatch
<1>4. ClaimInv'
  BY <1>1 DEF IInv, ClaimInv, Holds
<1>5. CallInv'
  BY DEF IInv, CallInv, AllRan, Refused
<1>6. QED
  BY <1>2, <1>3, <1>4, <1>5 DEF IInv
-----------------------------------------------------------------------------
(* The theorems                                                            *)

\* The invariant is inductive: every step of the pool keeps it.
LEMMA StepIInv == IInv /\ [Next]_vars => IInv'
<1> SUFFICES ASSUME IInv, [Next]_vars PROVE IInv'
  OBVIOUS
<1>1. CASE PoolStep
  BY <1>1, CreateDoneInv, ShutdownInv, JoinAndFreeInv DEF PoolStep
<1>2. ASSUME NEW w \in Workers, CreateWorker(w) \/ WorkerStep(w) \/ SpuriousTest(w)
      PROVE  IInv'
  BY <1>2, CreateWorkerInv, TestInv, ClaimStepInv, EnterTaskInv, LeaveTaskInv,
     LeaveBatchInv, FinishInv, SpuriousTestInv DEF WorkerStep
<1>3. ASSUME NEW t \in Threads, RunStep(t) \/ SpuriousWake(t)
      PROVE  IInv'
  BY <1>3, RefuseInv, ReturnEmptyInv, RunNestedInv, ReturnNestedInv, LockSubmitInv,
     PublishInv, WakeInv, RetireInv, UnlockSubmitInv DEF RunStep
<1>4. ASSUME NEW t \in Threads, NEW n \in Sizes, Call(t, n)
      PROVE  IInv'
  BY <1>4, CallStepInv
<1>5. CASE Terminated \/ UNCHANGED vars
  BY <1>5, StutterInv DEF Terminated
<1>6. QED
  BY <1>1, <1>2, <1>3, <1>4, <1>5 DEF Next

\* The inductive invariant holds in every behaviour, whatever the number of
\* workers, callers, calls and tasks.
THEOREM InvariantHolds == Spec => []IInv
<1>1. QED
  BY InitIInv, StepIInv, PTL DEF Spec

\* Every variable keeps its type; in particular remaining never drops below 0.
THEOREM TypeCorrect == Spec => []TypeOK
<1>1. IInv => TypeOK
  BY DEF IInv
<1>2. QED
  BY <1>1, InvariantHolds, PTL

\* What the invariant says of a returned call.
LEMMA IInvExactlyOnce == IInv => ExactlyOnce
<1> SUFFICES ASSUME IInv, NEW t \in Threads, rpc[t] = "out", NEW k \in Indices
             PROVE  ran[t][k] = IF result[t] = 0 /\ k < ntasks[t] THEN 1 ELSE 0
  BY DEF ExactlyOnce
<1>1. CASE result[t] = 0
  BY <1>1 DEF IInv, CallInv, AllRan
<1>2. CASE result[t] # 0
  BY <1>2 DEF IInv, CallInv, NotRun
<1>3. QED
  BY <1>1, <1>2

\* A run() that returned 0 executed each of its tasks exactly once, one that
\* returned -1 executed none.
THEOREM RunsExactlyOnce == Spec => []ExactlyOnce
<1>1. QED
  BY IInvExactlyOnce, InvariantHolds, PTL

\* The batch a worker reads outside the state mutex is the published one: its
\* caller is still waiting, so neither fn, tasks, gctx nor n_tasks change.
THEOREM BatchStaysPublished == Spec => []WorkersReadLiveBatch
<1>1. IInv => WorkersReadLiveBatch
  <2> SUFFICES ASSUME IInv, NEW w \in Workers, InBatch(w)
               PROVE  batch # NoThread /\ seen[w] = generation
    BY DEF WorkersReadLiveBatch
  <2>1. batch # NoThread
    BY InBatchFacts, ThreadsAssumption DEF Threads
  <2>2. QED
    BY <2>1 DEF IInv, CountInv
<1>2. QED
  BY <1>1, InvariantHolds, PTL

\* The claim counter stays within int: each worker claims at most once past
\* the end of a batch, and run() left room for that.
THEOREM ClaimCounterFits == Spec => []ClaimsFit
<1>1. IInv => ClaimsFit
  <2> SUFFICES ASSUME IInv PROVE next <= IntMax
    BY DEF ClaimsFit
  <2>1. next \in Nat /\ nTasks \in Int /\ IntMax \in Nat
    BY SizesAssumption DEF IInv, TypeOK
  <2>2. Cardinality(Overran) <= Cardinality(Workers)
        /\ Cardinality(Overran) \in Nat /\ Cardinality(Workers) \in Nat
    BY CountsAreNat DEF IInv, TypeOK
  <2>3. QED
    BY <2>1, <2>2 DEF IInv, RoomInv
<1>2. QED
  BY <1>1, InvariantHolds, PTL

\* Whoever sleeps on one of the two condition variables will be woken, in a
\* pool of any size and whatever wakes spuriously: nothing sleeps through a
\* batch or through the end of the pool, and remaining counts workers that are
\* awake and can go on.
THEOREM WakeupsAreNotLost == Spec => []NoLostWakeup
<1>1. IInv => NoLostWakeup
  <2> SUFFICES ASSUME IInv PROVE NoLostWakeup
    OBVIOUS
  <2>1. \A w \in Workers : wpc[w] = "sleep" => ~stop /\ seen[w] = generation
    BY DEF IInv, LifeInv
  <2>2. ASSUME NEW t \in Threads, rpc[t] = "sleep"
        PROVE  \E w \in created :
                 /\ wpc[w] \notin {"sleep", "exit"} /\ (InBatch(w) \/ seen[w] # generation)
                 /\ rpc[w] # "out" => active[w]
    <3>1. Pending # {}
      <4>1. remaining > 0 /\ remaining = Cardinality(Pending)
        BY <2>2 DEF IInv, CountInv
      <4>2. QED
        BY <4>1, FS_EmptySet
    <3>2. PICK w \in created : InBatch(w) \/ seen[w] # generation
      BY <3>1 DEF Pending
    <3>3. w \in Workers
      BY DEF IInv, TypeOK
    <3>4. wpc[w] # "sleep"
      BY <3>2, <3>3, <2>1 DEF InBatch
    <3>5. wpc[w] # "exit"
      BY <2>2, <3>3 DEF IInv, TypeOK, LifeInv
    <3>6. rpc[w] # "out" => active[w]
      BY <3>3 DEF IInv, LifeInv, SubmitInv, Threads
    <3>7. QED
      BY <3>2, <3>4, <3>5, <3>6
  <2>3. QED
    BY <2>1, <2>2 DEF NoLostWakeup
<1>2. QED
  BY <1>1, InvariantHolds, PTL
-----------------------------------------------------------------------------
(* The pool implements the executor contract                               *)

\* The refinement mapping of the contract's only variable that is not the
\* pool's own.
Status == [t \in Threads |-> IF rpc[t] = "out" THEN "out" ELSE "in"]

\* The index sets of the two specifications are the same definition.
LEMMA SameIndices == Contract!Indices = Indices /\ Contract!NotRun = NotRun
BY DEF Contract!Indices, Indices, Contract!NotRun, NotRun

\* A call with no task is never refused: the workers' claims alone fit.
LEMMA EmptyNotRefused ==
  ASSUME IInv PROVE ~Refused(0)
<1>1. /\ Cardinality(created) \in Nat /\ Cardinality(Workers) \in Nat
      /\ Cardinality(created) <= Cardinality(Workers)
  <2>1. created \subseteq Workers /\ IsFiniteSet(Workers)
    BY ThreadsAssumption DEF IInv, TypeOK
  <2>2. QED
    BY <2>1, FS_Subset, FS_CardinalityType
<1>2. QED
  BY <1>1, SizesAssumption DEF Refused

\* A call that ends with everything run, or that is refused, is a Return of
\* the contract.
LEMMA ReturnStep ==
  ASSUME IInv, IInv', NEW t \in Threads, rpc[t] # "out",
         rpc' = [rpc EXCEPT ![t] = "out"], UNCHANGED <<ntasks, ran>>,
         \/ AllRan(t) /\ ntasks[t] >= 0 /\ result' = [result EXCEPT ![t] = 0]
         \/ ntasks[t] # 0 /\ result' = [result EXCEPT ![t] = -1]
  PROVE  Contract!Return(t)
<1>1. Status[t] = "in" /\ Status' = [Status EXCEPT ![t] = "out"]
  BY DEF Status, IInv, TypeOK
<1>2. AllRan(t) => \A k \in Indices : k < ntasks[t] => ran[t][k] = 1
  BY DEF AllRan
<1>3. QED
  BY <1>1, <1>2, SameIndices DEF Contract!Return, Status

\* A step of rpc that leaves every thread inside or outside run() where it was
\* is invisible to the contract.
LEMMA HiddenStep ==
  ASSUME IInv, IInv', UNCHANGED <<ntasks, ran, result>>,
         \A t \in Threads : rpc'[t] = "out" <=> rpc[t] = "out"
  PROVE  UNCHANGED Contract!vars
BY DEF Contract!vars

\* Initial states are initial states of the contract.
LEMMA RefinesInit == Init => Contract!Init
BY SameIndices DEF Init, Contract!Init

\* Every step of the pool is a step of the contract or hidden from it.
LEMMA RefinesNext == IInv /\ IInv' /\ [Next]_vars => [Contract!Next]_(Contract!vars)
<1> SUFFICES ASSUME IInv, IInv', [Next]_vars PROVE [Contract!Next]_(Contract!vars)
  OBVIOUS
<1> USE DEF poolVars, batchVars, workerVars, callVars
<1>1. CASE PoolStep \/ Terminated \/ UNCHANGED vars
  <2>1. UNCHANGED <<rpc, ntasks, ran, result>>
    BY <1>1 DEF PoolStep, CreateDone, CreateFails, Destroy, Shutdown, JoinAndFree, Terminated, vars
  <2>2. QED
    BY <2>1, HiddenStep
<1>2. ASSUME NEW w \in Workers, CreateWorker(w) \/ WorkerStep(w) \/ SpuriousTest(w)
      PROVE  [Contract!Next]_(Contract!vars)
  <2>1. CASE LeaveTask(w)
    <3>1. InBatch(w) /\ wpc[w] = "task"
      BY <2>1 DEF LeaveTask, InBatch
    <3>2. batch \in Threads /\ batch # NoThread /\ rpc[batch] \in {"sleep", "retest"}
      BY <3>1, InBatchFacts, ThreadsAssumption DEF Threads
    <3>3. /\ index[w] \in Indices /\ index[w] < nTasks /\ nTasks = ntasks[batch]
          /\ index[w] \in Nat /\ index[w] < next
      BY <3>1, <3>2, BatchFacts DEF IInv, TypeOK, ClaimInv, CountInv
    <3>4. ran[batch][index[w]] = 0
      <4>1. Holds(w, index[w])
        BY <3>1 DEF Holds
      <4>2. QED
        BY <3>2, <3>3, <4>1 DEF IInv, ClaimInv
    <3>5. /\ UNCHANGED <<rpc, ntasks, result>>
          /\ ran' = [ran EXCEPT ![batch][index[w]] = @ + 1]
      BY <2>1, <3>2 DEF LeaveTask
    <3>6. ran' = [ran EXCEPT ![batch] =
                    [k \in Indices |-> IF k \in {index[w]} THEN 1 ELSE @[k]]]
      <4>1. ran[batch] \in [Indices -> Nat]
        BY <3>2 DEF IInv, TypeOK
      <4>2. [ran[batch] EXCEPT ![index[w]] = @ + 1]
              = [k \in Indices |-> IF k \in {index[w]} THEN 1 ELSE ran[batch][k]]
        BY <3>4, <4>1
      <4>3. QED
        BY <3>5, <4>2
    <3>7. Contract!Invoke(batch, {index[w]})
      BY <3>2, <3>3, <3>4, <3>5, <3>6, SameIndices DEF Contract!Invoke
    <3>8. {index[w]} \in (SUBSET Contract!Indices) \ {{}}
      <4>1. {index[w]} \subseteq Contract!Indices
        BY <3>3, SameIndices
      <4>2. {index[w]} # {}
        OBVIOUS
      <4>3. QED
        BY <4>1, <4>2
    <3>9. QED
      BY <3>2, <3>7, <3>8 DEF Contract!Next
  <2>2. CASE CreateWorker(w) \/ SpuriousTest(w) \/ Test(w) \/ Claim(w) \/ EnterTask(w) \/ LeaveBatch(w)
    <3>1. UNCHANGED <<rpc, ntasks, ran, result>>
      BY <2>2 DEF CreateWorker, SpuriousTest, Test, Claim, EnterTask, LeaveBatch
    <3>2. QED
      BY <3>1, HiddenStep
  <2>3. CASE Finish(w)
    <3>1. UNCHANGED <<ntasks, ran, result>>
      BY <2>3 DEF Finish
    <3>2. \A t \in Threads : rpc'[t] = rpc[t] \/ (rpc[t] = "sleep" /\ rpc'[t] = "retest")
      BY <2>3 DEF Finish, SignalDone, IInv, TypeOK
    <3>3. QED
      BY <3>1, <3>2, HiddenStep
  <2>4. QED
    BY <1>2, <2>1, <2>2, <2>3 DEF WorkerStep
<1>3. ASSUME NEW t \in Threads, RunStep(t) \/ SpuriousWake(t)
      PROVE  [Contract!Next]_(Contract!vars)
  <2>1. CASE Refuse(t)
    <3>1. ntasks[t] # 0
      BY <2>1, EmptyNotRefused DEF Refuse
    <3>2. Contract!Return(t)
      BY <2>1, <3>1, ReturnStep DEF Refuse
    <3>3. QED
      BY <3>2 DEF Contract!Next
  <2>2. CASE ReturnEmpty(t)
    <3>1. AllRan(t)
      BY <2>2, NotRunIsAllRan DEF ReturnEmpty, IInv, CallInv
    <3>2. /\ rpc[t] # "out" /\ rpc' = [rpc EXCEPT ![t] = "out"]
          /\ UNCHANGED <<ntasks, ran>> /\ ntasks[t] >= 0
          /\ result' = [result EXCEPT ![t] = 0]
      BY <2>2 DEF ReturnEmpty, Succeed
    <3>3. Contract!Return(t)
      BY <3>1, <3>2, ReturnStep
    <3>4. QED
      BY <3>3 DEF Contract!Next
  <2>3. CASE RunNested(t)
    <3> DEFINE K == {k \in Indices : k < ntasks[t]}
    <3>1. ntasks[t] > 0 /\ ntasks[t] \in Sizes /\ ntasks[t] \in Int /\ rpc[t] = "enter"
      <4>1. ntasks[t] \in Sizes \union {0} /\ ntasks[t] # 0 /\ ~(ntasks[t] < 0) /\ rpc[t] = "enter"
        BY <2>3 DEF RunNested, Refused, IInv, TypeOK
      <4>2. ntasks[t] \in Sizes /\ ntasks[t] \in Int
        BY <4>1, SizesAssumption
      <4>3. QED
        BY <4>1, <4>2
    <3>2. ran[t] = NotRun
      BY <3>1 DEF IInv, CallInv
    <3>3. 0 \in K
      <4>1. 0 \in 0 .. ntasks[t] - 1 /\ 0 < ntasks[t]
        BY <3>1
      <4>2. 0 \in Indices
        BY <3>1, <4>1 DEF Indices
      <4>3. QED
        BY <4>1, <4>2
    <3>4. [k \in Indices |-> IF k < ntasks[t] THEN ran[t][k] + 1 ELSE ran[t][k]]
            = [k \in Indices |-> IF k \in K THEN 1 ELSE ran[t][k]]
      BY <3>2 DEF NotRun
    <3>5. ran' = [ran EXCEPT ![t] = [k \in Indices |-> IF k \in K THEN 1 ELSE @[k]]]
      <4> HIDE DEF K
      <4>1. QED
        BY <2>3, <3>4 DEF RunNested
    <3>6. \A k \in K : k < ntasks[t] /\ ran[t][k] = 0
      BY <3>2 DEF NotRun
    <3>7. UNCHANGED <<ntasks, result>> /\ Status[t] = "in" /\ Status' = Status
      BY <2>3 DEF RunNested, Status, IInv, TypeOK
    <3>8. Contract!Invoke(t, K)
      <4> HIDE DEF K
      <4>1. QED
        BY <3>5, <3>6, <3>7, SameIndices DEF Contract!Invoke, Status
    <3>9. K \in (SUBSET Contract!Indices) \ {{}}
      <4>1. K \subseteq Contract!Indices
        BY SameIndices
      <4> HIDE DEF K
      <4>2. QED
        BY <3>3, <4>1
    <3>10. QED
      BY <3>8, <3>9 DEF Contract!Next
  <2>4. CASE ReturnNested(t) \/ UnlockSubmit(t)
    <3>1. AllRan(t) /\ rpc[t] # "out"
      BY <2>4 DEF ReturnNested, UnlockSubmit, IInv, CallInv
    <3>2. ntasks[t] >= 0
      <4>1. ntasks[t] > 0
        BY <2>4 DEF ReturnNested, UnlockSubmit, IInv, CallInv
      <4>2. ntasks[t] \in Int
        <5>1. ntasks[t] \in Sizes \union {0}
          BY DEF IInv, TypeOK
        <5>2. QED
          BY <5>1, SizesAreInt
      <4>3. QED
        BY <4>1, <4>2
    <3>3. Contract!Return(t)
      BY <2>4, <3>1, <3>2, ReturnStep DEF ReturnNested, UnlockSubmit, Succeed
    <3>4. QED
      BY <3>3 DEF Contract!Next
  <2>5. CASE LockSubmit(t) \/ Publish(t) \/ SleepAgain(t) \/ Retire(t) \/ SpuriousWake(t)
    <3>1. UNCHANGED <<ntasks, ran, result>>
      BY <2>5 DEF LockSubmit, Publish, SleepAgain, Retire, SpuriousWake
    <3>2. \A u \in Threads : rpc'[u] = "out" <=> rpc[u] = "out"
      BY <2>5 DEF LockSubmit, Publish, SleepAgain, Retire, SpuriousWake, IInv, TypeOK
    <3>3. QED
      BY <3>1, <3>2, HiddenStep
  <2>6. QED
    BY <1>3, <2>1, <2>2, <2>3, <2>4, <2>5 DEF RunStep
<1>4. ASSUME NEW t \in Threads, NEW n \in Sizes, Call(t, n)
      PROVE  [Contract!Next]_(Contract!vars)
  <2>1. Status[t] = "out" /\ Status' = [Status EXCEPT ![t] = "in"]
    BY <1>4 DEF Call, Status, IInv, TypeOK
  <2>2. Contract!Call(t, n)
    BY <1>4, <2>1, SameIndices DEF Call, Contract!Call, Status
  <2>3. QED
    BY <2>2 DEF Contract!Next
<1>5. QED
  BY <1>1, <1>2, <1>3, <1>4 DEF Next

\* The pthread pool is an executor: every behaviour of it is one the contract
\* of camblas_executor.h allows.
THEOREM PoolIsExecutor == Spec => ImplementsExecutor
<1>1. Spec => Contract!Spec
  BY InvariantHolds, RefinesInit, RefinesNext, PTL DEF Spec, Contract!Spec
<1>2. QED
  BY <1>1 DEF ImplementsExecutor
=============================================================================
