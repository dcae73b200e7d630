--------------------------- MODULE SpinPool_proofs ---------------------------
(***************************************************************************)
(* The inductive invariant of SpinPool and what follows from it for every  *)
(* number of threads, columns, batches and sizes, and wherever the         *)
(* generation wraps.                                                       *)
(***************************************************************************)
EXTENDS SpinPool, Slices_proofs

\* Where the caller is between releasing a batch and having all its
\* acknowledgements, and where it has published one.
Released  == {"wake", "touch", "task", "wait"}
Published == Released \union {"store"}

CallerPlaces == Published \union {"idle", "ready", "enter", "done", "fence"}
HelperPlaces == {"absent", "poll", "futex", "sleep", "load", "exit", "touch", "task"}

\* Which phases of the pool's life allow what.
LifeInv ==
  /\ pc[0] \in CallerPlaces /\ \A h \in Helpers : pc[h] \in HelperPlaces
  /\ \A h \in Helpers : pc[h] = "absent" <=> h \notin created
  /\ workers = (IF phase \in {"live", "stopping", "joining"} THEN N - 1 ELSE 0)
  /\ phase \notin {"new", "starting"} => created = Helpers
  /\ phase \notin {"live", "stopped"} => pc[0] = "idle"
  /\ phase \in {"stopping", "joining", "stopped"} => gen < 0
  /\ pc[0] \in Published => phase = "live"

\* The generation handshake.  A helper outside its slice has acknowledged what
\* it has seen, one inside has not; between batches all have seen the last
\* generation; a negative one is never acknowledged.
GenInv ==
  /\ \A h \in Helpers :
       /\ ack[h] >= 0
       /\ pc[h] \notin {"touch", "task", "exit"} => ack[h] = seen[h]
       /\ pc[h] = "exit" => gen < 0
       /\ InSlice(h) => /\ pc[0] \in Released /\ seen[h] = gen /\ gen >= 0
                        /\ ack[h] # gen
  /\ pc[0] \in Released => seen[0] = gen
  /\ phase \in {"new", "starting", "live"} /\ pc[0] \notin Released =>
       gen >= 0 /\ \A h \in Helpers : seen[h] = gen
  /\ pc[0] = "wait" => at[0] >= 1 /\ \A h \in Helpers : h < at[0] => ack[h] = gen

\* The published batch is the call's, and its preparation is no longer pending.
JobInv ==
  /\ pc[0] \in Published => job.n = ntasks /\ (job.computes <=> Computes)
  /\ pc[0] \in Published \union {"done"} => ~pending /\ ntasks > 0
  /\ pc[0] \in Published \union {"done"} \/ (pc[0] = "enter" /\ ntasks > 0) => owner < ntasks
  /\ pc[0] # "idle" => gemm # "none"
  /\ pc[0] = "fence" => Computes
  /\ pc[0] = "ready" => batches + (IF Computes THEN 1 ELSE 2) <= Batches
  /\ pc[0] \in Published \union {"enter", "done"} /\ ~Computes => batches + 1 <= Batches

\* Has thread t run task k of its slice of the released batch?
Finished(t) == IF t = 0 THEN pc[0] = "wait" ELSE ack[t] = gen
HasRun(t, k) ==
  /\ k \in Slice(t, job.n, N)
  /\ Finished(t) \/ (pc[t] = "task" /\ k < at[t])

\* What each batch has run so far, by where the caller is.
RanInv ==
  /\ pc[0] \in {"enter", "store"} => ran = NotRun
  /\ pc[0] \in Released =>
       /\ \A k \in Indices : ran[k] = IF \E t \in Threads : HasRun(t, k) THEN 1 ELSE 0
       /\ \A t \in Threads : pc[t] = "task" => Begin(t, job.n, N) <= at[t]
  /\ pc[0] = "done" => ran = [k \in Indices |-> IF k < ntasks THEN 1 ELSE 0]

\* A packed GEMM has used up its preparation when its packing batch is done;
\* the computing batch only moves C forward.
Computed == \A j \in Cells : cells[j] = "value"
CellInv ==
  gemm = "packed" =>
    /\ packed => ~pending
    /\ pc[0] \in Published /\ packed => ~job.touch
    /\ pc[0] \in Released /\ packed /\ ran[owner] = 1 => Computed
    /\ pc[0] = "done" /\ packed => Computed
    /\ pc[0] \in {"fence", "idle"} \/ (pc[0] = "enter" /\ ntasks = 0) => Computed

IInv == TypeOK /\ LifeInv /\ GenInv /\ JobInv /\ RanInv /\ CellInv

-----------------------------------------------------------------------------
(* Facts that the steps share                                              *)

\* The caller is thread 0 and no helper.
LEMMA ThreadFacts ==
  /\ 0 \in Threads
  /\ \A h \in Helpers : h \in Threads /\ h # 0 /\ h \in Nat
  /\ \A t \in Threads : t \in Nat /\ (t = 0 \/ t \in Helpers)
BY SpinAssumption DEF Threads, Helpers

\* Sizes are natural numbers, and their indices are the natural numbers below.
LEMMA SizeFacts ==
  /\ \A n \in Sizes \union {0} : n \in Nat /\ n \in Sizes
  /\ \A n \in Sizes, k \in Nat : k < n => k \in Indices
  /\ Indices \subseteq Nat
BY SpinAssumption DEF Indices

\* Slices begin and end at natural numbers.
LEMMA SliceFacts ==
  ASSUME NEW n \in Nat, NEW t \in Threads
  PROVE  /\ Begin(t, n, N) \in Nat /\ End(t, n, N) \in Nat
         /\ Begin(t, n, N) <= End(t, n, N) /\ End(t, n, N) <= n
BY SliceBounds, SpinAssumption DEF Threads

\* The type of NotRun.
LEMMA NotRunType == NotRun \in [Indices -> {0, 1}]
BY DEF NotRun

\* A thread in its slice works on the released batch and has not finished it.
LEMMA SliceThreadFacts ==
  ASSUME IInv, NEW t \in Threads, InSlice(t)
  PROVE  /\ pc[0] \in Released /\ phase = "live" /\ gen = seen[t] /\ ~Finished(t)
         /\ job.n = ntasks /\ ntasks \in Sizes /\ ntasks \in Nat /\ ntasks > 0
         /\ (job.computes <=> Computes) /\ owner \in Nat /\ owner < ntasks
<1>1. pc[0] \in Released /\ gen = seen[t] /\ ~Finished(t)
  BY ThreadFacts DEF IInv, GenInv, InSlice, Released, Finished
<1>2. phase = "live"
  BY <1>1 DEF IInv, LifeInv, Published
<1>3. job.n = ntasks /\ ntasks > 0 /\ (job.computes <=> Computes) /\ owner < ntasks
  BY <1>1 DEF IInv, JobInv, Published
<1>4. ntasks \in Sizes /\ ntasks \in Nat /\ owner \in Nat
  BY SizeFacts DEF IInv, TypeOK
<1>5. QED
  BY <1>1, <1>2, <1>3, <1>4

\* Steps that neither run a task nor begin or end a slice keep what has run.
LEMMA RanStable ==
  ASSUME IInv, pc[0] \in Released, pc'[0] \in Released,
         UNCHANGED <<ran, job, gen, ack>>, pc[0] = "wait" <=> pc'[0] = "wait",
         \A t \in Threads : pc'[t] = "task" <=> pc[t] = "task",
         \A t \in Threads : pc[t] = "task" => at'[t] = at[t]
  PROVE  RanInv'
<1>1. ASSUME NEW t \in Threads, NEW k \in Indices
      PROVE  HasRun(t, k)' <=> HasRun(t, k)
  BY DEF HasRun, Finished
<1>2. QED
  BY <1>1 DEF IInv, RanInv, Released

\* The invariant holds initially.
LEMMA InitIInv == Init => IInv
<1> SUFFICES ASSUME Init PROVE IInv
  OBVIOUS
<1> USE DEF Init
<1>1. TypeOK
  <2>1. gen \in -GenMax - 1 .. GenMax /\ ack \in [Threads -> -GenMax - 1 .. GenMax]
        /\ seen \in [Threads -> -GenMax - 1 .. GenMax]
    BY SpinAssumption
  <2>2. pc \in [Threads -> {"idle", "absent"}]
    OBVIOUS
  <2>3. job \in [n : Sizes \union {0}, touch : BOOLEAN, computes : BOOLEAN]
    OBVIOUS
  <2>4. batches \in 0 .. Batches /\ workers \in {0, N - 1} /\ owner \in Nat
    BY SpinAssumption
  <2>5. QED
    BY <2>1, <2>2, <2>3, <2>4, NotRunType DEF TypeOK
<1>2. LifeInv
  BY ThreadFacts DEF LifeInv, CallerPlaces, HelperPlaces, Published, Released
<1>3. GenInv
  BY ThreadFacts DEF GenInv, Released, InSlice
<1>4. JobInv
  BY ThreadFacts DEF JobInv, Published, Released
<1>5. RanInv
  BY ThreadFacts DEF RanInv, Released
<1>6. CellInv
  BY DEF CellInv
<1>7. QED
  BY <1>1, <1>2, <1>3, <1>4, <1>5, <1>6 DEF IInv


\* The pool starts with nothing released.
LEMMA StartInv ==
  ASSUME IInv, Start
  PROVE  IInv'
<1> USE ThreadFacts DEF Start, Goto, poolVars, gemmVars, callVars
<1>1. TypeOK'
  BY SpinAssumption, SizeFacts, NotRunType DEF IInv, TypeOK
<1>2. LifeInv'
  BY DEF IInv, TypeOK, LifeInv, CallerPlaces, HelperPlaces, Published, Released
<1>3. GenInv'
  BY DEF IInv, TypeOK, LifeInv, GenInv, Published, Released, InSlice
<1>4. JobInv'
  BY SizeFacts DEF IInv, TypeOK, LifeInv, GenInv, JobInv, Published, Released, Computes
<1>5. RanInv'
  BY DEF IInv, TypeOK, LifeInv, GenInv, JobInv, RanInv, Published, Released, HasRun, Finished, InSlice
<1>6. CellInv'
  BY DEF IInv, TypeOK, LifeInv, GenInv, JobInv, RanInv, CellInv, Published, Released, Computed, Computes
<1>7. QED
  BY <1>1, <1>2, <1>3, <1>4, <1>5, <1>6 DEF IInv

\* A new helper has seen generation 0, the only one there has been.
LEMMA CreateHelperInv ==
  ASSUME IInv, NEW h \in Helpers, CreateHelper(h)
  PROVE  IInv'
<1> USE ThreadFacts DEF CreateHelper, Goto, poolVars, gemmVars, callVars
<1>1. TypeOK'
  BY SpinAssumption, SizeFacts, NotRunType DEF IInv, TypeOK
<1>2. LifeInv'
  BY DEF IInv, TypeOK, LifeInv, CallerPlaces, HelperPlaces, Published, Released
<1>3. GenInv'
  BY DEF IInv, TypeOK, LifeInv, GenInv, Published, Released, InSlice
<1>4. JobInv'
  BY SizeFacts DEF IInv, TypeOK, LifeInv, GenInv, JobInv, Published, Released, Computes
<1>5. RanInv'
  BY DEF IInv, TypeOK, LifeInv, GenInv, JobInv, RanInv, Published, Released, HasRun, Finished, InSlice
<1>6. CellInv'
  BY DEF IInv, TypeOK, LifeInv, GenInv, JobInv, RanInv, CellInv, Published, Released, Computed, Computes
<1>7. QED
  BY <1>1, <1>2, <1>3, <1>4, <1>5, <1>6 DEF IInv

\* All helpers exist when the first GEMM may begin.
LEMMA StartedInv ==
  ASSUME IInv, Started
  PROVE  IInv'
<1> USE ThreadFacts DEF Started, Goto, poolVars, gemmVars, callVars
<1>1. TypeOK'
  BY SpinAssumption, SizeFacts, NotRunType DEF IInv, TypeOK
<1>2. LifeInv'
  BY DEF IInv, TypeOK, LifeInv, CallerPlaces, HelperPlaces, Published, Released
<1>3. GenInv'
  BY DEF IInv, TypeOK, LifeInv, GenInv, Published, Released, InSlice
<1>4. JobInv'
  BY SizeFacts DEF IInv, TypeOK, LifeInv, GenInv, JobInv, Published, Released, Computes
<1>5. RanInv'
  BY DEF IInv, TypeOK, LifeInv, GenInv, JobInv, RanInv, Published, Released, HasRun, Finished, InSlice
<1>6. CellInv'
  BY DEF IInv, TypeOK, LifeInv, GenInv, JobInv, RanInv, CellInv, Published, Released, Computed, Computes
<1>7. QED
  BY <1>1, <1>2, <1>3, <1>4, <1>5, <1>6 DEF IInv

\* The destructor finds every helper outside its slice.
LEMMA StopInv ==
  ASSUME IInv, Stop
  PROVE  IInv'
<1> USE ThreadFacts DEF Stop, Goto, poolVars, gemmVars, callVars
<1>1. TypeOK'
  BY SpinAssumption, SizeFacts, NotRunType DEF IInv, TypeOK
<1>2. LifeInv'
  BY DEF IInv, TypeOK, LifeInv, CallerPlaces, HelperPlaces, Published, Released
<1>3. GenInv'
  BY DEF IInv, TypeOK, LifeInv, GenInv, Published, Released, InSlice
<1>4. JobInv'
  BY SizeFacts DEF IInv, TypeOK, LifeInv, GenInv, JobInv, Published, Released, Computes
<1>5. RanInv'
  BY DEF IInv, TypeOK, LifeInv, GenInv, JobInv, RanInv, Published, Released, HasRun, Finished, InSlice
<1>6. CellInv'
  BY DEF IInv, TypeOK, LifeInv, GenInv, JobInv, RanInv, CellInv, Published, Released, Computed, Computes
<1>7. QED
  BY <1>1, <1>2, <1>3, <1>4, <1>5, <1>6 DEF IInv

\* Waking the helpers changes nothing but where they are.
LEMMA StopWakeInv ==
  ASSUME IInv, StopWake
  PROVE  IInv'
<1> USE ThreadFacts DEF StopWake, Goto, poolVars, gemmVars, callVars, Wake
<1>1. TypeOK'
  BY SpinAssumption, SizeFacts, NotRunType DEF IInv, TypeOK
<1>2. LifeInv'
  BY DEF IInv, TypeOK, LifeInv, CallerPlaces, HelperPlaces, Published, Released
<1>3. GenInv'
  BY DEF IInv, TypeOK, LifeInv, GenInv, Published, Released, InSlice
<1>4. JobInv'
  BY SizeFacts DEF IInv, TypeOK, LifeInv, GenInv, JobInv, Published, Released, Computes
<1>5. RanInv'
  BY DEF IInv, TypeOK, LifeInv, GenInv, JobInv, RanInv, Published, Released, HasRun, Finished, InSlice
<1>6. CellInv'
  BY DEF IInv, TypeOK, LifeInv, GenInv, JobInv, RanInv, CellInv, Published, Released, Computed, Computes
<1>7. QED
  BY <1>1, <1>2, <1>3, <1>4, <1>5, <1>6 DEF IInv

\* The pool is gone when every helper has left.
LEMMA JoinInv ==
  ASSUME IInv, Join
  PROVE  IInv'
<1> USE ThreadFacts DEF Join, Goto, poolVars, gemmVars, callVars
<1>1. TypeOK'
  BY SpinAssumption, SizeFacts, NotRunType DEF IInv, TypeOK
<1>2. LifeInv'
  BY DEF IInv, TypeOK, LifeInv, CallerPlaces, HelperPlaces, Published, Released
<1>3. GenInv'
  BY DEF IInv, TypeOK, LifeInv, GenInv, Published, Released, InSlice
<1>4. JobInv'
  BY SizeFacts DEF IInv, TypeOK, LifeInv, GenInv, JobInv, Published, Released, Computes
<1>5. RanInv'
  BY DEF IInv, TypeOK, LifeInv, GenInv, JobInv, RanInv, Published, Released, HasRun, Finished, InSlice
<1>6. CellInv'
  BY DEF IInv, TypeOK, LifeInv, GenInv, JobInv, RanInv, CellInv, Published, Released, Computed, Computes
<1>7. QED
  BY <1>1, <1>2, <1>3, <1>4, <1>5, <1>6 DEF IInv

\* A GEMM begins between batches.
LEMMA BeginGemmInv ==
  ASSUME IInv, NEW g \in {"direct", "packed"}, NEW touch \in BOOLEAN, NEW par \in BOOLEAN, BeginGemm(g, touch, par)
  PROVE  IInv'
<1> USE ThreadFacts DEF BeginGemm, Goto, poolVars, gemmVars, callVars, Computes
<1>1. TypeOK'
  BY SpinAssumption, SizeFacts, NotRunType DEF IInv, TypeOK
<1>2. LifeInv'
  BY DEF IInv, TypeOK, LifeInv, CallerPlaces, HelperPlaces, Published, Released
<1>3. GenInv'
  BY DEF IInv, TypeOK, LifeInv, GenInv, Published, Released, InSlice
<1>4. JobInv'
  BY SizeFacts DEF IInv, TypeOK, LifeInv, GenInv, JobInv, Published, Released, Computes
<1>5. RanInv'
  BY DEF IInv, TypeOK, LifeInv, GenInv, JobInv, RanInv, Published, Released, HasRun, Finished, InSlice
<1>6. CellInv'
  BY DEF IInv, TypeOK, LifeInv, GenInv, JobInv, RanInv, CellInv, Published, Released, Computed, Computes
<1>7. QED
  BY <1>1, <1>2, <1>3, <1>4, <1>5, <1>6 DEF IInv

\* A call begins with nothing run.
LEMMA CallInv ==
  ASSUME IInv, NEW n \in Sizes, NEW o \in 0 .. n - 1, Call(n, o)
  PROVE  IInv'
<1> USE ThreadFacts DEF Call, Goto, poolVars, gemmVars, callVars, Computes
<1>1. TypeOK'
  <2>1. o \in Nat /\ n \in Nat
    BY SizeFacts
  <2>2. batches' \in 0 .. Batches
    BY SpinAssumption DEF IInv, TypeOK, JobInv
  <2>3. QED
    BY <2>1, <2>2, NotRunType DEF IInv, TypeOK
<1>2. LifeInv'
  BY DEF IInv, TypeOK, LifeInv, CallerPlaces, HelperPlaces, Published, Released
<1>3. GenInv'
  BY DEF IInv, TypeOK, LifeInv, GenInv, Published, Released, InSlice
<1>4. JobInv'
  BY SizeFacts DEF IInv, TypeOK, LifeInv, GenInv, JobInv, Published, Released, Computes
<1>5. RanInv'
  BY DEF IInv, TypeOK, LifeInv, GenInv, JobInv, RanInv, Published, Released, HasRun, Finished, InSlice
<1>6. CellInv'
  BY DEF IInv, TypeOK, LifeInv, GenInv, JobInv, RanInv, CellInv, Published, Released, Computed, Computes
<1>7. QED
  BY <1>1, <1>2, <1>3, <1>4, <1>5, <1>6 DEF IInv

\* The fence is a call with nothing to run.
LEMMA FenceInv ==
  ASSUME IInv, Fence
  PROVE  IInv'
<1> USE ThreadFacts DEF Fence, Goto, poolVars, gemmVars, callVars, Computes
<1>1. TypeOK'
  BY SpinAssumption, SizeFacts, NotRunType DEF IInv, TypeOK
<1>2. LifeInv'
  BY DEF IInv, TypeOK, LifeInv, CallerPlaces, HelperPlaces, Published, Released
<1>3. GenInv'
  BY DEF IInv, TypeOK, LifeInv, GenInv, Published, Released, InSlice
<1>4. JobInv'
  BY SizeFacts DEF IInv, TypeOK, LifeInv, GenInv, JobInv, Published, Released, Computes
<1>5. RanInv'
  BY DEF IInv, TypeOK, LifeInv, GenInv, JobInv, RanInv, Published, Released, HasRun, Finished, InSlice
<1>6. CellInv'
  BY DEF IInv, TypeOK, LifeInv, GenInv, JobInv, RanInv, CellInv, Published, Released, Computed, Computes
<1>7. QED
  BY <1>1, <1>2, <1>3, <1>4, <1>5, <1>6 DEF IInv

\* It returns without touching C.
LEMMA ReturnEmptyInv ==
  ASSUME IInv, ReturnEmpty
  PROVE  IInv'
<1> USE ThreadFacts DEF ReturnEmpty, Goto, poolVars, gemmVars, callVars, Return, Computes
<1>1. TypeOK'
  BY SpinAssumption, SizeFacts, NotRunType DEF IInv, TypeOK
<1>2. LifeInv'
  BY DEF IInv, TypeOK, LifeInv, CallerPlaces, HelperPlaces, Published, Released
<1>3. GenInv'
  BY DEF IInv, TypeOK, LifeInv, GenInv, Published, Released, InSlice
<1>4. JobInv'
  BY SizeFacts DEF IInv, TypeOK, LifeInv, GenInv, JobInv, Published, Released, Computes
<1>5. RanInv'
  BY DEF IInv, TypeOK, LifeInv, GenInv, JobInv, RanInv, Published, Released, HasRun, Finished, InSlice
<1>6. CellInv'
  BY DEF IInv, TypeOK, LifeInv, GenInv, JobInv, RanInv, CellInv, Published, Released, Computed, Computes
<1>7. QED
  BY <1>1, <1>2, <1>3, <1>4, <1>5, <1>6 DEF IInv

\* A serial batch has run everything when it is done.
LEMMA RunSerialInv ==
  ASSUME IInv, RunSerial
  PROVE  IInv'
<1> USE ThreadFacts DEF RunSerial, Goto, poolVars, gemmVars, callVars, RunsSerially, Computes
<1>1. TypeOK'
  <2>1. ran' \in [Indices -> {0, 1}]
    OBVIOUS
  <2>2. cells' \in [Cells -> {"stale", "zero", "value"}]
    BY DEF IInv, TypeOK
  <2>3. QED
    BY <2>1, <2>2 DEF IInv, TypeOK
<1>2. LifeInv'
  BY DEF IInv, TypeOK, LifeInv, CallerPlaces, HelperPlaces, Published, Released
<1>3. GenInv'
  BY DEF IInv, TypeOK, LifeInv, GenInv, Published, Released, InSlice
<1>4. JobInv'
  BY SizeFacts DEF IInv, TypeOK, LifeInv, GenInv, JobInv, Published, Released, Computes
<1>5. RanInv'
  BY DEF IInv, TypeOK, LifeInv, GenInv, JobInv, RanInv, Published, Released, HasRun, Finished, InSlice
<1>6. CellInv'
  BY DEF IInv, TypeOK, LifeInv, GenInv, JobInv, RanInv, CellInv, Published, Released, Computed, Computes
<1>7. QED
  BY <1>1, <1>2, <1>3, <1>4, <1>5, <1>6 DEF IInv

\* Publishing hands the preparation over to the batch.
LEMMA PublishInv ==
  ASSUME IInv, Publish
  PROVE  IInv'
<1> USE ThreadFacts DEF Publish, Goto, poolVars, gemmVars, callVars, RunsSerially, TakeTouch, Computes
<1>1. TypeOK'
  BY SpinAssumption, SizeFacts, NotRunType DEF IInv, TypeOK
<1>2. LifeInv'
  BY DEF IInv, TypeOK, LifeInv, CallerPlaces, HelperPlaces, Published, Released
<1>3. GenInv'
  BY DEF IInv, TypeOK, LifeInv, GenInv, Published, Released, InSlice
<1>4. JobInv'
  <2>1. ntasks \in Nat /\ ntasks > 0
    BY SizeFacts DEF IInv, TypeOK
  <2>2. job'.n = ntasks /\ (job'.computes <=> Computes)
    OBVIOUS
  <2>3. owner < ntasks /\ gemm # "none" /\ (~Computes => batches + 1 <= Batches)
    BY <2>1 DEF IInv, JobInv
  <2>4. pc'[0] = "store" /\ ~pending' /\ (Computes' <=> Computes)
    BY DEF IInv, TypeOK, Computes
  <2>5. QED
    BY <2>1, <2>2, <2>3, <2>4 DEF JobInv, Published, Released
<1>5. RanInv'
  BY DEF IInv, TypeOK, LifeInv, GenInv, JobInv, RanInv, Published, Released, HasRun, Finished, InSlice
<1>6. CellInv'
  BY DEF IInv, TypeOK, LifeInv, GenInv, JobInv, RanInv, CellInv, Published, Released, Computed, Computes
<1>7. QED
  BY <1>1, <1>2, <1>3, <1>4, <1>5, <1>6 DEF IInv

\* The next generation is one that no helper has acknowledged.
LEMMA StoreGenInv ==
  ASSUME IInv, StoreGen
  PROVE  IInv'
<1> USE ThreadFacts DEF StoreGen, Goto, poolVars, gemmVars, callVars, Computes
<1>1. TypeOK'
  <2>1. NextGen \in -GenMax - 1 .. GenMax
    BY SpinAssumption DEF IInv, TypeOK, NextGen
  <2>2. QED
    BY <2>1 DEF IInv, TypeOK
<1>2. LifeInv'
  BY DEF IInv, TypeOK, LifeInv, CallerPlaces, HelperPlaces, Published, Released
<1>3. GenInv'
  BY DEF IInv, TypeOK, LifeInv, GenInv, Published, Released, InSlice
<1>4. JobInv'
  BY SizeFacts DEF IInv, TypeOK, LifeInv, GenInv, JobInv, Published, Released, Computes
<1>5. RanInv'
  <2>1. pc[0] = "store" /\ phase = "live" /\ ran = NotRun
    BY DEF IInv, LifeInv, RanInv, Published
  <2>2. \A h \in Helpers : ack[h] = gen /\ ~InSlice(h)
    <3>1. gen >= 0 /\ \A h \in Helpers : seen[h] = gen /\ ~InSlice(h)
      BY <2>1 DEF IInv, GenInv, Released
    <3>2. gen \in Int /\ ~(gen < 0)
      BY <3>1, SpinAssumption DEF IInv, TypeOK
    <3>3. QED
      BY <3>1, <3>2 DEF IInv, GenInv, InSlice
  <2>3. gen' # gen
    BY SpinAssumption DEF IInv, TypeOK, NextGen
  <2>4. \A t \in Threads : ~Finished(t)' /\ pc'[t] # "task"
    BY <2>1, <2>2, <2>3 DEF IInv, TypeOK, Finished, InSlice
  <2>5. QED
    BY <2>1, <2>4 DEF IInv, TypeOK, RanInv, HasRun, NotRun
<1>6. CellInv'
  <2>1. ran'[owner'] # 1
    <3>1. owner \in Indices
      BY SizeFacts DEF IInv, TypeOK, JobInv, Published
    <3>2. QED
      BY <3>1 DEF IInv, RanInv, NotRun
  <2>2. pc'[0] = "wake"
    BY DEF IInv, TypeOK
  <2>3. QED
    BY <2>1, <2>2 DEF IInv, CellInv, Published, Released
<1>7. QED
  BY <1>1, <1>2, <1>3, <1>4, <1>5, <1>6 DEF IInv

\* The caller enters its own slice.
LEMMA FutexWakeInv ==
  ASSUME IInv, FutexWake
  PROVE  IInv'
<1> USE ThreadFacts DEF FutexWake, Goto, poolVars, gemmVars, callVars, Wake, Computes
<1>1. TypeOK'
  <2>1. Begin(0, Columns, N) \in Nat
    BY SliceFacts, SpinAssumption
  <2>2. QED
    BY <2>1 DEF IInv, TypeOK
<1>2. LifeInv'
  BY DEF IInv, TypeOK, LifeInv, CallerPlaces, HelperPlaces, Published, Released
<1>3. GenInv'
  BY DEF IInv, TypeOK, LifeInv, GenInv, Published, Released, InSlice
<1>4. JobInv'
  BY SizeFacts DEF IInv, TypeOK, LifeInv, GenInv, JobInv, Published, Released, Computes
<1>5. RanInv'
  <2>1. pc'[0] \in Released /\ \A t \in Threads : pc'[t] = "task" <=> pc[t] = "task"
    BY DEF IInv, TypeOK, Released
  <2>2. \A t \in Threads : pc[t] = "task" => at'[t] = at[t]
    BY DEF IInv, TypeOK
  <2>3. QED
    BY <2>1, <2>2, RanStable DEF Released, IInv, TypeOK
<1>6. CellInv'
  BY DEF IInv, TypeOK, LifeInv, GenInv, JobInv, RanInv, CellInv, Published, Released, Computed, Computes
<1>7. QED
  BY <1>1, <1>2, <1>3, <1>4, <1>5, <1>6 DEF IInv

\* One more helper is known to have finished.
LEMMA AwaitAckInv ==
  ASSUME IInv, AwaitAck
  PROVE  IInv'
<1> USE ThreadFacts DEF AwaitAck, Goto, poolVars, gemmVars, callVars, Computes
<1>1. TypeOK'
  BY SpinAssumption, SizeFacts, NotRunType DEF IInv, TypeOK
<1>2. LifeInv'
  BY DEF IInv, TypeOK, LifeInv, CallerPlaces, HelperPlaces, Published, Released
<1>3. GenInv'
  BY DEF IInv, TypeOK, LifeInv, GenInv, Published, Released, InSlice
<1>4. JobInv'
  BY SizeFacts DEF IInv, TypeOK, LifeInv, GenInv, JobInv, Published, Released, Computes
<1>5. RanInv'
  BY DEF IInv, TypeOK, LifeInv, GenInv, JobInv, RanInv, Published, Released, HasRun, Finished, InSlice
<1>6. CellInv'
  BY DEF IInv, TypeOK, LifeInv, GenInv, JobInv, RanInv, CellInv, Published, Released, Computed, Computes
<1>7. QED
  BY <1>1, <1>2, <1>3, <1>4, <1>5, <1>6 DEF IInv

\* When all helpers have acknowledged, every task has run.
LEMMA AllAckedInv ==
  ASSUME IInv, AllAcked
  PROVE  IInv'
<1> USE ThreadFacts DEF AllAcked, Goto, poolVars, gemmVars, callVars, Computes
<1>1. TypeOK'
  BY SpinAssumption, SizeFacts, NotRunType DEF IInv, TypeOK
<1>2. LifeInv'
  BY DEF IInv, TypeOK, LifeInv, CallerPlaces, HelperPlaces, Published, Released
<1>3. GenInv'
  <2>1. pc[0] = "wait" /\ workers = N - 1 /\ phase = "live"
    BY DEF IInv, LifeInv, Published, Released
  <2>2. \A h \in Helpers : ack[h] = gen
    <3>1. \A h \in Helpers : h < at[0]
      BY <2>1, SpinAssumption DEF IInv, TypeOK, Helpers
    <3>2. QED
      BY <2>1, <3>1 DEF IInv, GenInv
  <2>3. gen >= 0
    <3>1. 1 \in Helpers
      BY SpinAssumption DEF Helpers
    <3>2. QED
      BY <2>2, <3>1 DEF IInv, GenInv
  <2>4. \A h \in Helpers : ~InSlice(h) /\ pc[h] # "exit" /\ seen[h] = gen
    <3>1. \A h \in Helpers : ~InSlice(h) /\ pc[h] # "exit"
      BY <2>2, <2>3, SpinAssumption DEF IInv, TypeOK, GenInv
    <3>2. QED
      BY <2>2, <3>1 DEF IInv, GenInv, InSlice
  <2>5. pc' = [pc EXCEPT ![0] = "done"]
    OBVIOUS
  <2>6. QED
    BY <2>2, <2>3, <2>4, <2>5 DEF IInv, TypeOK, GenInv, InSlice, Released
<1>4. JobInv'
  BY SizeFacts DEF IInv, TypeOK, LifeInv, GenInv, JobInv, Published, Released, Computes
<1>5. RanInv'
  <2>1. pc[0] = "wait" /\ workers = N - 1 /\ job.n = ntasks /\ ntasks \in Nat
    BY SizeFacts DEF IInv, TypeOK, LifeInv, JobInv, Published, Released
  <2>2. \A t \in Threads : Finished(t)
    <3>1. \A h \in Helpers : h < at[0]
      BY <2>1, SpinAssumption DEF IInv, TypeOK, Helpers
    <3>2. QED
      BY <2>1, <3>1 DEF IInv, GenInv, Finished
  <2>3. ASSUME NEW k \in Indices
        PROVE  (\E t \in Threads : HasRun(t, k)) <=> k < ntasks
    <3>1. k \in Nat
      BY SizeFacts
    <3>2. ASSUME NEW t \in Threads, HasRun(t, k) PROVE k < ntasks
      BY <2>1, <3>1, <3>2, SliceFacts DEF HasRun, Slice
    <3>3. ASSUME k < ntasks PROVE \E t \in Threads : HasRun(t, k)
      <4>1. \E t \in Threads : k \in Slice(t, ntasks, N)
        BY <2>1, <3>1, <3>3, SlicesCover, SpinAssumption DEF Threads
      <4>2. QED
        BY <2>1, <2>2, <4>1 DEF HasRun
    <3>4. QED
      BY <3>2, <3>3
  <2>4. ran = [k \in Indices |-> IF k < ntasks THEN 1 ELSE 0]
    BY <2>1, <2>3 DEF IInv, TypeOK, RanInv, Released
  <2>5. QED
    BY <2>4 DEF IInv, TypeOK, RanInv, Released
<1>6. CellInv'
  <2>1. pc'[0] = "done"
    BY DEF IInv, TypeOK
  <2>2. ran[owner] = 1
    <3>1. owner < ntasks /\ owner \in Indices
      BY SizeFacts DEF IInv, TypeOK, JobInv, Published, Released
    <3>2. QED
      BY <1>5, <2>1, <3>1 DEF RanInv
  <2>3. QED
    BY <2>1, <2>2 DEF IInv, CellInv, Released, Published, Computed
<1>7. QED
  BY <1>1, <1>2, <1>3, <1>4, <1>5, <1>6 DEF IInv

\* A finished batch leaves C as the next one, or the fence, expects it.
LEMMA FinishBatchInv ==
  ASSUME IInv, FinishBatch
  PROVE  IInv'
<1> USE ThreadFacts DEF FinishBatch, Goto, poolVars, gemmVars, callVars, Return, Computes
<1>1. TypeOK'
  BY SpinAssumption, SizeFacts, NotRunType DEF IInv, TypeOK
<1>2. LifeInv'
  BY DEF IInv, TypeOK, LifeInv, CallerPlaces, HelperPlaces, Published, Released
<1>3. GenInv'
  BY DEF IInv, TypeOK, LifeInv, GenInv, Published, Released, InSlice
<1>4. JobInv'
  BY SizeFacts DEF IInv, TypeOK, LifeInv, GenInv, JobInv, Published, Released, Computes
<1>5. RanInv'
  BY DEF IInv, TypeOK, LifeInv, GenInv, JobInv, RanInv, Published, Released, HasRun, Finished, InSlice
<1>6. CellInv'
  BY DEF IInv, TypeOK, LifeInv, GenInv, JobInv, RanInv, CellInv, Published, Released, Computed, Computes
<1>7. QED
  BY <1>1, <1>2, <1>3, <1>4, <1>5, <1>6 DEF IInv

\* A helper that polls or sleeps disturbs nothing.
LEMMA SeeWorkInv ==
  ASSUME IInv, NEW h \in Helpers, SeeWork(h)
  PROVE  IInv'
<1> USE ThreadFacts DEF SeeWork, Goto, poolVars, gemmVars, callVars
<1>1. TypeOK'
  BY SpinAssumption, SizeFacts, NotRunType DEF IInv, TypeOK
<1>2. LifeInv'
  BY DEF IInv, TypeOK, LifeInv, CallerPlaces, HelperPlaces, Published, Released
<1>3. GenInv'
  BY DEF IInv, TypeOK, LifeInv, GenInv, Published, Released, InSlice
<1>4. JobInv'
  BY SizeFacts DEF IInv, TypeOK, LifeInv, GenInv, JobInv, Published, Released, Computes
<1>5. RanInv'
  BY DEF IInv, TypeOK, LifeInv, GenInv, JobInv, RanInv, Published, Released, HasRun, Finished, InSlice
<1>6. CellInv'
  BY DEF IInv, TypeOK, LifeInv, GenInv, JobInv, RanInv, CellInv, Published, Released, Computed, Computes
<1>7. QED
  BY <1>1, <1>2, <1>3, <1>4, <1>5, <1>6 DEF IInv

\* The same for one that gives up polling.
LEMMA StopPollingInv ==
  ASSUME IInv, NEW h \in Helpers, StopPolling(h)
  PROVE  IInv'
<1> USE ThreadFacts DEF StopPolling, Goto, poolVars, gemmVars, callVars
<1>1. TypeOK'
  BY SpinAssumption, SizeFacts, NotRunType DEF IInv, TypeOK
<1>2. LifeInv'
  BY DEF IInv, TypeOK, LifeInv, CallerPlaces, HelperPlaces, Published, Released
<1>3. GenInv'
  BY DEF IInv, TypeOK, LifeInv, GenInv, Published, Released, InSlice
<1>4. JobInv'
  BY SizeFacts DEF IInv, TypeOK, LifeInv, GenInv, JobInv, Published, Released, Computes
<1>5. RanInv'
  BY DEF IInv, TypeOK, LifeInv, GenInv, JobInv, RanInv, Published, Released, HasRun, Finished, InSlice
<1>6. CellInv'
  BY DEF IInv, TypeOK, LifeInv, GenInv, JobInv, RanInv, CellInv, Published, Released, Computed, Computes
<1>7. QED
  BY <1>1, <1>2, <1>3, <1>4, <1>5, <1>6 DEF IInv

\* The same for one that goes to sleep.
LEMMA FutexWaitInv ==
  ASSUME IInv, NEW h \in Helpers, FutexWait(h)
  PROVE  IInv'
<1> USE ThreadFacts DEF FutexWait, Goto, poolVars, gemmVars, callVars, SleepsOn
<1>1. TypeOK'
  BY SpinAssumption, SizeFacts, NotRunType DEF IInv, TypeOK
<1>2. LifeInv'
  BY DEF IInv, TypeOK, LifeInv, CallerPlaces, HelperPlaces, Published, Released
<1>3. GenInv'
  BY DEF IInv, TypeOK, LifeInv, GenInv, Published, Released, InSlice
<1>4. JobInv'
  BY SizeFacts DEF IInv, TypeOK, LifeInv, GenInv, JobInv, Published, Released, Computes
<1>5. RanInv'
  BY DEF IInv, TypeOK, LifeInv, GenInv, JobInv, RanInv, Published, Released, HasRun, Finished, InSlice
<1>6. CellInv'
  BY DEF IInv, TypeOK, LifeInv, GenInv, JobInv, RanInv, CellInv, Published, Released, Computed, Computes
<1>7. QED
  BY <1>1, <1>2, <1>3, <1>4, <1>5, <1>6 DEF IInv

\* The same for one that wakes up.
LEMMA TimeoutInv ==
  ASSUME IInv, NEW h \in Helpers, Timeout(h)
  PROVE  IInv'
<1> USE ThreadFacts DEF Timeout, Goto, poolVars, gemmVars, callVars
<1>1. TypeOK'
  BY SpinAssumption, SizeFacts, NotRunType DEF IInv, TypeOK
<1>2. LifeInv'
  BY DEF IInv, TypeOK, LifeInv, CallerPlaces, HelperPlaces, Published, Released
<1>3. GenInv'
  BY DEF IInv, TypeOK, LifeInv, GenInv, Published, Released, InSlice
<1>4. JobInv'
  BY SizeFacts DEF IInv, TypeOK, LifeInv, GenInv, JobInv, Published, Released, Computes
<1>5. RanInv'
  BY DEF IInv, TypeOK, LifeInv, GenInv, JobInv, RanInv, Published, Released, HasRun, Finished, InSlice
<1>6. CellInv'
  BY DEF IInv, TypeOK, LifeInv, GenInv, JobInv, RanInv, CellInv, Published, Released, Computed, Computes
<1>7. QED
  BY <1>1, <1>2, <1>3, <1>4, <1>5, <1>6 DEF IInv

\* A helper enters its slice only for the released batch.
LEMMA LoadGenInv ==
  ASSUME IInv, NEW h \in Helpers, LoadGen(h)
  PROVE  IInv'
<1> USE ThreadFacts DEF LoadGen, Goto, poolVars, gemmVars, callVars, NoNewWork
<1>1. TypeOK'
  <2>1. Begin(h, Columns, N) \in Nat
    BY SliceFacts, SpinAssumption
  <2>2. QED
    BY <2>1 DEF IInv, TypeOK
<1>2. LifeInv'
  BY DEF IInv, TypeOK, LifeInv, CallerPlaces, HelperPlaces, Published, Released
<1>3. GenInv'
  BY DEF IInv, TypeOK, LifeInv, GenInv, Published, Released, InSlice
<1>4. JobInv'
  BY SizeFacts DEF IInv, TypeOK, LifeInv, GenInv, JobInv, Published, Released, Computes
<1>5. RanInv'
  BY DEF IInv, TypeOK, LifeInv, GenInv, JobInv, RanInv, Published, Released, HasRun, Finished, InSlice
<1>6. CellInv'
  BY DEF IInv, TypeOK, LifeInv, GenInv, JobInv, RanInv, CellInv, Published, Released, Computed, Computes
<1>7. QED
  BY <1>1, <1>2, <1>3, <1>4, <1>5, <1>6 DEF IInv

\* The preparation is stored only by a batch that carries it.
LEMMA TouchColumnInv ==
  ASSUME IInv, NEW t \in Threads, TouchColumn(t)
  PROVE  IInv'
<1> USE ThreadFacts DEF TouchColumn, Goto, poolVars, gemmVars, callVars, Computes
<1>1. TypeOK'
  <2>1. at' \in [Threads -> Nat]
    BY DEF IInv, TypeOK
  <2>2. cells' \in [Cells -> {"stale", "zero", "value"}]
    BY DEF IInv, TypeOK
  <2>3. QED
    BY <2>1, <2>2 DEF IInv, TypeOK
<1>2. LifeInv'
  BY DEF IInv, TypeOK, LifeInv, CallerPlaces, HelperPlaces, Published, Released
<1>3. GenInv'
  BY DEF IInv, TypeOK, LifeInv, GenInv, Published, Released, InSlice
<1>4. JobInv'
  BY SizeFacts DEF IInv, TypeOK, LifeInv, GenInv, JobInv, Published, Released, Computes
<1>5. RanInv'
  BY DEF IInv, TypeOK, LifeInv, GenInv, JobInv, RanInv, Published, Released, HasRun, Finished, InSlice
<1>6. CellInv'
  <2>1. pc[0] \in Released
    BY SliceThreadFacts DEF InSlice
  <2>2. ~(gemm = "packed" /\ packed)
    BY <2>1 DEF IInv, CellInv, Published
  <2>3. QED
    BY <2>1, <2>2 DEF CellInv, Released
<1>7. QED
  BY <1>1, <1>2, <1>3, <1>4, <1>5, <1>6 DEF IInv

\* The tasks of a slice begin with its first.
LEMMA BeginTasksInv ==
  ASSUME IInv, NEW t \in Threads, BeginTasks(t)
  PROVE  IInv'
<1> USE ThreadFacts DEF BeginTasks, Goto, poolVars, gemmVars, callVars, Computes
<1>1. TypeOK'
  <2>1. Begin(t, job.n, N) \in Nat
    BY SliceFacts, SizeFacts DEF IInv, TypeOK
  <2>2. QED
    BY <2>1 DEF IInv, TypeOK
<1>2. LifeInv'
  BY DEF IInv, TypeOK, LifeInv, CallerPlaces, HelperPlaces, Published, Released
<1>3. GenInv'
  BY DEF IInv, TypeOK, LifeInv, GenInv, Published, Released, InSlice
<1>4. JobInv'
  BY SizeFacts DEF IInv, TypeOK, LifeInv, GenInv, JobInv, Published, Released, Computes
<1>5. RanInv'
  <2>1. pc[0] \in Released /\ pc'[0] \in Released /\ (pc[0] = "wait" <=> pc'[0] = "wait")
    BY SliceThreadFacts DEF IInv, TypeOK, InSlice, Released
  <2>2. Begin(t, job.n, N) \in Nat
    BY SliceFacts, SliceThreadFacts DEF InSlice
  <2>3. ASSUME NEW k \in Indices
        PROVE  ~HasRun(t, k) /\ ~HasRun(t, k)'
    <3>1. ~Finished(t) /\ ~Finished(t)'
      BY <2>1, SliceThreadFacts DEF InSlice, Finished
    <3>2. at'[t] = Begin(t, job.n, N)
      BY DEF IInv, TypeOK
    <3>3. QED
      BY <2>2, <3>1, <3>2, SizeFacts, SliceThreadFacts, SliceFacts DEF HasRun, Slice, InSlice
  <2>4. ASSUME NEW u \in Threads, NEW k \in Indices, u # t
        PROVE  HasRun(u, k)' <=> HasRun(u, k)
    BY <2>1, <2>4 DEF IInv, TypeOK, HasRun, Finished
  <2>5. \A u \in Threads : pc'[u] = "task" => Begin(u, job.n, N) <= at'[u]
    BY <2>1, <2>2 DEF IInv, TypeOK, RanInv
  <2>6. QED
    BY <2>1, <2>3, <2>4, <2>5 DEF IInv, RanInv, Released
<1>6. CellInv'
  BY DEF IInv, TypeOK, LifeInv, GenInv, JobInv, RanInv, CellInv, Published, Released, Computed, Computes
<1>7. QED
  BY <1>1, <1>2, <1>3, <1>4, <1>5, <1>6 DEF IInv

\* The next task of a slice is an index of the batch that has not run.
LEMMA RunTaskFacts ==
  ASSUME IInv, NEW t \in Threads, pc[t] = "task", at[t] < End(t, job.n, N)
  PROVE  /\ at[t] \in Slice(t, job.n, N) /\ at[t] \in Indices /\ ran[at[t]] = 0
         /\ at[t] < ntasks
         /\ Begin(t, job.n, N) <= at[t] /\ Begin(t, job.n, N) \in Nat
<1>1. /\ pc[0] \in Released /\ ~Finished(t) /\ job.n = ntasks
      /\ ntasks \in Sizes /\ ntasks \in Nat
  BY SliceThreadFacts DEF InSlice
<1>2. Begin(t, job.n, N) <= at[t] /\ at[t] \in Nat
  BY <1>1 DEF IInv, TypeOK, RanInv
<1>3. /\ Begin(t, job.n, N) \in Nat /\ End(t, job.n, N) \in Nat
      /\ End(t, job.n, N) <= job.n
  BY <1>1, SliceFacts
<1>4. at[t] \in Slice(t, job.n, N)
  BY <1>2, <1>3 DEF Slice
<1>5. at[t] \in Indices /\ at[t] < ntasks
  BY <1>1, <1>2, <1>3, SizeFacts
<1>6. ASSUME NEW u \in Threads PROVE ~HasRun(u, at[t])
  <2>1. u # t => at[t] \notin Slice(u, job.n, N)
    BY <1>1, <1>4, SlicesDisjoint, SpinAssumption DEF Threads
  <2>2. QED
    BY <1>1, <1>2, <2>1 DEF HasRun
<1>7. ran[at[t]] = 0
  BY <1>1, <1>5, <1>6 DEF IInv, RanInv
<1>8. QED
  BY <1>2, <1>3, <1>4, <1>5, <1>7

\* A task is run by the thread whose slice it is in, for the first time.
LEMMA RunTaskInv ==
  ASSUME IInv, NEW t \in Threads, RunTask(t)
  PROVE  IInv'
<1> USE ThreadFacts DEF RunTask, Goto, poolVars, gemmVars, callVars, Computes
<1>1. TypeOK'
  <2>1. at[t] \in Indices /\ ran[at[t]] = 0
    BY RunTaskFacts
  <2>2. ran' \in [Indices -> {0, 1}]
    BY <2>1 DEF IInv, TypeOK
  <2>3. cells' \in [Cells -> {"stale", "zero", "value"}]
    BY DEF IInv, TypeOK
  <2>4. at' \in [Threads -> Nat]
    BY DEF IInv, TypeOK
  <2>5. QED
    BY <2>2, <2>3, <2>4 DEF IInv, TypeOK
<1>2. LifeInv'
  BY DEF IInv, TypeOK, LifeInv, CallerPlaces, HelperPlaces, Published, Released
<1>3. GenInv'
  BY DEF IInv, TypeOK, LifeInv, GenInv, Published, Released, InSlice
<1>4. JobInv'
  BY SizeFacts DEF IInv, TypeOK, LifeInv, GenInv, JobInv, Published, Released, Computes
<1>5. RanInv'
  <2>1. pc[0] \in Released /\ pc' = pc
    BY SliceThreadFacts DEF InSlice
  <2>2. at[t] \in Indices /\ at[t] \in Slice(t, job.n, N) /\ Begin(t, job.n, N) <= at[t]
        /\ Begin(t, job.n, N) \in Nat
    BY RunTaskFacts
  <2>3. ASSUME NEW k \in Indices
        PROVE  HasRun(t, k)' <=> HasRun(t, k) \/ k = at[t]
    <3>1. ~Finished(t) /\ ~Finished(t)'
      BY <2>1, SliceThreadFacts DEF InSlice, Finished
    <3>2. at'[t] = at[t] + 1 /\ at[t] \in Nat
      BY DEF IInv, TypeOK
    <3>3. k \in Nat
      BY SizeFacts
    <3>4. k < at[t] + 1 <=> k < at[t] \/ k = at[t]
      BY <3>2, <3>3
    <3>5. QED
      BY <2>1, <2>2, <3>1, <3>2, <3>4 DEF HasRun
  <2>4. ASSUME NEW u \in Threads, NEW k \in Indices, u # t
        PROVE  HasRun(u, k)' <=> HasRun(u, k)
    BY <2>1, <2>4 DEF IInv, TypeOK, HasRun, Finished
  <2>5. \A u \in Threads : pc'[u] = "task" => Begin(u, job'.n, N) <= at'[u]
    BY <2>1, <2>2 DEF IInv, TypeOK, RanInv
  <2>6. \A k \in Indices : ran'[k] = IF k = at[t] THEN 1 ELSE ran[k]
    BY RunTaskFacts DEF IInv, TypeOK
  <2>7. \A k \in Indices : ran'[k] = IF \E u \in Threads : HasRun(u, k)' THEN 1 ELSE 0
    BY <2>1, <2>3, <2>4, <2>6 DEF IInv, RanInv
  <2>8. QED
    BY <2>1, <2>5, <2>7 DEF RanInv, Released
<1>6. CellInv'
  BY DEF IInv, TypeOK, LifeInv, GenInv, JobInv, RanInv, CellInv, Published, Released, Computed, Computes
<1>7. QED
  BY <1>1, <1>2, <1>3, <1>4, <1>5, <1>6 DEF IInv

\* A thread acknowledges when it has run its whole slice.
LEMMA AcknowledgeInv ==
  ASSUME IInv, NEW t \in Threads, Acknowledge(t)
  PROVE  IInv'
<1> USE ThreadFacts DEF Acknowledge, Goto, poolVars, gemmVars, callVars, Computes
<1>1. TypeOK'
  BY SpinAssumption, SizeFacts, NotRunType DEF IInv, TypeOK
<1>2. LifeInv'
  BY DEF IInv, TypeOK, LifeInv, CallerPlaces, HelperPlaces, Published, Released
<1>3. GenInv'
  BY DEF IInv, TypeOK, LifeInv, GenInv, Published, Released, InSlice
<1>4. JobInv'
  BY SizeFacts DEF IInv, TypeOK, LifeInv, GenInv, JobInv, Published, Released, Computes
<1>5. RanInv'
  <2>1. pc[0] \in Released /\ pc'[0] \in Released /\ gen = seen[t] /\ UNCHANGED <<gen, job, ran>>
    BY SliceThreadFacts DEF IInv, TypeOK, InSlice, Released
  <2>2. Begin(t, job.n, N) <= at[t] /\ at[t] \in Nat
    BY <2>1 DEF IInv, TypeOK, RanInv
  <2>3. ASSUME NEW k \in Indices
        PROVE  HasRun(t, k)' <=> HasRun(t, k)
    <3>1. k \in Slice(t, job.n, N) => k < at[t]
      BY <2>2, SizeFacts, SliceFacts, SliceThreadFacts DEF Slice, InSlice
    <3>2. Finished(t)'
      BY <2>1 DEF IInv, TypeOK, Finished
    <3>3. QED
      BY <2>1, <3>1, <3>2 DEF HasRun
  <2>4. ASSUME NEW u \in Threads, NEW k \in Indices, u # t
        PROVE  HasRun(u, k)' <=> HasRun(u, k)
    BY <2>1, <2>4 DEF IInv, TypeOK, HasRun, Finished, Released
  <2>5. \A u \in Threads : pc'[u] = "task" => Begin(u, job'.n, N) <= at'[u]
    BY <2>1 DEF IInv, TypeOK, RanInv
  <2>6. QED
    BY <2>1, <2>3, <2>4, <2>5 DEF IInv, RanInv, Released
<1>6. CellInv'
  BY DEF IInv, TypeOK, LifeInv, GenInv, JobInv, RanInv, CellInv, Published, Released, Computed, Computes
<1>7. QED
  BY <1>1, <1>2, <1>3, <1>4, <1>5, <1>6 DEF IInv
-----------------------------------------------------------------------------
(* The invariant and what follows from it                                  *)

\* Every step preserves the invariant.
LEMMA NextIInv == IInv /\ [Next]_vars => IInv'
<1> SUFFICES ASSUME IInv, [Next]_vars PROVE IInv'
  OBVIOUS
<1>1. CASE Start \/ Stop \/ PoolStep \/ Fence
  BY <1>1, StartInv, StopInv, StartedInv, StopWakeInv, JoinInv, FenceInv DEF PoolStep
<1>2. CASE CallStep
  BY <1>2, ReturnEmptyInv, RunSerialInv, PublishInv, StoreGenInv, FutexWakeInv, AwaitAckInv,
     AllAckedInv, FinishBatchInv DEF CallStep
<1>3. ASSUME NEW t \in Threads, SliceStep(t) PROVE IInv'
  BY <1>3, TouchColumnInv, BeginTasksInv, RunTaskInv, AcknowledgeInv DEF SliceStep
<1>4. ASSUME NEW g \in {"direct", "packed"}, NEW touch \in BOOLEAN, NEW par \in BOOLEAN,
             BeginGemm(g, touch, par)
      PROVE  IInv'
  BY <1>4, BeginGemmInv
<1>5. ASSUME NEW n \in Sizes, NEW o \in 0 .. n - 1, Call(n, o) PROVE IInv'
  BY <1>5, CallInv
<1>6. ASSUME NEW h \in Helpers, CreateHelper(h) \/ HelperStep(h) \/ Timeout(h) PROVE IInv'
  BY <1>3, <1>6, ThreadFacts, CreateHelperInv, SeeWorkInv, StopPollingInv, FutexWaitInv,
     LoadGenInv, TimeoutInv DEF HelperStep
<1>7. CASE UNCHANGED vars \/ Terminated
  <2>1. UNCHANGED vars
    BY <1>7 DEF Terminated
  <2>2. TypeOK' /\ LifeInv' /\ GenInv'
    BY <2>1 DEF IInv, TypeOK, LifeInv, GenInv, InSlice, vars, poolVars, gemmVars, callVars
  <2>3. JobInv' /\ CellInv'
    BY <2>1 DEF IInv, JobInv, CellInv, Computes, Computed, vars, poolVars, gemmVars, callVars
  <2>4. RanInv'
    BY <2>1 DEF IInv, RanInv, HasRun, Finished, vars, poolVars, gemmVars, callVars
  <2>5. QED
    BY <2>2, <2>3, <2>4 DEF IInv
<1>8. QED
  BY <1>1, <1>2, <1>3, <1>4, <1>5, <1>6, <1>7, ThreadFacts DEF Next

\* The inductive invariant holds in every reachable state.
THEOREM InvariantHolds == Spec => []IInv
BY InitIInv, NextIInv, PTL DEF Spec

\* Every variable keeps its type.
THEOREM TypeCorrect == Spec => []TypeOK
<1>1. IInv => TypeOK
  BY DEF IInv
<1>2. QED
  BY <1>1, InvariantHolds, PTL

\* No helper ever runs a batch that has expired, not after a sleep that timed
\* out either: the plain globals of the batch are read only while the caller
\* waits in run() for the generation the helper has loaded.
THEOREM OnlyLiveBatchesRead == Spec => []HelpersReadLiveBatch
<1>1. IInv => HelpersReadLiveBatch
  BY DEF IInv, GenInv, HelpersReadLiveBatch, Released
<1>2. QED
  BY <1>1, InvariantHolds, PTL

\* The output preparation of a packed GEMM never outlives its packing batch,
\* so that no zero byte lands on what the second batch computes.
THEOREM PackedGemmsComputed == Spec => []PackedOutputComputed
<1>1. IInv => PackedOutputComputed
  BY DEF IInv, CellInv, Computed, PackedOutputComputed
<1>2. QED
  BY <1>1, InvariantHolds, PTL
-----------------------------------------------------------------------------
(* The spin pool implements the executor contract                          *)

Outside == {"idle", "ready", "fence"}

\* The index sets of the two specifications are the same definition.
LEMMA SameIndices == Contract!Indices = Indices /\ Contract!NotRun = NotRun
BY DEF Contract!Indices, Indices, Contract!NotRun, NotRun

\* A step that leaves the caller inside or outside run() where it was is
\* invisible to the contract.
LEMMA HiddenStep ==
  ASSUME UNCHANGED <<ntasks, ran, result>>, pc'[0] \in Outside <=> pc[0] \in Outside
  PROVE  UNCHANGED Contract!vars
BY DEF Contract!vars, Outside

\* A step that runs the tasks K of the batch, none of which had run.
LEMMA InvokeStep ==
  ASSUME NEW K \in SUBSET Indices, K # {}, pc[0] \notin Outside, pc'[0] \notin Outside,
         \A k \in K : k < ntasks /\ ran[k] = 0,
         ran' = [k \in Indices |-> IF k \in K THEN 1 ELSE ran[k]],
         UNCHANGED <<ntasks, result>>
  PROVE  Contract!Next
<1>1. Contract!Invoke(0, K)
  BY SameIndices DEF Contract!Invoke, Outside
<1>2. QED
  BY <1>1, SameIndices DEF Contract!Next

\* A call that ends with everything run is a return of the contract.
LEMMA ReturnStep ==
  ASSUME IInv, pc[0] \notin Outside, pc'[0] \in Outside, UNCHANGED <<ntasks, ran>>, result' = 0,
         \A k \in Indices : k < ntasks => ran[k] = 1
  PROVE  Contract!Next
<1>1. ntasks >= 0
  BY SizeFacts DEF IInv, TypeOK
<1>2. Contract!Return(0)
  BY <1>1, SameIndices DEF Contract!Return, Outside
<1>3. QED
  BY <1>2 DEF Contract!Next

\* A call that begins, with a number of tasks the contract knows.
LEMMA CallBegins ==
  ASSUME NEW n \in Sizes, pc[0] \in Outside, pc'[0] \notin Outside, ntasks' = n, ran' = NotRun,
         UNCHANGED result
  PROVE  Contract!Next
<1>1. Contract!Call(0, n)
  BY SameIndices DEF Contract!Call, Outside
<1>2. QED
  BY <1>1 DEF Contract!Next

\* Initial states are initial states of the contract.
LEMMA RefinesInit == Init => Contract!Init
BY SameIndices, ThreadFacts DEF Init, Contract!Init

\* Every step of the pool is a step of the contract or hidden from it.
LEMMA RefinesNext == IInv /\ [Next]_vars => [Contract!Next]_(Contract!vars)
<1> SUFFICES ASSUME IInv, [Next]_vars PROVE [Contract!Next]_(Contract!vars)
  OBVIOUS
<1> USE ThreadFacts DEF Goto, poolVars, gemmVars, callVars
<1>1. CASE Start \/ Stop \/ PoolStep \/ Terminated \/ UNCHANGED vars
  <2>1. UNCHANGED <<ntasks, ran, result>> /\ (pc'[0] \in Outside <=> pc[0] \in Outside)
    BY <1>1 DEF Start, Stop, PoolStep, Started, StopWake, Join, Wake, Terminated, vars, IInv,
       TypeOK, LifeInv, Outside
  <2>2. QED
    BY <2>1, HiddenStep
<1>2. ASSUME NEW g \in {"direct", "packed"}, NEW touch \in BOOLEAN, NEW par \in BOOLEAN,
             BeginGemm(g, touch, par)
      PROVE  [Contract!Next]_(Contract!vars)
  BY <1>2, HiddenStep DEF BeginGemm, IInv, TypeOK, Outside
<1>3. ASSUME NEW n \in Sizes, NEW o \in 0 .. n - 1, Call(n, o)
      PROVE  [Contract!Next]_(Contract!vars)
  BY <1>3, CallBegins DEF Call, IInv, TypeOK, Outside
<1>4. CASE Fence
  BY <1>4, CallBegins, SpinAssumption DEF Fence, IInv, TypeOK, Outside
<1>5. CASE ReturnEmpty
  <2>1. \A k \in Indices : ~(k < ntasks)
    BY <1>5, SizeFacts DEF ReturnEmpty
  <2>2. QED
    BY <1>5, <2>1, ReturnStep DEF ReturnEmpty, Return, IInv, TypeOK, Outside
<1>6. CASE FinishBatch
  <2>1. \A k \in Indices : k < ntasks => ran[k] = 1
    BY <1>6 DEF FinishBatch, IInv, RanInv
  <2>2. pc[0] \notin Outside /\ pc'[0] \in Outside
    BY <1>6 DEF FinishBatch, Return, IInv, TypeOK, Outside
  <2>3. QED
    BY <1>6, <2>1, <2>2, ReturnStep DEF FinishBatch, Return
<1>7. CASE RunSerial
  <2> DEFINE K == {k \in Indices : k < ntasks}
  <2>1. ntasks \in Sizes /\ ntasks \in Nat /\ ntasks > 0 /\ ran = NotRun
    BY <1>7, SizeFacts DEF RunSerial, IInv, TypeOK, RanInv
  <2>2. 0 \in K
    BY <2>1, SizeFacts
  <2>3. ran' = [k \in Indices |-> IF k \in K THEN 1 ELSE ran[k]]
    BY <1>7, <2>1 DEF RunSerial, NotRun
  <2>4. \A k \in K : k < ntasks /\ ran[k] = 0
    BY <2>1 DEF NotRun
  <2>5. pc[0] \notin Outside /\ pc'[0] \notin Outside /\ UNCHANGED <<ntasks, result>>
    BY <1>7 DEF RunSerial, IInv, TypeOK, Outside
  <2>6. K \in SUBSET Indices /\ K # {}
    BY <2>2
  <2> HIDE DEF K
  <2>7. QED
    BY <2>3, <2>4, <2>5, <2>6, InvokeStep
<1>8. CASE Publish \/ StoreGen \/ FutexWake \/ AwaitAck \/ AllAcked
  <2>1. UNCHANGED <<ntasks, ran, result>> /\ (pc'[0] \in Outside <=> pc[0] \in Outside)
    BY <1>8 DEF Publish, StoreGen, FutexWake, Wake, AwaitAck, AllAcked, IInv, TypeOK, Outside
  <2>2. QED
    BY <2>1, HiddenStep
<1>9. ASSUME NEW t \in Threads, RunTask(t) PROVE [Contract!Next]_(Contract!vars)
  <2>1. at[t] \in Indices /\ ran[at[t]] = 0 /\ at[t] < ntasks
    BY <1>9, RunTaskFacts DEF RunTask
  <2>2. ran' = [k \in Indices |-> IF k \in {at[t]} THEN 1 ELSE ran[k]]
    <3>1. ran \in [Indices -> {0, 1}] /\ ran' = [ran EXCEPT ![at[t]] = @ + 1]
      BY <1>9 DEF RunTask, IInv, TypeOK
    <3>2. ran' = [ran EXCEPT ![at[t]] = 1]
      BY <2>1, <3>1
    <3>3. QED
      BY <3>1, <3>2
  <2>3. pc[0] \in Released /\ pc' = pc
    BY <1>9, SliceThreadFacts DEF RunTask, InSlice
  <2>4. QED
    BY <1>9, <2>1, <2>2, <2>3, InvokeStep DEF RunTask, Released, Outside
<1>10. ASSUME NEW t \in Threads, TouchColumn(t) \/ BeginTasks(t) \/ Acknowledge(t)
       PROVE  [Contract!Next]_(Contract!vars)
  <2>1. UNCHANGED <<ntasks, ran, result>> /\ (pc'[0] \in Outside <=> pc[0] \in Outside)
    BY <1>10 DEF TouchColumn, BeginTasks, Acknowledge, IInv, TypeOK, Outside
  <2>2. QED
    BY <2>1, HiddenStep
<1>11. ASSUME NEW h \in Helpers,
              \/ CreateHelper(h) \/ SeeWork(h) \/ StopPolling(h) \/ FutexWait(h) \/ LoadGen(h)
              \/ Timeout(h)
       PROVE  [Contract!Next]_(Contract!vars)
  <2>1. UNCHANGED <<ntasks, ran, result>> /\ pc'[0] = pc[0]
    BY <1>11 DEF CreateHelper, SeeWork, StopPolling, FutexWait, LoadGen, Timeout, IInv, TypeOK
  <2>2. QED
    BY <2>1, HiddenStep
<1>12. QED
  BY <1>1, <1>2, <1>3, <1>4, <1>5, <1>6, <1>7, <1>8, <1>9, <1>10, <1>11
     DEF Next, CallStep, SliceStep, HelperStep

\* The spin pool is an executor for its one caller: every behaviour of it is
\* one the contract of camblas_executor.h allows.
THEOREM PoolIsExecutor == Spec => ImplementsExecutor
<1>1. Spec => Contract!Spec
  BY InvariantHolds, RefinesInit, RefinesNext, PTL DEF Spec, Contract!Spec
<1>2. QED
  BY <1>1 DEF ImplementsExecutor
=============================================================================
