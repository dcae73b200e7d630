-------------------------------- MODULE Bridge --------------------------------
(***************************************************************************)
(* The front end of the framework bridge, framework_blas_bridge.c: the     *)
(* BLAS entry points, one-time initialisation, gemm_mutex, the routes of a *)
(* GEMM and of the native SYRK with the buffers they keep between calls,   *)
(* output preparation, fork and the destructor.                            *)
(*                                                                         *)
(* Threads of an application call the entry points at any time.  What a    *)
(* route computes is in other modules; here it is one batch, which         *)
(* consumes the pending output preparation, and one step that writes C.    *)
(* C is reduced to its two triangles.  Sizes count elements.               *)
(***************************************************************************)
EXTENDS Routes

CONSTANTS
  Threads,    \* the application's threads
  Scenarios,  \* sequence of [build, calls]: a build and its application's calls
  MaxCalls,   \* bound on the number of calls
  Blocks,     \* heap blocks, positive integers
  None

\* Operands in memory: the application's, and the product of a native SYRK.
Operands == STRING \cup {"product"}
\* The arguments a call of an entry point may have.
Arguments ==
  [kind : {"gemm", "syrk", "query"}, order : {"column", "row"}, fp64 : BOOLEAN,
   ta : {"N", "T", "C"}, tb : {"N", "T", "C"}, m : Int, n : Int, k : Int,
   a : Operands, b : Operands, c : Operands, uplo : {"U", "L"},
   lda : Int, ldb : Int, ldc : Int, alpha : Int, beta : Int]

VARIABLES
  scenario, made,     \* index of the scenario; calls made so far
  pid, owner, once,   \* getpid(), owner, pthread_once
  executor, small,    \* context.executor and small_context.executor, or None
  helpers,            \* pid of the process the pool's threads live in, or 0
  mutex,              \* holder of gemm_mutex, or None
  pending,            \* pending_output_touch: [of, triangle] or None
  buffers, heap,      \* kept buffers; size of each block, 0 when free
  pc, call, frame, route, temp,  \* each thread's control and locals
  out,                \* the triangles of each thread's C and SYRK product
  ended               \* "running", "aborted", "exited" or "hung"
process == <<scenario, pid, owner, once, ended>>
pools == <<executor, small, helpers>>
memory == <<buffers, heap>>
locals == <<call, frame, route, temp>>
vars == <<process, pools, memory, locals, made, mutex, pending, pc, out>>

build == Scenarios[scenario].build

Kinds == {"workspace", "scratch", "symmetric", "compact", "bilinear", "rect"}
Buffers == (Kinds \X BOOLEAN) \cup {<<"shared", FALSE>>}
Triangles == {"upper", "lower"}
NoBuffer == [block |-> 0, capacity |-> 0]
AtRest == [upper |-> "old", lower |-> "old"]

Init ==
  /\ scenario \in DOMAIN Scenarios
  /\ made = 0 /\ pid = 1 /\ owner = 0 /\ once = "new" /\ ended = "running"
  /\ executor = None /\ small = None /\ helpers = 0
  /\ mutex = None /\ pending = None
  /\ buffers = [b \in Buffers |-> NoBuffer] /\ heap = [b \in Blocks |-> 0]
  /\ pc = [t \in Threads |-> "idle"] /\ call = [t \in Threads |-> None]
  /\ frame = [t \in Threads |-> None] /\ route = [t \in Threads |-> None]
  /\ temp = [t \in Threads |-> [route |-> 0, product |-> 0]]
  /\ out = [t \in Threads |-> [c |-> AtRest, product |-> AtRest]]

Goto(t, label) == pc' = [pc EXCEPT ![t] = label]
Fail == ended' = "aborted"

(***************************************************************************)
(* Arguments.  A call q has the caller's layout; a frame holds it in       *)
(* column-major form with where it writes.                                 *)
(***************************************************************************)
trans(op) == IF op = "C" THEN "T" ELSE op
ColumnMajor(q) ==
  LET plain == [q EXCEPT !.ta = trans(q.ta), !.tb = trans(q.tb)]
  IN IF q.order = "column" THEN plain
     ELSE [plain EXCEPT !.ta = plain.tb, !.tb = plain.ta, !.m = q.n, !.n = q.m,
                        !.a = q.b, !.b = q.a, !.lda = q.ldb, !.ldb = q.lda]
AtLeast(size, ld) == ld >= (IF size > 0 THEN size ELSE 1)
ValidGemm(x) ==
  /\ x.m >= 0 /\ x.n >= 0 /\ x.k >= 0
  /\ AtLeast(IF x.ta = "N" THEN x.m ELSE x.k, x.lda)
  /\ AtLeast(IF x.tb = "N" THEN x.k ELSE x.n, x.ldb)
  /\ AtLeast(x.m, x.ldc)
HasProduct(x) == x.alpha # 0 /\ x.k > 0
ValidSyrk(q) ==
  /\ q.n >= 0 /\ q.k >= 0 /\ AtLeast(q.n, q.ldc)
  /\ AtLeast(IF (q.order = "column") = (q.ta = "N") THEN q.n ELSE q.k, q.lda)
\* Which triangle of the column-major C a SYRK updates.
Triangle(q) == IF (q.order = "column") = (q.uplo = "U") THEN "upper" ELSE "lower"
Owed(f) == IF f.part = "both" THEN Triangles ELSE {f.part}
SyrkFrame(q) ==
  LET at == IF (q.order = "column") = (q.ta = "N") THEN "N" ELSE "T"
  IN [x |-> [q EXCEPT !.m = q.n, !.ta = at, !.tb = IF at = "N" THEN "T" ELSE "N",
                      !.b = q.a, !.ldb = q.lda],
      target |-> "c", part |-> Triangle(q)]
\* The GEMM a native SYRK calls: the whole product, into its own storage.
ProductCall(q) ==
  [q EXCEPT !.m = q.n, !.tb = IF q.ta = "N" THEN "T" ELSE "N",
            !.b = q.a, !.ldb = q.lda, !.beta = 0, !.c = "product", !.ldc = q.n]
GemmFrame(q, target) == [x |-> ColumnMajor(q), target |-> target, part |-> "both"]

\* The triangles of C that a call has to compute.
GemmOwes(q) ==
  IF q.m = 0 \/ q.n = 0 \/ (~HasProduct(q) /\ q.beta = 1) THEN {} ELSE Triangles
SyrkOwes(q) ==
  IF q.n = 0 \/ (~HasProduct(q) /\ q.beta = 1) THEN {} ELSE {Triangle(q)}

RouteNames ==
  {"symmetric", "stream", "shared", "dot", "compact", "bilinear", "rect", "copied", "segments",
   "strassen", "classical"}

ASSUME BridgeAssumption ==
  /\ None \notin Threads \cup RouteNames
  /\ Blocks \subseteq Nat \ {0}
  /\ \A s \in DOMAIN Scenarios : \A q \in Scenarios[s].calls :
       /\ q \in Arguments
       /\ None \notin {GemmFrame(q, "c"), GemmFrame(ProductCall(q), "product"), SyrkFrame(q)}

(***************************************************************************)
(* Storage.                                                                *)
(***************************************************************************)
Free(h) == {b \in Blocks : h[b] = 0}
NewBlock == CHOOSE b \in Free(heap) : TRUE
\* An allocation may fail; it does when no block is left.
Allocate(t, use, size) ==
  /\ Free(heap) # {}
  /\ temp' = [temp EXCEPT ![t][use] = NewBlock]
  /\ heap' = [heap EXCEPT ![NewBlock] = size]
  /\ UNCHANGED buffers
Release(t, use) ==
  /\ heap' = IF temp[t][use] = 0 THEN heap ELSE [heap EXCEPT ![temp[t][use]] = 0]
  /\ temp' = [temp EXCEPT ![t][use] = 0]
  /\ UNCHANGED buffers

\* One capacity for both precisions.
FitsEither(b, size) == size <= buffers[<<b[1], FALSE>>].capacity
\* A buffer that only grows: ensure_workspace and its siblings.
Fits(b, size) == size <= buffers[b].capacity
Grow(b, size) ==
  /\ Free(heap) # {}
  /\ heap' = [old \in Blocks |-> IF old = NewBlock THEN size
                                 ELSE IF old = buffers[b].block THEN 0 ELSE heap[old]]
  /\ buffers' = [buffers EXCEPT ![b] = [block |-> NewBlock, capacity |-> size]]
Ensure(b, size) == IF Fits(b, size) THEN UNCHANGED memory ELSE Grow(b, size)

(***************************************************************************)
(* Entry points and initialisation.                                        *)
(***************************************************************************)
Call(t) ==
  /\ pc[t] = "idle" /\ made < MaxCalls
  /\ \E q \in Scenarios[scenario].calls : call' = [call EXCEPT ![t] = q]
  /\ made' = made + 1
  /\ out' = [out EXCEPT ![t] = [c |-> AtRest, product |-> AtRest]]
  /\ Goto(t, "ready")
  /\ UNCHANGED <<process, pools, memory, mutex, pending, frame, route, temp>>

\* ready(): pthread_once runs initialize() in one thread; the others wait.
BeginOnce(t) ==
  /\ pc[t] = "ready" /\ once = "new"
  /\ once' = "running" /\ Goto(t, "initialize")
  /\ UNCHANGED <<scenario, pid, owner, ended, pools, memory, locals, made, mutex, pending, out>>
initialize(t) ==
  /\ pc[t] = "initialize"
  /\ \/ owner' = pid /\ once' = "done" /\ Goto(t, "ready") /\ UNCHANGED ended
     \/ Fail /\ UNCHANGED <<owner, once, pc>>   \* environment, vendor library
  /\ UNCHANGED <<scenario, pid, pools, memory, locals, made, mutex, pending, out>>
\* A child that trusts its copy of the initialised bridge.
ready_any_process(t) ==
  /\ pc[t] = "ready" /\ once = "done"
  /\ Goto(t, call[t].kind)
  /\ UNCHANGED <<process, pools, memory, locals, made, mutex, pending, out>>
ready(t) ==
  /\ pc[t] = "ready" /\ once = "done"
  /\ IF owner # pid THEN Fail /\ UNCHANGED pc
     ELSE Goto(t, call[t].kind) /\ UNCHANGED ended
  /\ UNCHANGED <<scenario, pid, owner, once, pools, memory, locals, made, mutex, pending, out>>
framework_blas_threads(t) ==
  /\ pc[t] = "query" /\ Goto(t, "returned")
  /\ UNCHANGED <<process, pools, memory, locals, made, mutex, pending, out>>

(***************************************************************************)
(* gemm_s and gemm_d up to the mutex.                                      *)
(***************************************************************************)
Written(t, target, part, beta) ==
  [out EXCEPT ![t][target] =
     [r \in Triangles |-> IF r \notin part THEN @[r]
                          ELSE IF beta = 0 \/ @[r] = "old" THEN "good" ELSE "lost"]]
\* Where a thread goes on when gemm_ returns.
After(t) == IF call[t].kind = "syrk" THEN "update" ELSE "returned"
GemmArguments(t) == IF call[t].kind = "syrk" THEN ProductCall(call[t]) ELSE call[t]
Target(t) == IF call[t].kind = "syrk" THEN "product" ELSE "c"

VendorGemm(t) ==
  /\ pc[t] = "gemm" /\ build.backend # 0
  /\ out' = Written(t, Target(t), GemmOwes(GemmArguments(t)), GemmArguments(t).beta)
  /\ Goto(t, After(t))
  /\ UNCHANGED <<process, pools, memory, locals, made, mutex, pending>>
GemmChecks(t) ==
  LET x == ColumnMajor(GemmArguments(t)) IN
  /\ pc[t] = "gemm" /\ build.backend = 0
  /\ \/ ~ValidGemm(x) /\ Fail /\ UNCHANGED <<pc, out, frame>>
     \/ ValidGemm(x) /\ (x.m = 0 \/ x.n = 0) /\ Goto(t, After(t)) /\ UNCHANGED <<ended, out, frame>>
     \/ /\ ValidGemm(x) /\ x.m > 0 /\ x.n > 0
        /\ IF x.c = "null" \/ (HasProduct(x) /\ "null" \in {x.a, x.b})
           THEN Fail /\ UNCHANGED <<pc, out, frame>>
           ELSE IF HasProduct(x)
           THEN /\ frame' = [frame EXCEPT ![t] = GemmFrame(GemmArguments(t), Target(t))]
                /\ Goto(t, "lock") /\ UNCHANGED <<ended, out>>
           ELSE /\ out' = IF x.beta = 1 THEN out ELSE Written(t, Target(t), Triangles, x.beta)
                /\ Goto(t, After(t)) /\ UNCHANGED <<ended, frame>>
  /\ UNCHANGED <<scenario, pid, owner, once, pools, memory, call, route, temp, made, mutex,
                 pending>>
Lock(t) ==
  /\ pc[t] = "lock" /\ mutex = None
  /\ mutex' = t /\ Goto(t, "locked")
  /\ UNCHANGED <<process, pools, memory, locals, made, pending, out>>

(***************************************************************************)
(* Under the mutex.                                                        *)
(***************************************************************************)
camblas_ready(t) ==
  /\ pc[t] = "locked"
  /\ IF executor # None THEN UNCHANGED <<executor, helpers, ended>> /\ Goto(t, "prepare")
     ELSE \/ /\ executor' = FirstExecutor(build) /\ Goto(t, "prepare")
             /\ helpers' = IF FirstExecutor(build) = "omp" THEN helpers ELSE pid
             /\ UNCHANGED ended
          \/ Fail /\ UNCHANGED <<executor, helpers, pc>>   \* topology, ABI, pool
  /\ UNCHANGED <<scenario, pid, owner, once, small, memory, locals, made, mutex,
                 pending, out>>

Prepared(t, part) ==
  LET f == frame[t] IN
  /\ pc[t] = "prepare" /\ Goto(t, "symmetric")
  /\ \/ /\ prepares_output(build, f.x)
        /\ pending' = [of |-> <<t, f.target>>, part |-> part]
     \/ (prepares_output(build, f.x) => build.pretouch = 3) /\ pending' = None
  /\ UNCHANGED <<process, pools, memory, locals, made, mutex, out>>
\* Without prepare_triangle_touch.
prepare_full_touch(t) == Prepared(t, "both")
\* With PRETOUCH = 3 an output that mincore finds resident is left alone.
prepare_output_touch(t) == Prepared(t, frame[t].part)

Choose(t, r) == route' = [route EXCEPT ![t] = r] /\ Goto(t, "batch")
OnlyRouting == UNCHANGED <<scenario, pid, owner, once, pools, call, frame, made, mutex,
                           pending, out>>

\* A route whose buffer must grow, or the process ends.
TakeOrFail(t, r, size) ==
  /\ \/ Ensure(<<r, frame[t].x.fp64>>, size) /\ Choose(t, r) /\ UNCHANGED <<ended, temp>>
     \/ ~Fits(<<r, frame[t].x.fp64>>, size) /\ Fail /\ UNCHANGED <<memory, route, pc, temp>>
\* A route that gives up when its buffer cannot grow.
TakeOrDecline(t, b, r, size, next) ==
  \/ Ensure(b, size) /\ Choose(t, r) /\ UNCHANGED <<ended, temp>>
  \/ ~Fits(b, size) /\ Goto(t, next) /\ UNCHANGED <<ended, memory, route, temp>>
\* A route with storage of its own for the one call.
TakeWithTemp(t, r, size, next) ==
  \/ Allocate(t, "route", size) /\ Choose(t, r) /\ UNCHANGED ended
  \/ Goto(t, next) /\ UNCHANGED <<ended, memory, route, temp>>
Skip(t, next) == Goto(t, next) /\ UNCHANGED <<ended, memory, route, temp>>

try_symmetric(t) ==
  LET x == frame[t].x IN
  /\ pc[t] = "symmetric"
  /\ IF TakesSymmetric(build, x) THEN TakeOrFail(t, "symmetric", symmetric_elements(x))
     ELSE Skip(t, IF frame[t].target = "c" /\ call[t].kind = "syrk" THEN "leave" ELSE "context")
  /\ OnlyRouting

\* gemm_context and select_call_executor.
IsSmall(t) == UsesSmallPool(build, frame[t].x)
ContextThreads(t) == IF IsSmall(t) THEN build.small ELSE build.threads
ContextExecutor(t) == IF IsSmall(t) THEN small ELSE executor
gemm_context(t) ==
  /\ pc[t] = "context"
  /\ IF IsSmall(t)
     THEN \/ /\ small' = select_call_executor(build, frame[t].x.k, "pool")
             /\ helpers' = pid /\ Goto(t, "shared") /\ UNCHANGED <<executor, ended>>
          \/ small = None /\ Fail /\ UNCHANGED <<executor, small, helpers, pc>>
     ELSE /\ executor' = select_call_executor(build, frame[t].x.k, executor)
          /\ Goto(t, "shared") /\ UNCHANGED <<small, helpers, ended>>
  /\ UNCHANGED <<scenario, pid, owner, once, memory, locals, made, mutex, pending,
                 out>>

try_shared32(t) ==
  LET x == frame[t].x
      run == ContextExecutor(t)
  IN /\ pc[t] = "shared"
     /\ IF TakesStream(build, x, run, ContextThreads(t))
        THEN IF StreamPanels(x, run) > STREAM32_PANELS THEN Skip(t, "dot")
             ELSE TakeWithTemp(t, "stream", stream_elements(x, run), "dot")
        ELSE IF TakesBaseShared(build, x, run, ContextThreads(t))
        THEN TakeOrDecline(t, <<"shared", FALSE>>, "shared", shared_elements(x), "dot")
        ELSE Skip(t, "dot")
     /\ OnlyRouting

try_dot(t) ==
  /\ pc[t] = "dot"
  /\ IF TakesDot(build, frame[t].x) THEN Choose(t, "dot") /\ UNCHANGED <<ended, memory, temp>>
     ELSE Skip(t, "compact")
  /\ OnlyRouting
try_compact(t) ==
  /\ pc[t] = "compact"
  /\ IF TakesCompact(build, frame[t].x)
     THEN TakeOrFail(t, "compact", compact_elements(frame[t].x)) ELSE Skip(t, "bilinear")
  /\ OnlyRouting
try_bilinear(t) ==
  /\ pc[t] = "bilinear"
  /\ IF TakesBilinear(build, frame[t].x)
     THEN TakeOrFail(t, "bilinear", bilinear_elements(frame[t].x)) ELSE Skip(t, "workspace")
  /\ OnlyRouting

ensure_workspace(t) ==
  LET x == frame[t].x
      size == WantedWorkspace(build, x)
  IN /\ pc[t] = "workspace"
     /\ \/ Ensure(<<"workspace", x.fp64>>, size) /\ Goto(t, "rect") /\ UNCHANGED ended
        \/ ~Fits(<<"workspace", x.fp64>>, size) /\ Fail /\ UNCHANGED <<memory, pc>>
     /\ UNCHANGED <<route, temp>> /\ OnlyRouting

Last(t) == IF IsStrassen(build, frame[t].x) THEN "strassen" ELSE "classical"
try_rect64(t) ==
  LET x == frame[t].x IN
  /\ pc[t] = "rect" /\ x.fp64
  /\ IF TakesRect64(build, x, ContextThreads(t))
     THEN TakeOrDecline(t, <<"rect", TRUE>>, "rect", rectangular_elements(x), Last(t))
     ELSE Skip(t, Last(t))
  /\ OnlyRouting
try_rect32(t) ==
  LET x == frame[t].x
      threads == ContextThreads(t)
  IN /\ pc[t] = "rect" /\ ~x.fp64
     /\ IF ~TakesRect32(build, x, threads) THEN Skip(t, Last(t))
        ELSE IF CopiesA32(x, threads)
        THEN TakeWithTemp(t, "copied", rectangular_elements(x) + x.m * x.k, Last(t))
        ELSE IF IsDeep32(x, threads)
        THEN TakeWithTemp(t, "segments", segment_elements(x, threads), Last(t))
        ELSE TakeOrDecline(t, <<"rect", FALSE>>, "rect", rectangular_elements(x), Last(t))
     /\ OnlyRouting

use_strassen(t) ==
  LET x == frame[t].x
      b == <<"scratch", x.fp64>>
      size == strassen_elements(x.n)
  IN /\ pc[t] = "strassen"
     /\ \/ /\ IF buffers[b].capacity = size THEN UNCHANGED memory ELSE Grow(b, size)
           /\ Choose(t, "strassen") /\ UNCHANGED ended
        \/ buffers[b].capacity # size /\ Fail /\ UNCHANGED <<memory, route, pc>>
     /\ UNCHANGED temp /\ OnlyRouting
classical(t) ==
  /\ pc[t] = "classical" /\ Choose(t, "classical")
  /\ UNCHANGED <<ended, memory, temp>> /\ OnlyRouting

(***************************************************************************)
(* The chosen route runs.                                                  *)
(***************************************************************************)
InTeam(t) ==
  /\ route[t] \in {"classical", "stream", "shared"}
  /\ WantsTeam(build, frame[t].x)
Runner(t) ==
  IF route[t] \in {"symmetric", "dot", "compact", "bilinear"} THEN executor ELSE ContextExecutor(t)

\* Output preparation by the executor: the regions of C are overwritten.
Touched(p) ==
  IF p = None THEN out
  ELSE [out EXCEPT ![p.of[1]][p.of[2]] =
          [r \in Triangles |-> IF p.part \in {"both", r} THEN "touched" ELSE @[r]]]

\* A grid kernel that finds no team of its size runs no batch and returns unused.
Declined(t) ==
  route[t] \in {"stream", "shared"} /\ Runner(t) # "spin" /\ ~InTeam(t)

\* The first batch of a route.  The pthread pool leaves the preparation alone.
\* OpenMP may give a team fewer threads than asked for: the route fails.
Batch(t) ==
  /\ pc[t] = "batch"
  /\ IF Declined(t) \/ Runner(t) = "pool" THEN UNCHANGED <<pending, out>>
     ELSE pending' = None /\ out' = Touched(pending)
  /\ IF Declined(t) THEN Goto(t, "product") /\ UNCHANGED <<ended, helpers>>
     ELSE IF helpers \notin {0, pid} THEN ended' = "hung" /\ UNCHANGED <<pc, helpers>>
     ELSE \/ /\ helpers' = IF Runner(t) = "omp" THEN pid ELSE helpers
             /\ Goto(t, "product") /\ UNCHANGED ended
          \/ InTeam(t) /\ Fail /\ UNCHANGED <<pc, helpers>>
  /\ UNCHANGED <<scenario, pid, owner, once, executor, small, memory, locals, made, mutex>>

\* A range verdict declines a rectangular product before C is written.
MayDecline(t) == route[t] \in {"rect", "copied", "segments"}
ProductDone(t) ==
  LET f == frame[t] IN
  \/ /\ ~Declined(t) /\ out' = Written(t, f.target, Owed(f), f.x.beta)
     /\ Goto(t, "leave") /\ UNCHANGED route
  \/ /\ MayDecline(t) \/ Declined(t)
     /\ route' = [route EXCEPT ![t] = None]
     /\ Goto(t, IF Declined(t) THEN "dot" ELSE Last(t)) /\ UNCHANGED out
product(t) ==
  /\ pc[t] = "product"
  /\ \/ Fail /\ UNCHANGED <<memory, temp, out, route, pc>>
     \/ UNCHANGED ended /\ Release(t, "route") /\ ProductDone(t)
  /\ UNCHANGED <<scenario, pid, owner, once, pools, call, frame, made, mutex, pending>>

AfterRoute(t) ==
  IF frame[t].target = "product" THEN "update"
  ELSE IF call[t].kind = "gemm" \/ route[t] # None THEN "returned" ELSE "allocate"
Leaving(t) ==
  /\ pc[t] = "leave" /\ Goto(t, AfterRoute(t))
  /\ frame' = [frame EXCEPT ![t] = None] /\ route' = [route EXCEPT ![t] = None]
  /\ UNCHANGED <<process, pools, memory, call, temp, made, out>>
\* Without clear_output_touch.
leave_pending(t) == Leaving(t) /\ mutex' = None /\ UNCHANGED pending
\* The mutex is kept for the GEMM that a native SYRK calls.
leave_locked(t) ==
  Leaving(t) /\ pending' = None /\ mutex' = IF AfterRoute(t) = "allocate" THEN mutex ELSE None
\* clear_output_touch and the unlock at the end of every route.
leave(t) == Leaving(t) /\ pending' = None /\ mutex' = None

(***************************************************************************)
(* cblas_?syrk and the native SYRK.                                        *)
(***************************************************************************)
cblas_syrk(t) ==
  LET q == call[t] IN
  /\ pc[t] = "syrk"
  /\ IF ~NativeSyrk(build, q)
     THEN /\ out' = Written(t, "c", SyrkOwes(q), q.beta)   \* the vendor's
          /\ Goto(t, "returned") /\ UNCHANGED <<ended, frame>>
     ELSE IF ~ValidSyrk(q) THEN Fail /\ UNCHANGED <<pc, frame, out>>
     ELSE IF q.n = 0 \/ (~HasProduct(q) /\ q.beta = 1)
     THEN Goto(t, "returned") /\ UNCHANGED <<ended, frame, out>>
     ELSE IF q.c = "null" \/ (HasProduct(q) /\ q.a = "null") THEN Fail /\ UNCHANGED <<pc, frame, out>>
     ELSE IF build.symmetric > 0 /\ HasProduct(q) /\ q.n <= 1024 /\ q.k <= 65536
     THEN /\ frame' = [frame EXCEPT ![t] = SyrkFrame(q)]
          /\ Goto(t, "lock") /\ UNCHANGED <<ended, out>>
     ELSE Goto(t, "allocate") /\ UNCHANGED <<ended, frame, out>>
  /\ UNCHANGED <<scenario, pid, owner, once, pools, memory, call, route, temp, made, mutex,
                 pending>>
SyrkProduct(t) ==
  /\ pc[t] = "allocate"
  /\ IF ~HasProduct(call[t])
     THEN Goto(t, "update") /\ UNCHANGED <<ended, memory, temp>>
     ELSE \/ Allocate(t, "product", call[t].n * call[t].n) /\ Goto(t, "gemm") /\ UNCHANGED ended
          \/ Fail /\ UNCHANGED <<memory, temp, pc>>
  /\ UNCHANGED <<scenario, pid, owner, once, pools, call, frame, route, made, mutex, pending, out>>
\* The triangle of C takes the product, which is then freed.
SyrkUpdate(t) ==
  LET q == call[t]
      part == Triangle(q)
  IN /\ pc[t] = "update" /\ Goto(t, "returned") /\ Release(t, "product")
     /\ out' = IF HasProduct(q) /\ out[t].product[part] # "good"
               THEN [out EXCEPT ![t].c[part] = "lost"] ELSE Written(t, "c", {part}, q.beta)
     /\ UNCHANGED <<process, pools, call, frame, route, made, mutex, pending>>

Return(t) ==
  /\ pc[t] = "returned" /\ Goto(t, "idle") /\ call' = [call EXCEPT ![t] = None]
  /\ UNCHANGED <<process, pools, memory, frame, route, temp, made, mutex, pending, out>>

(***************************************************************************)
(* fork() by an idle thread, followed in the child, and the end of the     *)
(* process when no call is in progress.                                    *)
(***************************************************************************)
Fork(t) ==
  /\ pc[t] = "idle" /\ pid = 1 /\ pid' = 2
  /\ pc' = [u \in Threads |-> IF u = t THEN "idle" ELSE "gone"]
  /\ once' = IF once = "running" THEN "new" ELSE once
  /\ UNCHANGED <<scenario, owner, ended, pools, memory, locals, made, mutex, pending, out>>

Kept == {buffers[b].block : b \in Buffers} \ {0}
release_resources ==
  /\ \A t \in Threads : pc[t] \in {"idle", "gone"}
  /\ IF owner # pid THEN ended' = "exited" /\ UNCHANGED <<memory, helpers>>
     ELSE IF helpers \notin {0, pid} THEN ended' = "hung" /\ UNCHANGED <<memory, helpers>>
     ELSE /\ ended' = "exited" /\ helpers' = 0
          /\ heap' = [b \in Blocks |-> IF b \in Kept THEN 0 ELSE heap[b]]
          /\ buffers' = [b \in Buffers |-> NoBuffer]
  /\ UNCHANGED <<scenario, pid, owner, once, executor, small, locals, made, mutex, pending, pc,
                 out>>

Step(t) ==
  \/ BeginOnce(t) \/ initialize(t) \/ ready(t) \/ framework_blas_threads(t)
  \/ VendorGemm(t) \/ GemmChecks(t) \/ Lock(t)
  \/ camblas_ready(t) \/ prepare_output_touch(t)
  \/ try_symmetric(t) \/ gemm_context(t) \/ try_shared32(t) \/ try_dot(t) \/ try_compact(t)
  \/ try_bilinear(t) \/ ensure_workspace(t) \/ try_rect64(t) \/ try_rect32(t)
  \/ use_strassen(t) \/ classical(t) \/ Batch(t) \/ product(t) \/ leave(t)
  \/ cblas_syrk(t) \/ SyrkProduct(t) \/ SyrkUpdate(t) \/ Return(t)
Ended == ended # "running" /\ UNCHANGED vars
Next ==
  \/ ended = "running" /\ ((\E t \in Threads : Call(t) \/ Fork(t) \/ Step(t)) \/ release_resources)
  \/ Ended
Spec ==
  /\ Init /\ [][Next]_vars
  /\ \A t \in Threads : WF_vars(ended = "running" /\ Step(t))

(***************************************************************************)
(* Properties.                                                             *)
(***************************************************************************)
\* The storage a route is about to compute in, and how much of it it needs.
IsKept(r) == r \in {"symmetric", "shared", "compact", "bilinear", "rect", "strassen"}
KeptFor(r, x) ==
  IF r = "shared" THEN <<"shared", FALSE>>
  ELSE IF r = "strassen" THEN <<"scratch", x.fp64>>
  ELSE IF r = "classical" THEN <<"workspace", x.fp64>> ELSE <<r, x.fp64>>
Storage(t) ==
  LET r == route[t]
      x == frame[t].x
  IN IF r \in {"stream", "copied", "segments"} THEN temp[t].route
     ELSE IF IsKept(r) \/ (r = "classical" /\ ~IsPrivateShort(build, x))
     THEN buffers[KeptFor(r, x)].block ELSE 0
Needed(t) ==
  LET r == route[t]
      x == frame[t].x
  IN IF r = "stream" THEN stream_elements(x, ContextExecutor(t))
     ELSE IF r = "copied" THEN rectangular_elements(x) + x.m * x.k
     ELSE IF r = "segments" THEN segment_elements(x, ContextThreads(t))
     ELSE IF r = "shared" THEN shared_elements(x)
     ELSE IF r = "classical" THEN IF IsPrivateShort(build, x) THEN 0 ELSE WantedWorkspace(build, x)
     ELSE IF r = "strassen" THEN strassen_elements(x.n)
     ELSE IF r = "rect" THEN rectangular_elements(x)
     ELSE IF r = "symmetric" THEN symmetric_elements(x)
     ELSE IF r = "compact" THEN compact_elements(x)
     ELSE IF r = "bilinear" THEN bilinear_elements(x) ELSE 0

Borrowed == (UNION {{temp[t].route, temp[t].product} : t \in Threads}) \ {0}
\* Every kept buffer is a live block of exactly the recorded capacity, no two
\* owners share a block, no other block is live, and what a route computes in
\* is live and large enough for this call: the growing buffers of the bridge
\* across calls of other shapes, failed allocations and declined routes.
BuffersKept ==
  /\ \A b \in Buffers : IF buffers[b].block = 0 THEN buffers[b].capacity = 0
                         ELSE heap[buffers[b].block] = buffers[b].capacity
  /\ \A b, d \in Buffers : b # d /\ buffers[b].block > 0 => buffers[b].block # buffers[d].block
  /\ {b \in Blocks : heap[b] > 0} = Kept \cup Borrowed
  /\ Kept \cap Borrowed = {}
  /\ \A t \in Threads :
       pc[t] \in {"batch", "product"} /\ Needed(t) > 0
         => Storage(t) \in Blocks /\ heap[Storage(t)] >= Needed(t)

\* When a BLAS call returns it has computed exactly the triangles of C it
\* owes, from the C it was given: output preparation, routes that decline
\* after it and the SYRK's own product leave nothing behind.
Owes(q) ==
  IF q.kind = "gemm" THEN GemmOwes(q) ELSE IF q.kind = "syrk" THEN SyrkOwes(q) ELSE {}
OutputDelivered ==
  \A t \in Threads : pc[t] = "returned" =>
    \A r \in Triangles : out[t].c[r] = IF r \in Owes(call[t]) THEN "good" ELSE "old"

\* A pending output preparation is the one of the call that holds gemm_mutex:
\* no batch of another call can consume it (pending_output_touch).
TouchIsOfThisCall ==
  pending # None =>
    /\ mutex # None /\ frame[mutex] # None
    /\ pending = [of |-> <<mutex, frame[mutex].target>>, part |-> frame[mutex].part]

\* "Fork ... fails visibly": a child of an initialised process aborts at its
\* next call; it never waits for threads that the fork did not copy, and its
\* destructor touches nothing.
ForkedChildStops ==
  /\ ended # "hung"
  /\ owner \notin {0, pid} => \A t \in Threads : pc[t] \in {"idle", "gone", "ready"}

\* Every call returns or the process ends, whatever the other threads do.
CallsEnd ==
  \A t \in Threads : pc[t] = "ready" ~> (pc[t] \in {"idle", "gone"} \/ ended # "running")
===============================================================================
