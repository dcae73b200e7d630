----------------------------- MODULE Bridge_proofs -----------------------------
(***************************************************************************)
(* The inductive invariant of Bridge and what follows from it for every    *)
(* set of builds, applications, threads and calls that BridgeAssumption    *)
(* allows.                                                                 *)
(***************************************************************************)
EXTENDS Bridge, TLAPS

\* The places of a thread between taking and giving up gemm_mutex.
Tried == {"context", "shared", "dot", "compact", "bilinear", "workspace", "rect", "strassen",
          "classical"}
Locked == Tried \cup {"locked", "prepare", "symmetric", "batch", "product", "leave"}
Places == Locked \cup {"idle", "gone", "ready", "initialize", "query", "gemm", "syrk", "lock",
                       "allocate", "update", "returned"}
Regions == [Triangles -> {"old", "touched", "good", "lost"}]

TypeInv ==
  /\ scenario \in DOMAIN Scenarios
  /\ pc \in [Threads -> Places]
  /\ DOMAIN call = Threads /\ DOMAIN frame = Threads
  /\ route \in [Threads -> RouteNames \cup {None}]
  /\ out \in [Threads -> [c : Regions, product : Regions]]

\* Only the process that initialised the bridge gets past ready(), and only
\* there are helpers started.
ProcessInv ==
  /\ pid \in {1, 2} /\ helpers \in {0, owner} /\ ended # "hung"
  /\ once = "done" <=> owner # 0
  /\ \A t \in Threads :
       /\ pc[t] \notin {"idle", "gone", "ready"} => owner \in {0, pid}
       /\ pc[t] \notin {"idle", "gone", "ready", "initialize"} => owner = pid

\* gemm_mutex is held by the thread that is in the locked region, or by one
\* that a fork has left behind there.
MutexInv ==
  /\ \A t \in Threads : pc[t] \in Locked => mutex = t
  /\ mutex # None => mutex \in Threads /\ pc[mutex] \in Locked \cup {"gone"}

\* The pending preparation is the mutex holder's, whose C is overwritten.
PendingInv == TouchIsOfThisCall /\ (pending # None => frame[mutex].x.beta = 0)

\* The call of a thread, and the GEMM it is in.
CallInv(t) ==
  LET q == call[t] IN
  /\ pc[t] \notin {"idle", "gone"} => q \in Scenarios[scenario].calls
  /\ pc[t] \in {"allocate", "update", "syrk"} => q.kind = "syrk"
  /\ pc[t] = "query" => q.kind = "query"
  /\ pc[t] \in {"gemm", "lock"} \cup Locked => q.kind \in {"gemm", "syrk"}
  /\ pc[t] \in {"lock", "allocate", "update"} \cup Locked => Owes(q) # {}
  /\ pc[t] \in {"lock"} \cup Locked => HasProduct(q)
  /\ pc[t] = "gemm" /\ q.kind = "syrk" => Owes(q) # {} /\ HasProduct(q)
FrameInv(t) ==
  LET q == call[t] IN
  pc[t] \in {"lock"} \cup Locked =>
    /\ q.kind = "gemm" => frame[t] = GemmFrame(q, "c")
    /\ q.kind = "syrk" => frame[t] \in {SyrkFrame(q), GemmFrame(ProductCall(q), "product")}
RouteInv(t) ==
  /\ pc[t] \notin {"gone", "batch", "product", "leave"} => route[t] = None
  /\ pc[t] \in {"batch", "product"} => route[t] # None
  /\ pc[t] = "leave" /\ route[t] = None =>
       call[t].kind = "syrk" /\ frame[t] = SyrkFrame(call[t])

\* What a thread's C and the product of its SYRK hold.
Untouched(t) == \A r \in Triangles : out[t].c[r] = "old" /\ out[t].product[r] = "old"
Other(target) == IF target = "c" THEN "product" ELSE "c"
\* Up to the writes of its route: as before but for a preparation.
Unwritten(t) ==
  \A r \in Triangles :
    /\ out[t][Other(frame[t].target)][r] = "old"
    /\ out[t][frame[t].target][r] \in {"old", "touched"}
    /\ out[t][frame[t].target][r] = "touched" => r \in Owed(frame[t]) /\ frame[t].x.beta = 0
Computed(t) ==
  \A r \in Triangles :
    /\ out[t][Other(frame[t].target)][r] = "old"
    /\ out[t][frame[t].target][r] = IF r \in Owed(frame[t]) THEN "good" ELSE "old"
OutInv(t) ==
  /\ pc[t] \in {"ready", "initialize", "query", "syrk", "gemm", "lock", "locked", "prepare",
                "symmetric", "allocate"} => Untouched(t)
  /\ pc[t] \in Tried \cup {"batch", "product"} => Unwritten(t)
  /\ pc[t] = "leave" => IF route[t] = None THEN Untouched(t) ELSE Computed(t)
  /\ pc[t] = "update" =>
       \A r \in Triangles : /\ out[t].c[r] = "old"
                            /\ HasProduct(call[t]) => out[t].product[r] = "good"
  /\ pc[t] = "returned" =>
       \A r \in Triangles : out[t].c[r] = IF r \in Owes(call[t]) THEN "good" ELSE "old"

LocalInv(t) == CallInv(t) /\ FrameInv(t) /\ RouteInv(t) /\ OutInv(t)
IInv ==
  /\ TypeInv /\ ProcessInv /\ MutexInv /\ PendingInv
  /\ \A t \in Threads : LocalInv(t)

(***************************************************************************)
(* The frames of a call.                                                   *)
(***************************************************************************)
\* The column-major form changes the places of the operands, not the product.
LEMMA ColumnMajorFacts ==
  ASSUME NEW q \in Arguments
  PROVE  /\ (ColumnMajor(q).m = 0 \/ ColumnMajor(q).n = 0) <=> (q.m = 0 \/ q.n = 0)
         /\ HasProduct(ColumnMajor(q)) <=> HasProduct(q)
         /\ ColumnMajor(q).beta = q.beta
<1> DEFINE plain == [q EXCEPT !.ta = trans(q.ta), !.tb = trans(q.tb)]
<1>1. /\ plain.m = q.m /\ plain.n = q.n /\ plain.k = q.k
      /\ plain.alpha = q.alpha /\ plain.beta = q.beta
  BY DEF Arguments
<1>2. CASE q.order = "column"
  BY <1>1, <1>2 DEF ColumnMajor, HasProduct
<1>3. CASE q.order # "column"
  <2> DEFINE x == [plain EXCEPT !.ta = plain.tb, !.tb = plain.ta, !.m = q.n, !.n = q.m,
                                !.a = q.b, !.b = q.a, !.lda = q.ldb, !.ldb = q.lda]
  <2>1. /\ x.m = q.n /\ x.n = q.m /\ x.k = plain.k
        /\ x.alpha = plain.alpha /\ x.beta = plain.beta
    BY DEF Arguments
  <2>2. ColumnMajor(q) = x
    BY <1>3 DEF ColumnMajor
  <2> QED BY <1>1, <2>1, <2>2 DEF HasProduct
<1> QED BY <1>2, <1>3

\* The product a SYRK asks for is a product of the same operands.
LEMMA ProductCallFacts ==
  ASSUME NEW q \in Arguments
  PROVE  /\ ProductCall(q) \in Arguments
         /\ ProductCall(q).m = q.n /\ ProductCall(q).n = q.n
         /\ ProductCall(q).beta = 0
         /\ HasProduct(ProductCall(q)) <=> HasProduct(q)
<1>1. ProductCall(q) \in Arguments
  <2> DEFINE tb == IF q.ta = "N" THEN "T" ELSE "N"
             q1 == [q EXCEPT !.m = q.n]
             q2 == [q1 EXCEPT !.tb = tb]
             q3 == [q2 EXCEPT !.b = q.a]
             q4 == [q3 EXCEPT !.ldb = q.lda]
             q5 == [q4 EXCEPT !.beta = 0]
             q6 == [q5 EXCEPT !.c = "product"]
             q7 == [q6 EXCEPT !.ldc = q.n]
  <2>1. /\ q.n \in Int /\ q.a \in Operands /\ q.lda \in Int /\ tb \in {"N", "T", "C"}
    BY DEF Arguments
  <2>2. ProductCall(q) = q7
    BY DEF ProductCall
  <2> HIDE DEF tb
  <2>3. q1 \in Arguments
    BY <2>1 DEF Arguments
  <2> HIDE DEF q1
  <2>4. q2 \in Arguments
    BY <2>1, <2>3 DEF Arguments
  <2> HIDE DEF q2
  <2>5. q3 \in Arguments
    BY <2>1, <2>4 DEF Arguments
  <2> HIDE DEF q3
  <2>6. q4 \in Arguments
    BY <2>1, <2>5 DEF Arguments
  <2> HIDE DEF q4
  <2>7. q5 \in Arguments
    BY <2>6 DEF Arguments
  <2> HIDE DEF q5
  <2>8. q6 \in Arguments
    <3>1. "product" \in Operands
      BY DEF Operands
    <3> QED BY <2>7, <3>1 DEF Arguments
  <2> HIDE DEF q6
  <2>9. q7 \in Arguments
    BY <2>1, <2>8 DEF Arguments
  <2> QED BY <2>2, <2>9
<1>2. /\ ProductCall(q).m = q.n /\ ProductCall(q).n = q.n /\ ProductCall(q).beta = 0
      /\ ProductCall(q).k = q.k /\ ProductCall(q).alpha = q.alpha
  BY DEF Arguments, ProductCall
<1> QED BY <1>1, <1>2 DEF HasProduct

LEMMA GemmFrameFacts ==
  ASSUME NEW q \in Arguments, NEW target
  PROVE  /\ GemmFrame(q, target).target = target
         /\ GemmFrame(q, target).part = "both"
         /\ Owed(GemmFrame(q, target)) = Triangles
         /\ GemmFrame(q, target).x.beta = q.beta
<1>1. /\ GemmFrame(q, target).target = target /\ GemmFrame(q, target).part = "both"
      /\ GemmFrame(q, target).x = ColumnMajor(q)
  BY DEF GemmFrame
<1> QED BY <1>1, ColumnMajorFacts DEF Owed

LEMMA SyrkFrameFacts ==
  ASSUME NEW q \in Arguments
  PROVE  /\ SyrkFrame(q).target = "c"
         /\ Owed(SyrkFrame(q)) = {Triangle(q)}
         /\ Triangle(q) \in Triangles
<1>1. /\ SyrkFrame(q).target = "c" /\ SyrkFrame(q).part = Triangle(q)
  BY DEF SyrkFrame
<1>2. Triangle(q) \in Triangles /\ Triangle(q) # "both"
  BY DEF Triangle, Triangles
<1> QED BY <1>1, <1>2 DEF Owed

(***************************************************************************)
(* What a step does to C.                                                  *)
(***************************************************************************)
Cell == [c : Regions, product : Regions]
Outs == [Threads -> Cell]

LEMMA WrittenFacts ==
  ASSUME out \in Outs, NEW t \in Threads, NEW target \in {"c", "product"}, NEW part, NEW beta,
         out' = Written(t, target, part, beta)
  PROVE  /\ out' \in Outs
         /\ \A u \in Threads : u # t => out'[u] = out[u]
         /\ \A r \in Triangles :
              /\ out'[t][Other(target)][r] = out[t][Other(target)][r]
              /\ out'[t][target][r] =
                   IF r \notin part THEN out[t][target][r]
                   ELSE IF beta = 0 \/ out[t][target][r] = "old" THEN "good" ELSE "lost"
<1> DEFINE old == out[t][target]
           new == [r \in Triangles |-> IF r \notin part THEN old[r]
                                       ELSE IF beta = 0 \/ old[r] = "old" THEN "good" ELSE "lost"]
<1>1. old \in Regions
  BY DEF Outs, Cell
<1>2. new \in Regions
  BY <1>1 DEF Regions
<1>3. out' = [out EXCEPT ![t][target] = new]
  BY DEF Written
<1> HIDE DEF new
<1>4. /\ out' \in Outs
      /\ \A u \in Threads : u # t => out'[u] = out[u]
      /\ out'[t][Other(target)] = out[t][Other(target)]
      /\ out'[t][target] = new
  BY <1>2, <1>3 DEF Outs, Cell, Other
<1> QED BY <1>4 DEF new

(***************************************************************************)
(* What a step leaves alone.                                               *)
(***************************************************************************)
Elsewhere(t) ==
  /\ scenario' = scenario
  /\ \A u \in Threads : u # t =>
       /\ pc'[u] = pc[u] /\ call'[u] = call[u] /\ frame'[u] = frame[u]
       /\ route'[u] = route[u] /\ out'[u] = out[u]

LEMMA LocalKept ==
  ASSUME NEW u, LocalInv(u), scenario' = scenario, pc'[u] = pc[u], call'[u] = call[u],
         frame'[u] = frame[u], route'[u] = route[u], out'[u] = out[u]
  PROVE  LocalInv(u)'
<1>1. CallInv(u)'
  BY DEF LocalInv, CallInv
<1>2. FrameInv(u)'
  BY DEF LocalInv, FrameInv
<1>3. RouteInv(u)'
  BY DEF LocalInv, RouteInv
<1>4. OutInv(u)'
  BY DEF LocalInv, OutInv, Untouched, Unwritten, Computed
<1> QED BY <1>1, <1>2, <1>3, <1>4 DEF LocalInv

LEMMA StepOfOne ==
  ASSUME IInv, NEW t \in Threads, Elsewhere(t), TypeInv', ProcessInv', MutexInv', PendingInv',
         LocalInv(t)'
  PROVE  IInv'
<1>1. ASSUME NEW u \in Threads, u # t
      PROVE  LocalInv(u)'
  BY <1>1, LocalKept DEF Elsewhere, IInv
<1> QED BY <1>1 DEF IInv

\* A step of a thread that has passed ready().
LEMMA ProcessKept ==
  ASSUME TypeInv, ProcessInv, NEW t \in Threads, Elsewhere(t),
         pc[t] \notin {"idle", "gone", "ready", "initialize"},
         pid' = pid, owner' = owner, once' = once,
         helpers' \in {helpers, pid}, ended' \in {ended, "aborted"}
  PROVE  ProcessInv'
<1>1. owner = pid
  BY DEF ProcessInv
<1>2. ended' # "hung" /\ helpers' \in {0, owner'}
  BY <1>1 DEF ProcessInv
<1>3. ASSUME NEW u \in Threads
      PROVE  /\ pc'[u] \notin {"idle", "gone", "ready"} => owner' \in {0, pid'}
             /\ pc'[u] \notin {"idle", "gone", "ready", "initialize"} => owner' = pid'
  BY <1>1
<1> QED BY <1>2, <1>3 DEF ProcessInv

\* A step within the locked region or outside of it.
LEMMA MutexKept ==
  ASSUME MutexInv, NEW t \in Threads, Elsewhere(t), mutex' = mutex,
         pc[t] \in Locked <=> pc'[t] \in Locked, pc[t] # "gone"
  PROVE  MutexInv'
BY DEF MutexInv, Elsewhere

\* A step that leaves the pending preparation and the frame it is for.
LEMMA PendingKept ==
  ASSUME MutexInv, PendingInv, NEW t \in Threads, Elsewhere(t), mutex' = mutex,
         pending' = pending, pc[t] \notin Locked \cup {"gone"} \/ frame'[t] = frame[t]
  PROVE  PendingInv'
<1>1. CASE pending = None
  BY <1>1 DEF PendingInv, TouchIsOfThisCall
<1>2. CASE pending # None
  <2>1. mutex # None /\ mutex \in Threads
    BY <1>2 DEF PendingInv, TouchIsOfThisCall, MutexInv
  <2>2. frame'[mutex] = frame[mutex]
    BY <2>1 DEF MutexInv, Elsewhere
  <2> QED BY <1>2, <2>1, <2>2 DEF PendingInv, TouchIsOfThisCall
<1> QED BY <1>1, <1>2

(***************************************************************************)
(* What a call and its frame have to do with each other.                   *)
(***************************************************************************)
LEMMA CallFacts ==
  ASSUME TypeInv, NEW q \in Scenarios[scenario].calls
  PROVE  /\ q \in Arguments /\ q.kind \in {"gemm", "syrk", "query"}
         /\ GemmFrame(q, "c") # None
         /\ GemmFrame(ProductCall(q), "product") # None
         /\ SyrkFrame(q) # None
<1>1. /\ q \in Arguments
      /\ None \notin {GemmFrame(q, "c"), GemmFrame(ProductCall(q), "product"), SyrkFrame(q)}
  BY BridgeAssumption DEF TypeInv
<1>2. q.kind \in {"gemm", "syrk", "query"}
  BY <1>1 DEF Arguments
<1> QED BY <1>1, <1>2

LEMMA OwesFacts ==
  ASSUME NEW q, Owes(q) # {}
  PROVE  /\ q.kind = "gemm" => Owes(q) = Triangles /\ q.m # 0 /\ q.n # 0
         /\ q.kind = "syrk" => Owes(q) = {Triangle(q)} /\ q.n # 0
BY DEF Owes, GemmOwes, SyrkOwes

LEMMA FrameFacts ==
  ASSUME TypeInv, NEW t \in Threads, CallInv(t), FrameInv(t), pc[t] \in {"lock"} \cup Locked
  PROVE  /\ call[t] \in Arguments /\ call[t].kind \in {"gemm", "syrk"}
         /\ frame[t] # None /\ frame[t].target \in {"c", "product"}
         /\ frame[t].target = "c" => Owed(frame[t]) = Owes(call[t])
         /\ call[t].kind = "syrk" /\ frame[t].target = "c" => frame[t] = SyrkFrame(call[t])
         /\ frame[t].target = "product" =>
              call[t].kind = "syrk" /\ Owed(frame[t]) = Triangles
         /\ call[t].kind = "syrk" => Owes(call[t]) = {Triangle(call[t])}
<1> DEFINE q == call[t]
<1>1. /\ q \in Scenarios[scenario].calls /\ q.kind \in {"gemm", "syrk"} /\ Owes(q) # {}
  BY DEF CallInv, Locked, Tried
<1>2. /\ q \in Arguments /\ ProductCall(q) \in Arguments
      /\ GemmFrame(q, "c") # None /\ GemmFrame(ProductCall(q), "product") # None
      /\ SyrkFrame(q) # None
  BY <1>1, CallFacts, ProductCallFacts
<1>3. CASE q.kind = "gemm"
  <2>1. frame[t] = GemmFrame(q, "c")
    BY <1>3 DEF FrameInv
  <2> QED BY <1>1, <1>2, <1>3, <2>1, OwesFacts, GemmFrameFacts
<1>4. CASE q.kind = "syrk" /\ frame[t] = SyrkFrame(q)
  BY <1>1, <1>2, <1>4, OwesFacts, SyrkFrameFacts
<1>5. CASE q.kind = "syrk" /\ frame[t] = GemmFrame(ProductCall(q), "product")
  BY <1>1, <1>2, <1>5, OwesFacts, GemmFrameFacts
<1>6. q.kind = "syrk" => \/ frame[t] = SyrkFrame(q)
                         \/ frame[t] = GemmFrame(ProductCall(q), "product")
  BY DEF FrameInv
<1> QED BY <1>1, <1>3, <1>4, <1>5, <1>6

(***************************************************************************)
(* The routes.  Until one is chosen a step may take it, go on to another   *)
(* one, give up, or let a native SYRK go on without it.                    *)
(***************************************************************************)
Routing(t) ==
  /\ pc[t] \in Tried \cup {"symmetric"}
  /\ UNCHANGED <<scenario, pid, owner, once, call, frame, mutex, pending, out>>
  /\ helpers' \in {helpers, pid} /\ ended' \in {ended, "aborted"}
  /\ \/ UNCHANGED <<pc, route>>
     \/ \E r \in RouteNames : route' = [route EXCEPT ![t] = r] /\ Goto(t, "batch")
     \/ \E p \in Tried : Goto(t, p) /\ UNCHANGED route
     \/ /\ pc[t] = "symmetric" /\ call[t].kind = "syrk" /\ frame[t].target = "c"
        /\ Goto(t, "leave") /\ UNCHANGED route

LEMMA RoutingKeeps ==
  ASSUME IInv, NEW t \in Threads, Routing(t)
  PROVE  IInv'
<1>1. TypeInv'
  BY DEF IInv, TypeInv, Routing, Goto, Places, Locked
<1>2. Elsewhere(t)
  BY DEF IInv, TypeInv, Routing, Goto, Elsewhere
<1>3. pc[t] \in Locked /\ pc'[t] \in Locked
  BY DEF IInv, TypeInv, Routing, Goto, Locked
<1>4. ProcessInv'
  BY <1>2, <1>3, ProcessKept DEF IInv, Routing, Locked, Tried
<1>5. MutexInv' /\ PendingInv'
  BY <1>2, <1>3, MutexKept, PendingKept DEF IInv, Routing, Locked, Tried
<1>6. CallInv(t) /\ FrameInv(t) /\ RouteInv(t) /\ OutInv(t)
  BY DEF IInv, LocalInv
<1>7. /\ scenario' = scenario /\ call'[t] = call[t] /\ frame'[t] = frame[t] /\ out'[t] = out[t]
  BY DEF Routing
<1>8. /\ Unwritten(t) \/ (pc[t] = "symmetric" /\ Untouched(t))
      /\ route[t] = None
  BY <1>6 DEF Routing, OutInv, RouteInv, Tried
<1>9. frame[t].target \in {"c", "product"}
  BY <1>3, <1>6, FrameFacts DEF IInv
<1>10. Unwritten(t)
  BY <1>8, <1>9 DEF Untouched, Unwritten, Other
<1>11. CallInv(t)' /\ FrameInv(t)'
  BY <1>3, <1>6, <1>7 DEF CallInv, FrameInv, Locked, Tried
<1>12. CASE pc'[t] \in Tried \cup {"symmetric", "batch"}
  <2>1. RouteInv(t)' /\ OutInv(t)'
    <3>1. RouteInv(t)'
      BY <1>8, <1>12, BridgeAssumption DEF IInv, TypeInv, Routing, Goto, RouteInv, Tried
    <3>2. Unwritten(t)'
      BY <1>7, <1>10 DEF Unwritten
    <3>3. pc'[t] = "symmetric" => Untouched(t)'
      BY <1>6, <1>7 DEF IInv, TypeInv, Routing, Goto, OutInv, Untouched, Tried
    <3> QED BY <1>12, <3>1, <3>2, <3>3 DEF OutInv, Tried
  <2> QED BY <1>1, <1>2, <1>4, <1>5, <1>11, <2>1, StepOfOne DEF LocalInv
<1>13. CASE pc'[t] = "leave"
  <2>1. /\ pc[t] = "symmetric" /\ call[t].kind = "syrk" /\ frame[t].target = "c"
        /\ route' = route
    BY <1>13 DEF IInv, TypeInv, Routing, Goto, Tried
  <2>2. frame[t] = SyrkFrame(call[t])
    BY <1>3, <1>6, <2>1, FrameFacts DEF IInv
  <2>3. RouteInv(t)'
    BY <1>7, <1>8, <1>13, <2>1, <2>2 DEF RouteInv
  <2>4. Untouched(t)'
    BY <1>6, <1>7, <2>1 DEF OutInv, Untouched
  <2>5. OutInv(t)'
    BY <1>8, <1>13, <2>1, <2>4 DEF OutInv, Tried
  <2> QED BY <1>1, <1>2, <1>4, <1>5, <1>11, <2>3, <2>5, StepOfOne DEF LocalInv
<1>14. pc'[t] \in Tried \cup {"symmetric", "batch", "leave"}
  BY DEF IInv, TypeInv, Routing, Goto
<1> QED BY <1>12, <1>13, <1>14

LEMMA RoutesAreRouting ==
  ASSUME IInv, NEW t \in Threads,
         \/ try_symmetric(t) \/ gemm_context(t) \/ try_shared32(t) \/ try_dot(t)
         \/ try_compact(t) \/ try_bilinear(t) \/ ensure_workspace(t) \/ try_rect64(t)
         \/ try_rect32(t) \/ use_strassen(t) \/ classical(t)
  PROVE  Routing(t)
<1> USE DEF Tried, RouteNames, Goto, Choose, Skip, Fail
<1>1. CASE try_symmetric(t)
  <2>1. /\ OnlyRouting /\ pc[t] = "symmetric" /\ ended' \in {ended, "aborted"}
        /\ \/ UNCHANGED <<pc, route>>
           \/ route' = [route EXCEPT ![t] = "symmetric"] /\ Goto(t, "batch")
           \/ Goto(t, "context") /\ UNCHANGED route
           \/ /\ call[t].kind = "syrk" /\ frame[t].target = "c"
              /\ Goto(t, "leave") /\ UNCHANGED route
    BY <1>1 DEF try_symmetric, TakeOrFail
  <2> QED BY <2>1 DEF Routing, OnlyRouting, pools
<1>2. CASE gemm_context(t)
  <2>1. /\ pc[t] = "context" /\ ended' \in {ended, "aborted"} /\ helpers' \in {helpers, pid}
        /\ UNCHANGED <<scenario, pid, owner, once, locals, mutex, pending, out>>
        /\ pc' = pc \/ Goto(t, "shared")
    BY <1>2 DEF gemm_context, IsSmall
  <2> QED BY <2>1 DEF Routing, locals
<1>3. CASE try_shared32(t)
  <2>1. /\ OnlyRouting /\ pc[t] = "shared" /\ ended' \in {ended, "aborted"}
        /\ \/ \E r \in {"stream", "shared"} :
                route' = [route EXCEPT ![t] = r] /\ Goto(t, "batch")
           \/ Goto(t, "dot") /\ UNCHANGED route
    BY <1>3 DEF try_shared32, TakeWithTemp, TakeOrDecline
  <2> QED BY <2>1 DEF Routing, OnlyRouting, pools
<1>4. CASE try_dot(t)
  BY <1>4 DEF try_dot, Routing, OnlyRouting, pools
<1>5. CASE try_compact(t) \/ try_bilinear(t)
  <2>1. /\ OnlyRouting /\ pc[t] \in {"compact", "bilinear"} /\ ended' \in {ended, "aborted"}
        /\ \/ UNCHANGED <<pc, route>>
           \/ \E r \in {"compact", "bilinear"} :
                route' = [route EXCEPT ![t] = r] /\ Goto(t, "batch")
           \/ \E p \in {"bilinear", "workspace"} : Goto(t, p) /\ UNCHANGED route
    BY <1>5 DEF try_compact, try_bilinear, TakeOrFail
  <2> QED BY <2>1 DEF Routing, OnlyRouting, pools
<1>6. CASE ensure_workspace(t)
  BY <1>6 DEF ensure_workspace, Routing, OnlyRouting, pools
<1>7. CASE try_rect64(t) \/ try_rect32(t)
  <2>1. Last(t) \in {"strassen", "classical"}
    BY DEF Last
  <2>2. /\ OnlyRouting /\ pc[t] = "rect" /\ ended' \in {ended, "aborted"}
        /\ \/ \E r \in {"rect", "copied", "segments"} :
                route' = [route EXCEPT ![t] = r] /\ Goto(t, "batch")
           \/ Goto(t, Last(t)) /\ UNCHANGED route
    BY <1>7 DEF try_rect64, try_rect32, TakeWithTemp, TakeOrDecline
  <2> QED BY <2>1, <2>2 DEF Routing, OnlyRouting, pools
<1>8. CASE use_strassen(t)
  BY <1>8 DEF use_strassen, Routing, OnlyRouting, pools
<1>9. CASE classical(t)
  BY <1>9 DEF classical, Routing, OnlyRouting, pools
<1> QED BY <1>1, <1>2, <1>3, <1>4, <1>5, <1>6, <1>7, <1>8, <1>9

(***************************************************************************)
(* Outside the mutex.  Plain(t) is a step of one thread that leaves the    *)
(* process, the mutex and the pending preparation alone.                   *)
(***************************************************************************)
Outside == Places \ (Locked \cup {"gone"})
Plain(t) ==
  /\ pc[t] \in Outside /\ \E p \in Outside : Goto(t, p)
  /\ UNCHANGED <<scenario, mutex, pending, pid, owner, once, helpers, route>>
  /\ ended' \in {ended, "aborted"}
  /\ DOMAIN call' = Threads /\ DOMAIN frame' = Threads /\ out' \in Outs
  /\ \A u \in Threads : u # t =>
       call'[u] = call[u] /\ frame'[u] = frame[u] /\ out'[u] = out[u]

LEMMA PlainStep ==
  ASSUME IInv, NEW t \in Threads, Plain(t), pc[t] \notin {"idle", "ready", "initialize"}
  PROVE  /\ Elsewhere(t) /\ TypeInv' /\ ProcessInv' /\ MutexInv' /\ PendingInv'
         /\ pc'[t] \in Outside /\ route'[t] = None
         /\ (CallInv(t)' /\ FrameInv(t)' /\ OutInv(t)' => IInv')
<1>1. TypeInv'
  BY DEF IInv, TypeInv, Plain, Goto, Outside, Outs, Cell
<1>2. Elsewhere(t) /\ pc'[t] \in Outside
  BY DEF IInv, TypeInv, Plain, Goto, Elsewhere
<1>3. ProcessInv'
  BY <1>2, ProcessKept DEF IInv, Plain, Outside
<1>4. MutexInv' /\ PendingInv'
  BY <1>2, MutexKept, PendingKept DEF IInv, Plain, Outside
<1>5. route'[t] = None /\ RouteInv(t)'
  BY <1>2 DEF IInv, LocalInv, RouteInv, Plain, Outside, Locked
<1> QED BY <1>1, <1>2, <1>3, <1>4, <1>5, StepOfOne DEF LocalInv

LEMMA LocalParts ==
  ASSUME IInv, NEW t \in Threads
  PROVE  /\ TypeInv /\ ProcessInv /\ MutexInv /\ PendingInv
         /\ CallInv(t) /\ FrameInv(t) /\ RouteInv(t) /\ OutInv(t)
BY DEF IInv, LocalInv

LEMMA CallKeeps ==
  ASSUME IInv, NEW t \in Threads, Call(t)
  PROVE  IInv'
<1>1. /\ pc[t] = "idle" /\ Goto(t, "ready") /\ UNCHANGED <<frame, route, mutex, pending>>
      /\ UNCHANGED <<scenario, pid, owner, once, ended, helpers>>
      /\ \E q \in Scenarios[scenario].calls : call' = [call EXCEPT ![t] = q]
      /\ out' = [out EXCEPT ![t] = [c |-> AtRest, product |-> AtRest]]
  BY DEF Call, process, pools
<1>2. AtRest \in Regions /\ \A r \in Triangles : AtRest[r] = "old"
  BY DEF AtRest, Regions, Triangles
<1>3. TypeInv'
  BY <1>1, <1>2 DEF IInv, TypeInv, Goto, Places, Locked
<1>4. Elsewhere(t) /\ pc'[t] = "ready"
  BY <1>1 DEF IInv, TypeInv, Goto, Elsewhere
<1>5. ProcessInv'
  BY <1>1, <1>4 DEF IInv, ProcessInv, Elsewhere
<1>6. MutexInv' /\ PendingInv'
  BY <1>1, <1>4, MutexKept, PendingKept DEF IInv, Locked, Tried
<1>7. CallInv(t)' /\ FrameInv(t)' /\ RouteInv(t)'
  BY <1>1, <1>4 DEF IInv, TypeInv, LocalInv, CallInv, FrameInv, RouteInv, Locked, Tried
<1>8. OutInv(t)'
  <2>1. Untouched(t)'
    BY <1>1, <1>2 DEF IInv, TypeInv, Untouched
  <2> QED BY <1>4, <2>1 DEF OutInv, Tried
<1> QED BY <1>3, <1>4, <1>5, <1>6, <1>7, <1>8, StepOfOne DEF LocalInv

\* pthread_once and the checks of ready().
LEMMA ReadyKeeps ==
  ASSUME IInv, NEW t \in Threads, BeginOnce(t) \/ initialize(t) \/ ready(t)
  PROVE  IInv'
<1>1. /\ pc[t] \in {"ready", "initialize"}
      /\ UNCHANGED <<scenario, pid, helpers, call, frame, route, mutex, pending, out>>
  BY DEF BeginOnce, initialize, ready, pools, locals
<1>2. /\ CallInv(t) /\ FrameInv(t) /\ RouteInv(t) /\ OutInv(t)
      /\ TypeInv /\ ProcessInv
  BY DEF IInv, LocalInv
<1>3. call[t].kind \in {"gemm", "syrk", "query"}
  BY <1>1, <1>2, CallFacts DEF CallInv
<1>4. \E p \in {"ready", "initialize", "gemm", "syrk", "query"} : Goto(t, p)
  <2>1. CASE BeginOnce(t)
    BY <2>1 DEF BeginOnce
  <2>2. CASE initialize(t)
    BY <2>2, <1>2 DEF initialize, TypeInv, Goto
  <2>3. CASE ready(t)
    BY <2>3, <1>2, <1>3 DEF ready, TypeInv, Goto
  <2> QED BY <2>1, <2>2, <2>3
<1>5. TypeInv'
  BY <1>1, <1>4, <1>2 DEF TypeInv, Goto, Places, Locked
<1>6. /\ Elsewhere(t) /\ pc'[t] \in {"ready", "initialize", "gemm", "syrk", "query"}
  BY <1>1, <1>2, <1>4 DEF TypeInv, Goto, Elsewhere
<1>7. pc'[t] \in {"gemm", "syrk", "query"} => pc'[t] = call[t].kind /\ ready(t)
  BY <1>1, <1>2, <1>6 DEF BeginOnce, initialize, ready, Goto, TypeInv
<1>8. ProcessInv'
  <2>1. CASE BeginOnce(t)
    <3>1. /\ pc'[t] = "initialize" /\ once = "new" /\ once' = "running" /\ owner' = owner
          /\ ended' = ended
      BY <2>1, <1>2 DEF BeginOnce, Goto, TypeInv
    <3> QED BY <1>1, <1>2, <1>6, <3>1 DEF ProcessInv, Elsewhere
  <2>2. CASE initialize(t)
    <3>1. pc[t] = "initialize" /\ owner \in {0, pid}
      BY <2>2, <1>2 DEF initialize, ProcessInv
    <3>2. CASE owner' = pid /\ once' = "done" /\ pc'[t] = "ready" /\ ended' = ended
      <4>1. helpers' \in {0, owner'} /\ owner' # 0
        BY <1>1, <1>2, <3>1, <3>2 DEF ProcessInv
      <4> QED BY <1>1, <1>2, <1>6, <3>2, <4>1 DEF ProcessInv, Elsewhere
    <3>3. CASE owner' = owner /\ once' = once /\ pc' = pc /\ ended' = "aborted"
      BY <1>1, <1>2, <3>3 DEF ProcessInv
    <3> QED BY <2>2, <1>2, <3>2, <3>3 DEF initialize, Goto, TypeInv, Fail
  <2>3. CASE ready(t)
    <3>1. UNCHANGED <<owner, once>> /\ ended' \in {ended, "aborted"}
      BY <2>3 DEF ready, Fail
    <3>2. owner = pid \/ pc' = pc
      BY <2>3 DEF ready
    <3> QED BY <1>1, <1>2, <1>6, <3>1, <3>2 DEF ProcessInv, Elsewhere
  <2> QED BY <2>1, <2>2, <2>3
<1>9. MutexInv' /\ PendingInv'
  BY <1>1, <1>6, MutexKept, PendingKept DEF IInv, Locked, Tried
<1>10. CallInv(t)'
  BY <1>1, <1>2, <1>6, <1>7 DEF CallInv, Locked, Tried
<1>11. FrameInv(t)' /\ RouteInv(t)'
  BY <1>1, <1>2, <1>6 DEF FrameInv, RouteInv, Locked, Tried
<1>12. OutInv(t)'
  <2>1. Untouched(t)'
    BY <1>1, <1>2 DEF OutInv, Untouched
  <2> QED BY <1>6, <2>1 DEF OutInv, Tried
<1> QED BY <1>5, <1>6, <1>8, <1>9, <1>10, <1>11, <1>12, StepOfOne DEF LocalInv

LEMMA QueryKeeps ==
  ASSUME IInv, NEW t \in Threads, framework_blas_threads(t)
  PROVE  IInv'
<1>1. /\ pc[t] = "query" /\ Goto(t, "returned")
      /\ UNCHANGED <<call, frame, out>>
  BY DEF framework_blas_threads, locals
<1>2. Plain(t)
  BY <1>1 DEF framework_blas_threads, locals, process, pools, Plain, Outside, Places, Locked, Tried,
              IInv, TypeInv, Outs, Cell
<1>3. pc'[t] = "returned"
  BY <1>1 DEF IInv, TypeInv, Goto
<1>4. CallInv(t)' /\ FrameInv(t)'
  BY <1>1, <1>3, <1>2, LocalParts DEF Plain, CallInv, FrameInv, Locked, Tried
<1>5. Owes(call[t]) = {} /\ Untouched(t)
  BY <1>1, LocalParts DEF CallInv, Owes, OutInv
<1>6. OutInv(t)'
  BY <1>1, <1>3, <1>5 DEF OutInv, Untouched, Tried
<1> QED BY <1>1, <1>2, <1>4, <1>6, PlainStep

LEMMA ReturnKeeps ==
  ASSUME IInv, NEW t \in Threads, Return(t)
  PROVE  IInv'
<1>1. /\ pc[t] = "returned" /\ Goto(t, "idle") /\ call' = [call EXCEPT ![t] = None]
      /\ UNCHANGED <<frame, out>>
  BY DEF Return
<1>2. Plain(t)
  BY <1>1 DEF Return, process, pools, Plain, Outside, Places, Locked, Tried,
              IInv, TypeInv, Outs, Cell
<1>3. pc'[t] = "idle"
  BY <1>1 DEF IInv, TypeInv, Goto
<1>4. CallInv(t)' /\ FrameInv(t)' /\ OutInv(t)'
  BY <1>3 DEF CallInv, FrameInv, OutInv, Locked, Tried
<1> QED BY <1>1, <1>2, <1>4, PlainStep

\* The arguments gemm_ is called with, and where it goes on.
LEMMA GemmCall ==
  ASSUME IInv, NEW t \in Threads, pc[t] = "gemm"
  PROVE  /\ call[t] \in Arguments /\ call[t].kind \in {"gemm", "syrk"} /\ Untouched(t)
         /\ call[t] \in Scenarios[scenario].calls
         /\ GemmArguments(t) \in Arguments
         /\ call[t].kind = "gemm" =>
              /\ GemmArguments(t) = call[t] /\ Target(t) = "c" /\ After(t) = "returned"
              /\ Owes(call[t]) = GemmOwes(call[t])
         /\ call[t].kind = "syrk" =>
              /\ GemmArguments(t) = ProductCall(call[t]) /\ Target(t) = "product"
              /\ After(t) = "update" /\ GemmArguments(t).beta = 0
              /\ Owes(call[t]) # {} /\ HasProduct(call[t]) /\ HasProduct(GemmArguments(t))
              /\ GemmArguments(t).m # 0 /\ GemmArguments(t).n # 0
<1>1. /\ call[t] \in Scenarios[scenario].calls /\ call[t].kind \in {"gemm", "syrk"}
      /\ call[t].kind = "syrk" => Owes(call[t]) # {} /\ HasProduct(call[t])
      /\ Untouched(t)
  BY LocalParts DEF CallInv, OutInv
<1>2. call[t] \in Arguments
  BY <1>1, LocalParts, CallFacts
<1>3. CASE call[t].kind = "gemm"
  BY <1>1, <1>2, <1>3 DEF GemmArguments, Target, After, Owes
<1>4. CASE call[t].kind = "syrk"
  <2>1. GemmArguments(t) = ProductCall(call[t]) /\ Target(t) = "product" /\ After(t) = "update"
    BY <1>4 DEF GemmArguments, Target, After
  <2>2. call[t].n # 0
    BY <1>1, <1>4, OwesFacts
  <2> QED BY <1>1, <1>2, <1>4, <2>1, <2>2, ProductCallFacts
<1> QED BY <1>1, <1>3, <1>4

\* gemm_ returns with its result written, or with nothing to write.
LEMMA GemmReturns ==
  ASSUME IInv, NEW t \in Threads, pc[t] = "gemm", Goto(t, After(t)),
         UNCHANGED <<process, pools, locals, mutex, pending>>,
         \/ out' = out /\ GemmOwes(GemmArguments(t)) = {}
         \/ out' = Written(t, Target(t), GemmOwes(GemmArguments(t)), GemmArguments(t).beta)
  PROVE  IInv'
<1> DEFINE q == call[t]
           x == GemmArguments(t)
<1>1. /\ q.kind \in {"gemm", "syrk"} /\ Untouched(t)
      /\ q.kind = "gemm" => /\ x = q /\ Target(t) = "c" /\ After(t) = "returned"
                            /\ Owes(q) = GemmOwes(q)
      /\ q.kind = "syrk" => /\ Target(t) = "product" /\ After(t) = "update" /\ Owes(q) # {}
                            /\ GemmOwes(x) = Triangles
      /\ q \in Scenarios[scenario].calls
  BY GemmCall DEF GemmOwes
<1>2. Target(t) \in {"c", "product"} /\ After(t) \in {"returned", "update"}
  BY <1>1
<1>3. TypeInv /\ out \in Outs
  BY DEF IInv, TypeInv, Outs, Cell
<1>4. /\ out' \in Outs /\ \A u \in Threads : u # t => out'[u] = out[u]
      /\ \A r \in Triangles :
           /\ out'[t][Other(Target(t))][r] = "old"
           /\ out'[t][Target(t)][r] = IF r \in GemmOwes(x) THEN "good" ELSE "old"
  <2>1. CASE out' = out /\ GemmOwes(x) = {}
    BY <1>1, <1>3, <2>1 DEF Untouched, Other
  <2>2. CASE out' = Written(t, Target(t), GemmOwes(x), x.beta)
    <3> DEFINE part == GemmOwes(x)
               beta == x.beta
               target == Target(t)
    <3>1. out' = Written(t, target, part, beta) /\ target \in {"c", "product"}
      BY <1>2, <2>2
    <3>2. \A r \in Triangles : out[t][target][r] = "old" /\ out[t][Other(target)][r] = "old"
      BY <1>1, <1>2 DEF Untouched, Other
    <3> HIDE DEF part, beta, target
    <3>3. /\ out' \in Outs /\ \A u \in Threads : u # t => out'[u] = out[u]
          /\ \A r \in Triangles :
               /\ out'[t][Other(target)][r] = out[t][Other(target)][r]
               /\ out'[t][target][r] =
                    IF r \notin part THEN out[t][target][r]
                    ELSE IF beta = 0 \/ out[t][target][r] = "old" THEN "good" ELSE "lost"
      BY <1>3, <3>1, WrittenFacts
    <3>4. \A r \in Triangles :
            /\ out'[t][Other(target)][r] = "old"
            /\ out'[t][target][r] = IF r \in part THEN "good" ELSE "old"
      BY <3>2, <3>3
    <3> QED BY <3>3, <3>4 DEF part, target
  <2> QED BY <2>1, <2>2
<1>5. /\ Plain(t) /\ pc'[t] = After(t) /\ call' = call
  <2>1. Goto(t, "returned") \/ Goto(t, "update")
    BY <1>2
  <2>2. pc[t] \in Outside /\ "returned" \in Outside /\ "update" \in Outside
    BY DEF Outside, Places, Locked, Tried
  <2>3. pc'[t] = After(t)
    BY <1>3 DEF Goto, TypeInv
  <2> QED BY <1>3, <1>4, <2>1, <2>2, <2>3 DEF Plain, process, pools, locals, TypeInv
<1>6. scenario' = scenario
  BY DEF process
<1>7. CASE q.kind = "gemm"
  <2>1. pc'[t] = "returned" /\ \A r \in Triangles : out'[t].c[r] = IF r \in Owes(q) THEN "good" ELSE "old"
    BY <1>1, <1>4, <1>5, <1>7
  <2>2. CallInv(t)' /\ FrameInv(t)'
    BY <1>1, <1>5, <1>6, <2>1 DEF CallInv, FrameInv, Locked, Tried
  <2>3. OutInv(t)'
    BY <1>5, <2>1 DEF OutInv, Tried
  <2> QED BY <1>5, <2>2, <2>3, PlainStep
<1>8. CASE q.kind = "syrk"
  <2>1. /\ pc'[t] = "update"
        /\ \A r \in Triangles : out'[t].c[r] = "old" /\ out'[t].product[r] = "good"
    BY <1>1, <1>4, <1>5, <1>8 DEF Other
  <2>2. CallInv(t)' /\ FrameInv(t)'
    <3>1. Owes(q)' = Owes(q)
      BY <1>5
    <3> QED BY <1>1, <1>5, <1>6, <1>8, <2>1, <3>1 DEF CallInv, FrameInv, Locked, Tried
  <2>3. OutInv(t)'
    BY <1>5, <2>1 DEF OutInv, Tried
  <2> QED BY <1>5, <2>2, <2>3, PlainStep
<1> QED BY <1>1, <1>7, <1>8

LEMMA VendorGemmKeeps ==
  ASSUME IInv, NEW t \in Threads, VendorGemm(t)
  PROVE  IInv'
BY GemmReturns DEF VendorGemm

\* A step that leaves everything but the end of the process alone.
LEMMA StopKeeps ==
  ASSUME IInv, ended' \in {ended, "aborted", "exited"},
         UNCHANGED <<scenario, pid, owner, once, helpers, call, frame, route, mutex, pending, pc, out>>
  PROVE  IInv'
<1>1. TypeInv' /\ MutexInv' /\ PendingInv'
  BY DEF IInv, TypeInv, MutexInv, PendingInv, TouchIsOfThisCall
<1>2. ProcessInv'
  BY DEF IInv, ProcessInv
<1>3. ASSUME NEW u \in Threads
      PROVE  LocalInv(u)'
  BY LocalKept DEF IInv
<1> QED BY <1>1, <1>2, <1>3 DEF IInv

LEMMA GemmChecksKeeps ==
  ASSUME IInv, NEW t \in Threads, GemmChecks(t)
  PROVE  IInv'
<1> DEFINE q == call[t]
           a == GemmArguments(t)
           x == ColumnMajor(a)
<1>1. /\ pc[t] = "gemm"
      /\ UNCHANGED <<scenario, pid, owner, once, pools, memory, call, route, temp, made, mutex,
                     pending>>
  BY DEF GemmChecks
<1>2. a \in Arguments
  BY <1>1, GemmCall
<1>3. /\ (x.m = 0 \/ x.n = 0) <=> (a.m = 0 \/ a.n = 0)
      /\ HasProduct(x) <=> HasProduct(a)
      /\ x.beta = a.beta
  BY <1>2, ColumnMajorFacts
<1> HIDE DEF x, a
<1>4. \/ Fail /\ UNCHANGED <<pc, out, frame>>
      \/ (x.m = 0 \/ x.n = 0) /\ Goto(t, After(t)) /\ UNCHANGED <<ended, out, frame>>
      \/ /\ x.m # 0 /\ x.n # 0 /\ HasProduct(x)
         /\ frame' = [frame EXCEPT ![t] = GemmFrame(a, Target(t))]
         /\ Goto(t, "lock") /\ UNCHANGED <<ended, out>>
      \/ /\ x.m # 0 /\ x.n # 0 /\ ~HasProduct(x)
         /\ out' = IF x.beta = 1 THEN out ELSE Written(t, Target(t), Triangles, x.beta)
         /\ Goto(t, After(t)) /\ UNCHANGED <<ended, frame>>
  BY DEF GemmChecks, a, x
<1>5. CASE Fail /\ UNCHANGED <<pc, out, frame>>
  BY <1>1, <1>5, StopKeeps DEF Fail, pools, locals
<1>6. CASE (x.m = 0 \/ x.n = 0) /\ Goto(t, After(t)) /\ UNCHANGED <<ended, out, frame>>
  <2>1. GemmOwes(a) = {}
    BY <1>3, <1>6 DEF GemmOwes
  <2> QED BY <1>1, <1>6, <2>1, GemmReturns DEF process, locals, a
<1>7. CASE /\ x.m # 0 /\ x.n # 0 /\ ~HasProduct(x)
           /\ out' = IF x.beta = 1 THEN out ELSE Written(t, Target(t), Triangles, x.beta)
           /\ Goto(t, After(t)) /\ UNCHANGED <<ended, frame>>
  <2>1. GemmOwes(a) = IF a.beta = 1 THEN {} ELSE Triangles
    BY <1>3, <1>7 DEF GemmOwes
  <2> QED BY <1>1, <1>3, <1>7, <2>1, GemmReturns DEF process, locals, a
<1>8. CASE /\ x.m # 0 /\ x.n # 0 /\ HasProduct(x)
           /\ frame' = [frame EXCEPT ![t] = GemmFrame(a, Target(t))]
           /\ Goto(t, "lock") /\ UNCHANGED <<ended, out>>
  <2>1. /\ q \in Scenarios[scenario].calls /\ q \in Arguments /\ q.kind \in {"gemm", "syrk"}
        /\ Untouched(t)
        /\ q.kind = "gemm" => a = q /\ Target(t) = "c" /\ Owes(q) = GemmOwes(q)
        /\ q.kind = "syrk" => /\ a = ProductCall(q) /\ Target(t) = "product"
                              /\ Owes(q) # {} /\ HasProduct(q)
    BY <1>1, GemmCall DEF a
  <2>2. Plain(t) /\ pc'[t] = "lock" /\ frame'[t] = GemmFrame(a, Target(t))
    <3>1. pc[t] \in Outside /\ "lock" \in Outside
      BY <1>1 DEF Outside, Places, Locked, Tried
    <3>2. frame'[t] = GemmFrame(a, Target(t)) /\ pc'[t] = "lock"
      BY <1>8 DEF IInv, TypeInv, Goto
    <3> QED BY <1>1, <1>8, <3>1, <3>2 DEF Plain, pools, IInv, TypeInv, Outs, Cell
  <2>3. Owes(q) # {} /\ HasProduct(q)
    <3>1. q.kind = "gemm" => GemmOwes(q) = Triangles /\ HasProduct(q)
      BY <1>3, <1>8, <2>1 DEF GemmOwes
    <3> QED BY <2>1, <3>1 DEF Triangles
  <2>4. CallInv(t)'
    BY <1>1, <2>1, <2>2, <2>3 DEF CallInv, Locked, Tried
  <2>5. FrameInv(t)'
    BY <1>1, <2>1, <2>2 DEF FrameInv, Locked, Tried
  <2>6. OutInv(t)'
    BY <1>8, <2>1, <2>2 DEF OutInv, Untouched, Tried
  <2> QED BY <1>1, <2>2, <2>4, <2>5, <2>6, PlainStep
<1> QED BY <1>4, <1>5, <1>6, <1>7, <1>8

(***************************************************************************)
(* Under the mutex.                                                        *)
(***************************************************************************)
LEMMA LockKeeps ==
  ASSUME IInv, NEW t \in Threads, Lock(t)
  PROVE  IInv'
<1>1. /\ pc[t] = "lock" /\ mutex = None /\ mutex' = t /\ Goto(t, "locked")
      /\ UNCHANGED <<scenario, pid, owner, once, ended, helpers, call, frame, route, pending, out>>
  BY DEF Lock, process, pools, locals
<1>2. TypeInv' /\ pc'[t] = "locked"
  BY <1>1 DEF IInv, TypeInv, Goto, Places, Locked
<1>3. Elsewhere(t)
  BY <1>1 DEF IInv, TypeInv, Goto, Elsewhere
<1>4. ProcessInv'
  BY <1>1, <1>3, ProcessKept DEF IInv
<1>5. MutexInv'
  BY <1>1, <1>2, <1>3, BridgeAssumption DEF IInv, MutexInv, Elsewhere, Locked
<1>6. PendingInv'
  BY <1>1 DEF IInv, PendingInv, TouchIsOfThisCall
<1>7. CallInv(t)' /\ FrameInv(t)' /\ RouteInv(t)'
  BY <1>1, <1>2, LocalParts DEF CallInv, FrameInv, RouteInv, Locked, Tried
<1>8. OutInv(t)'
  BY <1>1, <1>2, LocalParts DEF OutInv, Untouched, Tried
<1> QED BY <1>2, <1>3, <1>4, <1>5, <1>6, <1>7, <1>8, StepOfOne DEF LocalInv

LEMMA CamblasReadyKeeps ==
  ASSUME IInv, NEW t \in Threads, camblas_ready(t)
  PROVE  IInv'
<1>1. /\ pc[t] = "locked" /\ (pc' = pc \/ Goto(t, "prepare"))
      /\ UNCHANGED <<scenario, pid, owner, once, call, frame, route, mutex, pending, out>>
      /\ helpers' \in {helpers, pid} /\ ended' \in {ended, "aborted"}
  BY DEF camblas_ready, locals, Fail
<1>2. TypeInv' /\ pc'[t] \in {"locked", "prepare"}
  BY <1>1 DEF IInv, TypeInv, Goto, Places, Locked
<1>3. Elsewhere(t)
  BY <1>1 DEF IInv, TypeInv, Goto, Elsewhere
<1>4. ProcessInv'
  BY <1>1, <1>3, ProcessKept DEF IInv
<1>5. MutexInv' /\ PendingInv'
  BY <1>1, <1>2, <1>3, MutexKept, PendingKept DEF IInv, Locked
<1>6. CallInv(t)' /\ FrameInv(t)' /\ RouteInv(t)'
  BY <1>1, <1>2, LocalParts DEF CallInv, FrameInv, RouteInv, Locked, Tried
<1>7. OutInv(t)'
  BY <1>1, <1>2, LocalParts DEF OutInv, Untouched, Tried
<1> QED BY <1>2, <1>3, <1>4, <1>5, <1>6, <1>7, StepOfOne DEF LocalInv

LEMMA PrepareKeeps ==
  ASSUME IInv, NEW t \in Threads, prepare_output_touch(t)
  PROVE  IInv'
<1>1. /\ pc[t] = "prepare" /\ Goto(t, "symmetric")
      /\ UNCHANGED <<scenario, pid, owner, once, ended, helpers, call, frame, route, mutex, out>>
      /\ \/ /\ frame[t].x.beta = 0
            /\ pending' = [of |-> <<t, frame[t].target>>, part |-> frame[t].part]
         \/ pending' = None
  BY DEF prepare_output_touch, Prepared, prepares_output, process, pools, locals
<1>2. TypeInv' /\ pc'[t] = "symmetric"
  BY <1>1 DEF IInv, TypeInv, Goto, Places, Locked
<1>3. Elsewhere(t)
  BY <1>1 DEF IInv, TypeInv, Goto, Elsewhere
<1>4. ProcessInv'
  BY <1>1, <1>3, ProcessKept DEF IInv
<1>5. MutexInv' /\ mutex = t
  BY <1>1, <1>2, <1>3, MutexKept DEF IInv, MutexInv, Locked
<1>6. frame[t] # None
  BY <1>1, LocalParts, FrameFacts DEF Locked
<1>7. PendingInv'
  BY <1>1, <1>5, <1>6, BridgeAssumption DEF PendingInv, TouchIsOfThisCall
<1>8. CallInv(t)' /\ FrameInv(t)' /\ RouteInv(t)'
  BY <1>1, <1>2, LocalParts DEF CallInv, FrameInv, RouteInv, Locked, Tried
<1>9. OutInv(t)'
  BY <1>1, <1>2, LocalParts DEF OutInv, Untouched, Tried
<1> QED BY <1>2, <1>3, <1>4, <1>5, <1>7, <1>8, <1>9, StepOfOne DEF LocalInv

\* The preparation a batch may consume is the one of its own call.
LEMMA TouchedFacts ==
  ASSUME IInv, NEW t \in Threads, pc[t] = "batch", out' = Touched(pending), frame' = frame
  PROVE  /\ out' \in Outs /\ \A u \in Threads : u # t => out'[u] = out[u]
         /\ Unwritten(t)'
<1>1. out \in Outs /\ mutex = t /\ Unwritten(t)
  BY LocalParts DEF TypeInv, Outs, Cell, MutexInv, Locked, OutInv
<1>2. frame[t].target \in {"c", "product"}
  BY LocalParts, FrameFacts DEF Locked
<1>3. CASE pending = None
  BY <1>1, <1>3 DEF Touched, Unwritten
<1>4. CASE pending # None
  <2> DEFINE target == frame[t].target
             part == frame[t].part
             old == out[t][target]
             new == [r \in Triangles |-> IF part \in {"both", r} THEN "touched" ELSE old[r]]
  <2>1. /\ pending.of[1] = t /\ pending.of[2] = target /\ pending.part = part
        /\ frame[t].x.beta = 0
    BY <1>1, <1>4 DEF IInv, PendingInv, TouchIsOfThisCall
  <2>2. out' = [out EXCEPT ![t][target] = new]
    BY <1>4, <2>1 DEF Touched
  <2>3. old \in Regions
    BY <1>1, <1>2 DEF Outs, Cell
  <2>4. new \in Regions
    BY <2>3 DEF Regions
  <2>5. \A r \in Triangles : /\ new[r] \in {old[r], "touched"}
                             /\ new[r] = "touched" => old[r] = "touched" \/ r \in Owed(frame[t])
    BY DEF Owed
  <2> HIDE DEF new, target
  <2>6. /\ out' \in Outs /\ \A u \in Threads : u # t => out'[u] = out[u]
        /\ out'[t][target] = new /\ out'[t][Other(target)] = out[t][Other(target)]
    BY <1>1, <1>2, <2>2, <2>4 DEF Outs, Cell, Other, target
  <2>7. \A r \in Triangles :
          /\ out'[t][Other(target)][r] = "old" /\ out'[t][target][r] \in {"old", "touched"}
          /\ out'[t][target][r] = "touched" => r \in Owed(frame[t])
    BY <1>1, <2>5, <2>6 DEF Unwritten, target
  <2> QED BY <2>1, <2>6, <2>7 DEF Unwritten, target
<1> QED BY <1>3, <1>4

LEMMA BatchKeeps ==
  ASSUME IInv, NEW t \in Threads, Batch(t)
  PROVE  IInv'
<1>1. /\ pc[t] = "batch"
      /\ UNCHANGED <<scenario, pid, owner, once, call, frame, route, mutex>>
      /\ \/ UNCHANGED <<pending, out>>
         \/ pending' = None /\ out' = Touched(pending)
  BY DEF Batch, memory, locals
<1>2. helpers \in {0, pid}
  BY <1>1, LocalParts DEF ProcessInv
<1>3. /\ helpers' \in {helpers, pid} /\ ended' \in {ended, "aborted"}
      /\ pc' = pc \/ Goto(t, "product")
  BY <1>2 DEF Batch, Fail
<1>4. /\ out' \in Outs /\ \A u \in Threads : u # t => out'[u] = out[u]
      /\ Unwritten(t)'
  <2>1. CASE UNCHANGED out
    BY <1>1, <2>1, LocalParts DEF OutInv, Unwritten, TypeInv, Outs, Cell
  <2>2. CASE out' = Touched(pending)
    BY <1>1, <2>2, TouchedFacts
  <2> QED BY <1>1, <2>1, <2>2
<1>5. TypeInv' /\ pc'[t] \in {"batch", "product"}
  BY <1>1, <1>3, <1>4 DEF IInv, TypeInv, Goto, Places, Locked, Outs, Cell
<1>6. Elsewhere(t)
  BY <1>1, <1>3, <1>4 DEF IInv, TypeInv, Goto, Elsewhere
<1>7. ProcessInv'
  BY <1>1, <1>3, <1>6, ProcessKept DEF IInv
<1>8. MutexInv'
  BY <1>1, <1>5, <1>6, MutexKept DEF IInv, Locked
<1>9. PendingInv'
  <2>1. CASE pending' = None
    BY <2>1 DEF PendingInv, TouchIsOfThisCall
  <2>2. CASE pending' = pending
    BY <1>1, <1>6, <2>2, PendingKept DEF IInv
  <2> QED BY <1>1, <2>1, <2>2
<1>10. CallInv(t)' /\ FrameInv(t)' /\ RouteInv(t)'
  BY <1>1, <1>5, LocalParts DEF CallInv, FrameInv, RouteInv, Locked, Tried
<1>11. OutInv(t)'
  BY <1>4, <1>5 DEF OutInv, Tried
<1> QED BY <1>5, <1>6, <1>7, <1>8, <1>9, <1>10, <1>11, StepOfOne DEF LocalInv

\* The route writes what the frame owes, over what it was given or over the
\* preparation of a C that it may overwrite.
LEMMA ProductWrites ==
  ASSUME IInv, NEW t \in Threads, pc[t] = "product", frame' = frame,
         out' = Written(t, frame[t].target, Owed(frame[t]), frame[t].x.beta)
  PROVE  /\ out' \in Outs /\ \A u \in Threads : u # t => out'[u] = out[u]
         /\ Computed(t)'
<1> DEFINE target == frame[t].target
           part == Owed(frame[t])
           beta == frame[t].x.beta
<1>1. out \in Outs /\ target \in {"c", "product"}
  BY LocalParts, FrameFacts DEF TypeInv, Outs, Cell, Locked
<1>2. \A r \in Triangles :
        /\ out[t][Other(target)][r] = "old"
        /\ out[t][target][r] \in {"old", "touched"}
        /\ out[t][target][r] = "touched" => r \in part /\ beta = 0
  BY LocalParts DEF OutInv, Unwritten
<1> HIDE DEF target, part, beta
<1>3. out' = Written(t, target, part, beta)
  BY DEF target, part, beta
<1>4. /\ out' \in Outs
      /\ \A u \in Threads : u # t => out'[u] = out[u]
      /\ \A r \in Triangles :
           /\ out'[t][Other(target)][r] = out[t][Other(target)][r]
           /\ out'[t][target][r] =
                IF r \notin part THEN out[t][target][r]
                ELSE IF beta = 0 \/ out[t][target][r] = "old" THEN "good" ELSE "lost"
  BY <1>1, <1>3, WrittenFacts
<1>5. \A r \in Triangles :
        /\ out'[t][Other(target)][r] = "old"
        /\ out'[t][target][r] = IF r \in part THEN "good" ELSE "old"
  BY <1>2, <1>4
<1>6. Computed(t)'
  BY <1>5 DEF Computed, target, part
<1> QED BY <1>4, <1>6

LEMMA ProductKeeps ==
  ASSUME IInv, NEW t \in Threads, product(t)
  PROVE  IInv'
<1>1. /\ pc[t] = "product"
      /\ UNCHANGED <<scenario, pid, owner, once, helpers, call, frame, mutex, pending>>
  BY DEF product, pools
<1>2. \/ ended' = "aborted" /\ UNCHANGED <<out, route, pc>>
      \/ ended' = ended /\ ProductDone(t)
  BY DEF product, Fail
<1>3. CASE ended' = "aborted" /\ UNCHANGED <<out, route, pc>>
  <2> QED BY <1>1, <1>3, StopKeeps
<1>4. CASE ended' = ended /\ ProductDone(t)
  <2>1. \/ /\ out' = Written(t, frame[t].target, Owed(frame[t]), frame[t].x.beta)
           /\ Goto(t, "leave") /\ UNCHANGED route
        \/ /\ route' = [route EXCEPT ![t] = None] /\ UNCHANGED out
           /\ \E p \in {"dot", "strassen", "classical"} : Goto(t, p)
    BY <1>4 DEF ProductDone, Last
  <2>2. /\ out' \in Outs /\ \A u \in Threads : u # t => out'[u] = out[u]
    <3>1. out \in Outs
      BY LocalParts DEF TypeInv, Outs, Cell
    <3> QED BY <1>1, <2>1, <3>1, ProductWrites
  <2>3. TypeInv' /\ pc'[t] \in {"leave", "dot", "strassen", "classical"}
    BY <1>1, <2>1, <2>2 DEF IInv, TypeInv, Goto, Places, Locked, Tried, Outs, Cell
  <2>4. Elsewhere(t)
    BY <1>1, <2>1, <2>2 DEF IInv, TypeInv, Goto, Elsewhere
  <2>5. ProcessInv'
    BY <1>1, <1>4, <2>4, ProcessKept DEF IInv
  <2>6. MutexInv' /\ PendingInv'
    BY <1>1, <2>3, <2>4, MutexKept, PendingKept DEF IInv, Locked, Tried
  <2>7. CallInv(t)' /\ FrameInv(t)'
    BY <1>1, <2>3, LocalParts DEF CallInv, FrameInv, Locked, Tried
  <2>8. CASE pc'[t] = "leave"
    <3>1. route' = route /\ Computed(t)' /\ route[t] # None
      <4>1. route' = route /\ out' = Written(t, frame[t].target, Owed(frame[t]), frame[t].x.beta)
        BY <2>1, <2>8 DEF IInv, TypeInv, Goto
      <4> QED BY <1>1, <4>1, ProductWrites, LocalParts DEF RouteInv
    <3>2. RouteInv(t)' /\ OutInv(t)'
      BY <2>8, <3>1 DEF RouteInv, OutInv, Tried
    <3> QED BY <2>3, <2>4, <2>5, <2>6, <2>7, <3>2, StepOfOne DEF LocalInv
  <2>9. CASE pc'[t] # "leave"
    <3>1. route'[t] = None /\ out' = out /\ pc'[t] \in Tried
      BY <2>1, <2>3, <2>9 DEF IInv, TypeInv, Goto, Tried
    <3>2. Unwritten(t)'
      BY <1>1, <3>1, LocalParts DEF OutInv, Unwritten
    <3>3. RouteInv(t)' /\ OutInv(t)'
      BY <2>3, <2>9, <3>1, <3>2 DEF RouteInv, OutInv, Tried
    <3> QED BY <2>3, <2>4, <2>5, <2>6, <2>7, <3>3, StepOfOne DEF LocalInv
  <2> QED BY <2>8, <2>9
<1> QED BY <1>2, <1>3, <1>4

LEMMA LeaveKeeps ==
  ASSUME IInv, NEW t \in Threads, leave(t)
  PROVE  IInv'
<1> DEFINE q == call[t]
<1>1. /\ pc[t] = "leave" /\ Goto(t, AfterRoute(t)) /\ pending' = None /\ mutex' = None
      /\ frame' = [frame EXCEPT ![t] = None] /\ route' = [route EXCEPT ![t] = None]
      /\ UNCHANGED <<scenario, pid, owner, once, helpers, ended, call, out>>
  BY DEF leave, Leaving, process, pools
<1>2. AfterRoute(t) \in {"update", "returned", "allocate"}
  BY DEF AfterRoute
<1>3. TypeInv' /\ pc'[t] = AfterRoute(t)
  BY <1>1, <1>2 DEF IInv, TypeInv, Goto, Places
<1>4. Elsewhere(t)
  BY <1>1 DEF IInv, TypeInv, Goto, Elsewhere
<1>5. ProcessInv'
  BY <1>1, <1>4, ProcessKept DEF IInv
<1>6. MutexInv' /\ PendingInv'
  <2>1. ASSUME NEW u \in Threads, pc'[u] \in Locked
        PROVE  FALSE
    <3>1. u # t
      BY <1>2, <1>3, <2>1 DEF Locked, Tried
    <3>2. mutex = u /\ mutex = t
      BY <1>1, <1>4, <2>1, <3>1, LocalParts DEF MutexInv, Elsewhere, Locked
    <3> QED BY <3>1, <3>2
  <2> QED BY <1>1, <2>1 DEF MutexInv, PendingInv, TouchIsOfThisCall
<1>7. /\ q \in Scenarios[scenario].calls /\ q.kind \in {"gemm", "syrk"}
      /\ Owes(q) # {} /\ HasProduct(q)
  BY <1>1, LocalParts DEF CallInv, Locked
<1>8. /\ frame[t].target \in {"c", "product"}
      /\ frame[t].target = "c" => Owed(frame[t]) = Owes(q)
      /\ frame[t].target = "product" => q.kind = "syrk" /\ Owed(frame[t]) = Triangles
  BY <1>1, LocalParts, FrameFacts DEF Locked
<1>9. route'[t] = None
  BY <1>1 DEF IInv, TypeInv
<1>10. pc'[t] \in {"update", "allocate"} => q.kind = "syrk"
  BY <1>3, <1>7, <1>8 DEF AfterRoute
<1>11. CallInv(t)' /\ FrameInv(t)' /\ RouteInv(t)'
  <2>1. CallInv(t)'
    BY <1>1, <1>2, <1>3, <1>7, <1>10 DEF CallInv, Locked, Tried
  <2> QED BY <1>2, <1>3, <1>9, <2>1 DEF FrameInv, RouteInv, Locked, Tried
<1>12. OutInv(t)'
  <2>1. CASE route[t] = None
    <3>1. /\ Untouched(t) /\ q.kind = "syrk" /\ frame[t] = SyrkFrame(q)
      BY <1>1, <2>1, LocalParts DEF OutInv, RouteInv
    <3>2. frame[t].target = "c"
      BY <1>7, <3>1, LocalParts, CallFacts, SyrkFrameFacts
    <3>3. pc'[t] = "allocate"
      BY <1>3, <2>1, <3>1, <3>2 DEF AfterRoute
    <3> QED BY <1>1, <3>1, <3>3 DEF OutInv, Untouched, Tried
  <2>2. CASE route[t] # None /\ frame[t].target = "c"
    <3>1. Computed(t) /\ pc'[t] = "returned"
      BY <1>1, <1>3, <2>2, LocalParts DEF OutInv, AfterRoute
    <3>2. \A r \in Triangles : out[t].c[r] = IF r \in Owes(q) THEN "good" ELSE "old"
      BY <1>8, <2>2, <3>1 DEF Computed
    <3>3. OutInv(t)' <=> \A r \in Triangles : out'[t].c[r] = IF r \in Owes(call'[t]) THEN "good" ELSE "old"
      BY <3>1 DEF OutInv, Tried
    <3> QED BY <1>1, <3>2, <3>3
  <2>3. CASE route[t] # None /\ frame[t].target = "product"
    <3>1. Computed(t) /\ pc'[t] = "update"
      BY <1>1, <1>3, <2>3, LocalParts DEF OutInv, AfterRoute
    <3>2. \A r \in Triangles : out[t].c[r] = "old" /\ out[t].product[r] = "good"
      BY <1>8, <2>3, <3>1 DEF Computed, Other
    <3> QED BY <1>1, <3>1, <3>2 DEF OutInv, Tried
  <2> QED BY <1>8, <2>1, <2>2, <2>3
<1> QED BY <1>3, <1>4, <1>5, <1>6, <1>11, <1>12, StepOfOne DEF LocalInv

(***************************************************************************)
(* SYRK.                                                                   *)
(***************************************************************************)
\* A SYRK returns with its triangle written, or with nothing to write.
LEMMA SyrkReturns ==
  ASSUME IInv, NEW t \in Threads, pc[t] \in {"syrk", "update"}, Goto(t, "returned"),
         UNCHANGED <<scenario, pid, owner, once, helpers, call, frame, route, mutex, pending>>,
         ended' \in {ended, "aborted"},
         \A r \in Triangles : out[t].c[r] = "old",
         \/ out' = out /\ Owes(call[t]) = {}
         \/ out' = Written(t, "c", Owes(call[t]), call[t].beta)
  PROVE  IInv'
<1> DEFINE part == Owes(call[t])
           beta == call[t].beta
<1>1. out \in Outs
  BY LocalParts DEF TypeInv, Outs, Cell
<1>2. /\ out' \in Outs /\ \A u \in Threads : u # t => out'[u] = out[u]
      /\ \A r \in Triangles : out'[t].c[r] = IF r \in part THEN "good" ELSE "old"
  <2>1. CASE out' = out /\ part = {}
    BY <1>1, <2>1
  <2>2. CASE out' = Written(t, "c", part, beta)
    <3> DEFINE target == "c"
    <3>1. target \in {"c", "product"} /\ out' = Written(t, target, part, beta)
      BY <2>2
    <3>2. \A r \in Triangles : out[t][target][r] = "old"
      OBVIOUS
    <3> HIDE DEF part, beta, target
    <3>3. /\ out' \in Outs /\ \A u \in Threads : u # t => out'[u] = out[u]
          /\ \A r \in Triangles :
               out'[t][target][r] = IF r \notin part THEN out[t][target][r]
                    ELSE IF beta = 0 \/ out[t][target][r] = "old" THEN "good" ELSE "lost"
      BY <1>1, <3>1, WrittenFacts
    <3>4. \A r \in Triangles : out'[t][target][r] = IF r \in part THEN "good" ELSE "old"
      BY <3>2, <3>3
    <3> QED BY <3>3, <3>4 DEF target
  <2> QED BY <2>1, <2>2
<1>3. Plain(t) /\ pc'[t] = "returned"
  BY <1>2 DEF Plain, Goto, Outside, Places, Locked, Tried, IInv, TypeInv
<1>4. CallInv(t)' /\ FrameInv(t)'
  BY <1>3, LocalParts DEF CallInv, FrameInv, Locked, Tried
<1>5. OutInv(t)'
  <2>1. OutInv(t)' <=> \A r \in Triangles : out'[t].c[r] = IF r \in Owes(call'[t]) THEN "good" ELSE "old"
    BY <1>3 DEF OutInv, Tried
  <2> QED BY <1>2, <2>1
<1> QED BY <1>3, <1>4, <1>5, PlainStep

LEMMA CblasSyrkKeeps ==
  ASSUME IInv, NEW t \in Threads, cblas_syrk(t)
  PROVE  IInv'
<1> DEFINE q == call[t]
<1>1. /\ pc[t] = "syrk"
      /\ UNCHANGED <<scenario, pid, owner, once, helpers, call, route, mutex, pending>>
  BY DEF cblas_syrk, pools
<1>2. /\ q \in Scenarios[scenario].calls /\ q.kind = "syrk" /\ Untouched(t)
      /\ Owes(q) = SyrkOwes(q)
  BY <1>1, LocalParts DEF CallInv, OutInv, Owes
<1>3. \/ Fail /\ UNCHANGED <<pc, frame, out>>
      \/ /\ Goto(t, "returned") /\ UNCHANGED <<ended, frame>>
         /\ \/ out' = out /\ SyrkOwes(q) = {}
            \/ out' = Written(t, "c", SyrkOwes(q), q.beta)
      \/ /\ SyrkOwes(q) # {} /\ UNCHANGED <<ended, out>>
         /\ \/ HasProduct(q) /\ frame' = [frame EXCEPT ![t] = SyrkFrame(q)] /\ Goto(t, "lock")
            \/ Goto(t, "allocate") /\ UNCHANGED frame
  BY DEF cblas_syrk, SyrkOwes
<1>4. CASE Fail /\ UNCHANGED <<pc, frame, out>>
  BY <1>1, <1>4, StopKeeps DEF Fail
<1>5. CASE /\ Goto(t, "returned") /\ UNCHANGED <<ended, frame>>
           /\ \/ out' = out /\ SyrkOwes(q) = {}
              \/ out' = Written(t, "c", SyrkOwes(q), q.beta)
  <2>1. \A r \in Triangles : out[t].c[r] = "old"
    BY <1>2 DEF Untouched
  <2> QED BY <1>1, <1>2, <1>5, <2>1, SyrkReturns
<1>6. CASE /\ SyrkOwes(q) # {} /\ UNCHANGED <<ended, out>>
           /\ \/ HasProduct(q) /\ frame' = [frame EXCEPT ![t] = SyrkFrame(q)] /\ Goto(t, "lock")
              \/ Goto(t, "allocate") /\ UNCHANGED frame
  <2>1. /\ pc'[t] \in {"lock", "allocate"}
        /\ pc'[t] = "lock" => HasProduct(q) /\ frame'[t] = SyrkFrame(q)
    BY <1>6 DEF IInv, TypeInv, Goto
  <2>2. Plain(t)
    BY <1>1, <1>6 DEF Plain, Goto, Outside, Places, Locked, Tried, IInv, TypeInv, Outs, Cell
  <2>3. CallInv(t)'
    BY <1>1, <1>2, <1>6, <2>1 DEF CallInv, Locked, Tried
  <2>4. FrameInv(t)'
    BY <1>1, <1>2, <2>1 DEF FrameInv, Locked, Tried
  <2>5. OutInv(t)'
    BY <1>2, <1>6, <2>1 DEF OutInv, Untouched, Tried
  <2> QED BY <1>1, <2>2, <2>3, <2>4, <2>5, PlainStep
<1> QED BY <1>2, <1>3, <1>4, <1>5, <1>6

LEMMA SyrkProductKeeps ==
  ASSUME IInv, NEW t \in Threads, SyrkProduct(t)
  PROVE  IInv'
<1> DEFINE q == call[t]
<1>1. /\ pc[t] = "allocate"
      /\ UNCHANGED <<scenario, pid, owner, once, helpers, call, frame, route, mutex, pending, out>>
      /\ ended' \in {ended, "aborted"}
      /\ \/ ~HasProduct(q) /\ Goto(t, "update")
         \/ HasProduct(q) /\ Goto(t, "gemm")
         \/ pc' = pc
  BY DEF SyrkProduct, pools, Fail
<1>2. q \in Scenarios[scenario].calls /\ q.kind = "syrk" /\ Owes(q) # {} /\ Untouched(t)
  BY <1>1, LocalParts DEF CallInv, OutInv
<1>3. /\ pc'[t] \in {"update", "gemm", "allocate"}
      /\ pc'[t] = "update" => ~HasProduct(q)
      /\ pc'[t] = "gemm" => HasProduct(q)
  BY <1>1 DEF IInv, TypeInv, Goto
<1>4. Plain(t)
  <2>1. pc[t] \in Outside /\ {"update", "gemm", "allocate"} \subseteq Outside
    BY <1>1 DEF Outside, Places, Locked, Tried
  <2>2. pc' = [pc EXCEPT ![t] = pc'[t]]
    BY <1>1, <1>3 DEF IInv, TypeInv, Goto
  <2> QED BY <1>1, <1>3, <2>1, <2>2 DEF Plain, Goto, IInv, TypeInv, Outs, Cell
<1>5. CallInv(t)' /\ FrameInv(t)'
  BY <1>1, <1>2, <1>3 DEF CallInv, FrameInv, Locked, Tried
<1>6. OutInv(t)'
  BY <1>1, <1>2, <1>3 DEF OutInv, Untouched, Tried
<1> QED BY <1>1, <1>4, <1>5, <1>6, PlainStep

LEMMA SyrkUpdateKeeps ==
  ASSUME IInv, NEW t \in Threads, SyrkUpdate(t)
  PROVE  IInv'
<1> DEFINE q == call[t]
<1>1. /\ pc[t] = "update" /\ Goto(t, "returned")
      /\ UNCHANGED <<scenario, pid, owner, once, helpers, ended, call, frame, route, mutex, pending>>
      /\ out' = IF HasProduct(q) /\ out[t].product[Triangle(q)] # "good"
                THEN [out EXCEPT ![t].c[Triangle(q)] = "lost"]
                ELSE Written(t, "c", {Triangle(q)}, q.beta)
  BY DEF SyrkUpdate, process, pools
<1>2. /\ q \in Scenarios[scenario].calls /\ q.kind = "syrk" /\ Owes(q) # {}
      /\ \A r \in Triangles : /\ out[t].c[r] = "old"
                              /\ HasProduct(q) => out[t].product[r] = "good"
  BY <1>1, LocalParts DEF CallInv, OutInv
<1>3. Owes(q) = {Triangle(q)} /\ Triangle(q) \in Triangles
  BY <1>2, LocalParts, OwesFacts, CallFacts, SyrkFrameFacts
<1>4. out' = Written(t, "c", Owes(q), q.beta)
  BY <1>1, <1>2, <1>3
<1> QED BY <1>1, <1>2, <1>4, SyrkReturns

(***************************************************************************)
(* The process.                                                            *)
(***************************************************************************)
LEMMA ForkKeeps ==
  ASSUME IInv, NEW t \in Threads, Fork(t)
  PROVE  IInv'
<1>1. /\ pc[t] = "idle" /\ pid = 1 /\ pid' = 2
      /\ pc' = [u \in Threads |-> IF u = t THEN "idle" ELSE "gone"]
      /\ once' = IF once = "running" THEN "new" ELSE once
      /\ UNCHANGED <<scenario, owner, helpers, ended, call, frame, route, mutex, pending, out>>
  BY DEF Fork, pools, locals
<1>2. TypeInv'
  BY <1>1 DEF IInv, TypeInv, Places
<1>3. ProcessInv'
  <2>1. pid' \in {1, 2} /\ helpers' \in {0, owner'} /\ ended' # "hung"
    BY <1>1 DEF IInv, ProcessInv
  <2>2. once' = "done" <=> owner' # 0
    BY <1>1 DEF IInv, ProcessInv
  <2>3. \A u \in Threads : pc'[u] \in {"idle", "gone"}
    BY <1>1
  <2> QED BY <2>1, <2>2, <2>3 DEF ProcessInv
<1>4. MutexInv'
  BY <1>1 DEF IInv, MutexInv, Locked, Tried
<1>5. PendingInv'
  BY <1>1 DEF IInv, PendingInv, TouchIsOfThisCall
<1>6. ASSUME NEW u \in Threads
      PROVE  LocalInv(u)'
  <2>1. CASE u = t
    BY <1>1, <2>1, LocalKept DEF IInv
  <2>2. CASE u # t
    <3>1. pc'[u] = "gone"
      BY <1>1, <2>2
    <3> QED BY <3>1 DEF LocalInv, CallInv, FrameInv, RouteInv, OutInv, Locked, Tried
  <2> QED BY <2>1, <2>2
<1> QED BY <1>2, <1>3, <1>4, <1>5, <1>6 DEF IInv

LEMMA DestructorKeeps ==
  ASSUME IInv, release_resources
  PROVE  IInv'
<1>1. /\ UNCHANGED <<scenario, pid, owner, once, call, frame, route, mutex, pending, pc, out>>
      /\ owner = pid => helpers \in {0, pid}
  BY DEF release_resources, locals, IInv, ProcessInv
<1>2. ended' = "exited" /\ helpers' \in {helpers, 0}
  BY <1>1 DEF release_resources
<1>3. TypeInv' /\ MutexInv' /\ PendingInv'
  BY <1>1 DEF IInv, TypeInv, MutexInv, PendingInv, TouchIsOfThisCall
<1>4. ProcessInv'
  BY <1>1, <1>2 DEF IInv, ProcessInv
<1>5. ASSUME NEW u \in Threads
      PROVE  LocalInv(u)'
  BY <1>1, LocalKept DEF IInv
<1> QED BY <1>3, <1>4, <1>5 DEF IInv

(***************************************************************************)
(* The theorems.                                                           *)
(***************************************************************************)
LEMMA InitHolds == Init => IInv
<1> SUFFICES ASSUME Init PROVE IInv
  OBVIOUS
<1>1. AtRest \in Regions /\ \A r \in Triangles : AtRest[r] = "old"
  BY DEF AtRest, Regions, Triangles
<1>2. TypeInv
  BY <1>1 DEF Init, TypeInv, Places
<1>3. ProcessInv /\ MutexInv /\ PendingInv
  BY DEF Init, ProcessInv, MutexInv, PendingInv, TouchIsOfThisCall, Locked, Tried
<1>4. ASSUME NEW t \in Threads
      PROVE  LocalInv(t)
  BY DEF Init, LocalInv, CallInv, FrameInv, RouteInv, OutInv, Locked, Tried
<1> QED BY <1>2, <1>3, <1>4 DEF IInv

LEMMA NextKeeps == IInv /\ [Next]_vars => IInv'
<1> SUFFICES ASSUME IInv, [Next]_vars PROVE IInv'
  OBVIOUS
<1>1. CASE UNCHANGED vars
  BY <1>1, StopKeeps DEF vars, process, pools, locals
<1>2. ASSUME NEW t \in Threads, Call(t) \/ Fork(t)
      PROVE  IInv'
  BY <1>2, CallKeeps, ForkKeeps
<1>3. ASSUME NEW t \in Threads, Step(t)
      PROVE  IInv'
  <2>1. CASE BeginOnce(t) \/ initialize(t) \/ ready(t) \/ framework_blas_threads(t)
    BY <2>1, ReadyKeeps, QueryKeeps
  <2>2. CASE VendorGemm(t) \/ GemmChecks(t) \/ Lock(t)
    BY <2>2, VendorGemmKeeps, GemmChecksKeeps, LockKeeps
  <2>3. CASE camblas_ready(t) \/ prepare_output_touch(t)
    BY <2>3, CamblasReadyKeeps, PrepareKeeps
  <2>4. CASE \/ try_symmetric(t) \/ gemm_context(t) \/ try_shared32(t) \/ try_dot(t)
             \/ try_compact(t) \/ try_bilinear(t) \/ ensure_workspace(t) \/ try_rect64(t)
             \/ try_rect32(t) \/ use_strassen(t) \/ classical(t)
    BY <2>4, RoutesAreRouting, RoutingKeeps
  <2>5. CASE Batch(t) \/ product(t) \/ leave(t)
    BY <2>5, BatchKeeps, ProductKeeps, LeaveKeeps
  <2>6. CASE cblas_syrk(t) \/ SyrkProduct(t) \/ SyrkUpdate(t) \/ Return(t)
    BY <2>6, CblasSyrkKeeps, SyrkProductKeeps, SyrkUpdateKeeps, ReturnKeeps
  <2> QED BY <1>3, <2>1, <2>2, <2>3, <2>4, <2>5, <2>6 DEF Step
<1>4. CASE release_resources
  BY <1>4, DestructorKeeps
<1> QED BY <1>1, <1>2, <1>3, <1>4 DEF Next, Ended

\* The inductive invariant of the bridge holds in every reachable state, for
\* every set of builds, calls and threads (framework_blas_bridge.c).
THEOREM InvariantHolds == Spec => []IInv
BY InitHolds, NextKeeps, PTL DEF Spec

\* A pending output preparation is the one of the call that holds gemm_mutex,
\* whatever route it took and however it left (pending_output_touch).
THEOREM TouchesOwnCall == Spec => []TouchIsOfThisCall
<1>1. IInv => TouchIsOfThisCall
  BY DEF IInv, PendingInv
<1> QED BY <1>1, InvariantHolds, PTL

\* The child of an initialised process stops at its next call, and nothing
\* waits for threads that the fork did not copy (ready, release_resources).
THEOREM ChildStops == Spec => []ForkedChildStops
<1>1. IInv => ForkedChildStops
  BY DEF IInv, ProcessInv, ForkedChildStops
<1> QED BY <1>1, InvariantHolds, PTL

\* A call that returns has computed the triangles of C it owes, from the C it
\* was given, whichever routes declined on the way (gemm_, cblas_?syrk).
THEOREM CallsDeliver == Spec => []OutputDelivered
<1>1. IInv => OutputDelivered
  BY DEF IInv, LocalInv, OutInv, OutputDelivered
<1> QED BY <1>1, InvariantHolds, PTL

-----------------------------------------------------------------------------
(* The memory that the bridge keeps between calls, takes for a route or    *)
(* for the product of a SYRK, and gives back. MInv is inductive together   *)
(* with IInv, which says where each thread is and what it computes.        *)

Uses == {"route", "product"}
BufferType == [block : Blocks \cup {0}, capacity : Nat]
Temporaries == [route : Blocks \cup {0}, product : Blocks \cup {0}]
MemoryType ==
  /\ heap \in [Blocks -> Nat] /\ buffers \in [Buffers -> BufferType]
  /\ temp \in [Threads -> Temporaries]

\* A block is live exactly while one owner has it, a kept buffer with the
\* recorded capacity or a thread.
MemInv ==
  /\ MemoryType
  /\ \A b \in Buffers : IF buffers[b].block = 0 THEN buffers[b].capacity = 0
                         ELSE heap[buffers[b].block] = buffers[b].capacity
  /\ \A b, d \in Buffers : b # d /\ buffers[b].block # 0 => buffers[b].block # buffers[d].block
  /\ \A t, u \in Threads : \A i, j \in Uses :
       (t # u \/ i # j) /\ temp[t][i] # 0 => temp[t][i] # temp[u][j]
  /\ \A b \in Buffers : \A t \in Threads : \A i \in Uses :
       temp[t][i] # 0 => temp[t][i] # buffers[b].block
  /\ \A a \in Blocks :
       heap[a] # 0 <=> \/ \E b \in Buffers : buffers[b].block = a
                       \/ \E t \in Threads : \E i \in Uses : temp[t][i] = a

\* When a thread has memory of its own, and that a SYRK has a size.
HoldInv(t) ==
  /\ temp[t].route # 0 => pc[t] \in {"batch", "product", "gone"}
  /\ temp[t].product # 0 /\ pc[t] # "gone" =>
       /\ call[t].kind = "syrk" /\ pc[t] \in {"gemm", "update", "lock"} \cup Locked
       /\ pc[t] \in {"lock"} \cup Locked => frame[t].target = "product"
  /\ pc[t] \in {"gemm", "lock", "allocate"} \cup Locked /\ call[t].kind = "syrk" => call[t].n > 0

\* From the workspace's step on it is large enough for the last route, and
\* the storage of the chosen route is large enough for that one.
OwnStorage == {"stream", "copied", "segments"}
AfterWorkspace == {"rect", "copied", "segments", "strassen", "classical"}
WorkspaceFits(t) ==
  LET x == frame[t].x IN WantedWorkspace(build, x) <= buffers[<<"workspace", x.fp64>>].capacity
StorageFits(t) ==
  LET r == route[t]
      x == frame[t].x
  IN IF r \in OwnStorage THEN temp[t].route # 0 /\ heap[temp[t].route] = Needed(t)
     ELSE IF IsKept(r) \/ (r = "classical" /\ ~IsPrivateShort(build, x))
     THEN Needed(t) <= buffers[KeptFor(r, x)].capacity ELSE Needed(t) = 0
FitInv(t) ==
  /\ pc[t] = "strassen" => IsStrassen(build, frame[t].x)
  /\ pc[t] \in {"rect", "strassen", "classical"} => WorkspaceFits(t)
  /\ pc[t] \in {"batch", "product"} =>
       StorageFits(t) /\ (route[t] \in AfterWorkspace => WorkspaceFits(t))

MInv == MemInv /\ \A t \in Threads : HoldInv(t) /\ FitInv(t)

(***************************************************************************)
(* Taking and giving back memory.                                          *)
(***************************************************************************)
LEMMA NewBlockFacts ==
  ASSUME MemInv, Free(heap) # {}
  PROVE  /\ NewBlock \in Blocks /\ NewBlock # 0 /\ heap[NewBlock] = 0
         /\ \A b \in Buffers : buffers[b].block # NewBlock
         /\ \A t \in Threads : \A i \in Uses : temp[t][i] # NewBlock
<1>1. NewBlock \in Free(heap)
  BY DEF NewBlock
<1>2. NewBlock \in Blocks /\ heap[NewBlock] = 0
  BY <1>1 DEF Free
<1>3. 0 \notin Blocks
  BY BridgeAssumption
<1> HIDE DEF NewBlock
<1> QED BY <1>2, <1>3 DEF MemInv

\* A kept buffer of another size: the old block is given back.
LEMMA GrowKeeps ==
  ASSUME MemInv, NEW b \in Buffers, NEW size \in Nat \ {0}, Grow(b, size), temp' = temp
  PROVE  /\ MemInv'
         /\ buffers'[b].capacity = size
         /\ \A d \in Buffers : d # b => buffers'[d] = buffers[d]
         /\ \A t \in Threads : \A i \in Uses :
              temp[t][i] # 0 => heap'[temp[t][i]] = heap[temp[t][i]]
<1> DEFINE new == NewBlock
           old == buffers[b].block
<1>1. /\ new \in Blocks /\ new # 0 /\ heap[new] = 0
      /\ \A d \in Buffers : buffers[d].block # new
      /\ \A t \in Threads : \A i \in Uses : temp[t][i] # new
  BY NewBlockFacts DEF Grow
<1>2. /\ heap' = [a \in Blocks |-> IF a = new THEN size ELSE IF a = old THEN 0 ELSE heap[a]]
      /\ buffers' = [buffers EXCEPT ![b] = [block |-> new, capacity |-> size]]
  BY DEF Grow
<1> HIDE DEF new
<1>3. MemoryType /\ 0 \notin Blocks
  BY BridgeAssumption DEF MemInv
<1>4. MemoryType'
  BY <1>1, <1>2, <1>3 DEF MemoryType, BufferType
<1>5. /\ buffers'[b].block = new /\ buffers'[b].capacity = size
      /\ \A d \in Buffers : d # b => buffers'[d] = buffers[d]
  BY <1>2, <1>3 DEF MemoryType
<1>6. \A d \in Buffers : d # b /\ buffers[d].block # 0 =>
        buffers[d].block \in Blocks /\ buffers[d].block # old /\ buffers[d].block # new
  BY <1>1, <1>3 DEF MemInv, MemoryType, BufferType
<1>7. \A t \in Threads : \A i \in Uses : temp[t][i] # 0 =>
        temp[t][i] \in Blocks /\ temp[t][i] # old /\ temp[t][i] # new
  BY <1>1, <1>3 DEF MemInv, MemoryType, Temporaries, Uses
<1>8. \A t \in Threads : \A i \in Uses : temp[t][i] # 0 => heap'[temp[t][i]] = heap[temp[t][i]]
  BY <1>2, <1>7
<1>9. \A d \in Buffers : IF buffers'[d].block = 0 THEN buffers'[d].capacity = 0
                         ELSE heap'[buffers'[d].block] = buffers'[d].capacity
  <2>1. ASSUME NEW d \in Buffers, d # b
        PROVE  IF buffers'[d].block = 0 THEN buffers'[d].capacity = 0
               ELSE heap'[buffers'[d].block] = buffers'[d].capacity
    <3>1. IF buffers[d].block = 0 THEN buffers[d].capacity = 0
          ELSE heap[buffers[d].block] = buffers[d].capacity
      BY DEF MemInv
    <3>2. buffers[d].block # 0 => heap'[buffers[d].block] = heap[buffers[d].block]
      BY <1>2, <1>6, <2>1
    <3> QED BY <1>5, <2>1, <3>1, <3>2
  <2> QED BY <1>1, <1>2, <1>5, <2>1
<1>10. \A d, e \in Buffers : d # e /\ buffers'[d].block # 0 => buffers'[d].block # buffers'[e].block
  <2>1. \A d, e \in Buffers : d # e /\ buffers[d].block # 0 => buffers[d].block # buffers[e].block
    BY DEF MemInv
  <2> QED BY <1>1, <1>5, <1>6, <2>1
<1>11. \A d \in Buffers : \A t \in Threads : \A i \in Uses :
         temp[t][i] # 0 => temp[t][i] # buffers'[d].block
  <2>1. \A d \in Buffers : \A t \in Threads : \A i \in Uses :
          temp[t][i] # 0 => temp[t][i] # buffers[d].block
    BY DEF MemInv
  <2> QED BY <1>5, <1>7, <2>1
<1>12. \A a \in Blocks : heap'[a] # 0 <=> \/ \E d \in Buffers : buffers'[d].block = a
                                          \/ \E t \in Threads : \E i \in Uses : temp[t][i] = a
  <2> SUFFICES ASSUME NEW a \in Blocks
               PROVE  heap'[a] # 0 <=> \/ \E d \in Buffers : buffers'[d].block = a
                                       \/ \E t \in Threads : \E i \in Uses : temp[t][i] = a
    OBVIOUS
  <2>1. heap[a] # 0 <=> \/ \E d \in Buffers : buffers[d].block = a
                        \/ \E t \in Threads : \E i \in Uses : temp[t][i] = a
    BY DEF MemInv
  <2>2. a # 0
    BY <1>3
  <2>3. CASE a = new
    BY <1>2, <1>5, <2>3
  <2>4. CASE a # new /\ a = old
    <3>1. heap'[a] = 0
      BY <1>2, <2>4
    <3>2. \A d \in Buffers : buffers'[d].block # a
      BY <1>5, <1>6, <2>2, <2>4
    <3>3. \A t \in Threads : \A i \in Uses : temp[t][i] # a
      BY <1>7, <2>2, <2>4
    <3> QED BY <3>1, <3>2, <3>3
  <2>5. CASE a # new /\ a # old
    <3>1. heap'[a] = heap[a]
      BY <1>2, <2>5
    <3>2. (\E d \in Buffers : buffers'[d].block = a) <=> (\E d \in Buffers : buffers[d].block = a)
      BY <1>5, <2>5
    <3> QED BY <2>1, <3>1, <3>2
  <2> QED BY <2>3, <2>4, <2>5
<1> HIDE DEF old
<1>13. MemInv'
  <2>1. \A t, u \in Threads : \A i, j \in Uses :
          (t # u \/ i # j) /\ temp'[t][i] # 0 => temp'[t][i] # temp'[u][j]
    BY DEF MemInv
  <2> QED BY <1>4, <1>9, <1>10, <1>11, <1>12, <2>1 DEF MemInv
<1> QED BY <1>5, <1>8, <1>13

LEMMA EnsureKeeps ==
  ASSUME MemInv, NEW b \in Buffers, NEW size \in Int, Ensure(b, size), temp' = temp
  PROVE  /\ MemInv'
         /\ size <= buffers'[b].capacity
         /\ \A d \in Buffers : d # b => buffers'[d] = buffers[d]
         /\ buffers[b].capacity <= buffers'[b].capacity
         /\ \A t \in Threads : \A i \in Uses :
              temp[t][i] # 0 => heap'[temp[t][i]] = heap[temp[t][i]]
<1>1. buffers[b].capacity \in Nat
  BY DEF MemInv, MemoryType, BufferType
<1>2. CASE Fits(b, size)
  <2>1. heap' = heap /\ buffers' = buffers
    BY <1>2 DEF Ensure, memory
  <2>2. MemInv'
    BY <2>1 DEF MemInv, MemoryType
  <2>3. size <= buffers[b].capacity
    BY <1>2 DEF Fits
  <2> QED BY <1>1, <2>1, <2>2, <2>3
<1>3. CASE ~Fits(b, size)
  <2>1. Grow(b, size)
    BY <1>3 DEF Ensure
  <2>2. ~(size <= buffers[b].capacity)
    BY <1>3 DEF Fits
  <2>3. size \in Nat \ {0} /\ buffers[b].capacity <= size /\ size <= size
    BY <1>1, <2>2
  <2>4. /\ MemInv' /\ buffers'[b].capacity = size
        /\ \A d \in Buffers : d # b => buffers'[d] = buffers[d]
        /\ \A t \in Threads : \A i \in Uses :
             temp[t][i] # 0 => heap'[temp[t][i]] = heap[temp[t][i]]
    BY <2>1, <2>3, GrowKeeps
  <2> QED BY <2>3, <2>4
<1> QED BY <1>2, <1>3

\* Memory for one call: a free block.
LEMMA AllocateKeeps ==
  ASSUME MemInv, NEW t \in Threads, NEW use \in Uses, NEW size \in Nat \ {0},
         temp[t][use] = 0, Allocate(t, use, size)
  PROVE  /\ MemInv'
         /\ temp'[t][use] # 0 /\ heap'[temp'[t][use]] = size
         /\ \A i \in Uses : i # use => temp'[t][i] = temp[t][i]
         /\ \A u \in Threads : u # t => temp'[u] = temp[u]
         /\ \A u \in Threads : \A i \in Uses :
              temp[u][i] # 0 => heap'[temp[u][i]] = heap[temp[u][i]]
<1> DEFINE new == NewBlock
<1>1. /\ new \in Blocks /\ new # 0 /\ heap[new] = 0
      /\ \A d \in Buffers : buffers[d].block # new
      /\ \A u \in Threads : \A i \in Uses : temp[u][i] # new
  BY NewBlockFacts DEF Allocate
<1>2. /\ heap' = [heap EXCEPT ![new] = size] /\ temp' = [temp EXCEPT ![t][use] = new]
      /\ buffers' = buffers
  BY DEF Allocate
<1> HIDE DEF new
<1>3. MemoryType /\ 0 \notin Blocks
  BY BridgeAssumption DEF MemInv
<1>4. /\ temp'[t][use] = new
      /\ \A i \in Uses : i # use => temp'[t][i] = temp[t][i]
      /\ \A u \in Threads : u # t => temp'[u] = temp[u]
      /\ temp' \in [Threads -> Temporaries]
  BY <1>1, <1>2, <1>3 DEF MemoryType, Temporaries, Uses
<1>5. MemoryType' /\ heap'[new] = size /\ \A a \in Blocks : a # new => heap'[a] = heap[a]
  BY <1>1, <1>2, <1>3, <1>4 DEF MemoryType
<1>6. \A u \in Threads : \A i \in Uses : temp[u][i] # 0 => temp[u][i] \in Blocks
  BY <1>3 DEF MemoryType, Temporaries, Uses
<1>7. \A u \in Threads : \A i \in Uses : temp[u][i] # 0 => heap'[temp[u][i]] = heap[temp[u][i]]
  BY <1>1, <1>5, <1>6
<1>8. \A d \in Buffers : IF buffers'[d].block = 0 THEN buffers'[d].capacity = 0
                         ELSE heap'[buffers'[d].block] = buffers'[d].capacity
  <2>1. \A d \in Buffers : buffers[d].block \in Blocks \cup {0}
    BY <1>3 DEF MemoryType, BufferType
  <2> QED BY <1>1, <1>2, <1>5, <2>1 DEF MemInv
<1>9. \A u, v \in Threads : \A i, j \in Uses :
        (u # v \/ i # j) /\ temp'[u][i] # 0 => temp'[u][i] # temp'[v][j]
  <2> SUFFICES ASSUME NEW u \in Threads, NEW v \in Threads, NEW i \in Uses, NEW j \in Uses,
                      u # v \/ i # j, temp'[u][i] # 0
               PROVE  temp'[u][i] # temp'[v][j]
    OBVIOUS
  <2>1. (temp[u][i] # 0 => temp[u][i] # temp[v][j])
    BY DEF MemInv
  <2>2. CASE u = t /\ i = use
    <3>1. temp'[v][j] = temp[v][j]
      BY <1>4, <2>2
    <3> QED BY <1>1, <1>4, <2>2, <3>1
  <2>3. CASE v = t /\ j = use
    <3>1. temp'[u][i] = temp[u][i]
      BY <1>4, <2>3
    <3> QED BY <1>1, <1>4, <2>3, <3>1
  <2>4. CASE (u # t \/ i # use) /\ (v # t \/ j # use)
    BY <1>4, <2>1, <2>4
  <2> QED BY <2>2, <2>3, <2>4
<1>10. \A d \in Buffers : \A u \in Threads : \A i \in Uses :
         temp'[u][i] # 0 => temp'[u][i] # buffers'[d].block
  <2> SUFFICES ASSUME NEW d \in Buffers, NEW u \in Threads, NEW i \in Uses, temp'[u][i] # 0
               PROVE  temp'[u][i] # buffers[d].block
    BY <1>2
  <2>1. temp[u][i] # 0 => temp[u][i] # buffers[d].block
    BY DEF MemInv
  <2> QED BY <1>1, <1>4, <2>1
<1>11. \A a \in Blocks : heap'[a] # 0 <=> \/ \E d \in Buffers : buffers'[d].block = a
                                          \/ \E u \in Threads : \E i \in Uses : temp'[u][i] = a
  <2> SUFFICES ASSUME NEW a \in Blocks
               PROVE  heap'[a] # 0 <=> \/ \E d \in Buffers : buffers[d].block = a
                                       \/ \E u \in Threads : \E i \in Uses : temp'[u][i] = a
    BY <1>2
  <2>1. heap[a] # 0 <=> \/ \E d \in Buffers : buffers[d].block = a
                        \/ \E u \in Threads : \E i \in Uses : temp[u][i] = a
    BY DEF MemInv
  <2>2. CASE a = new
    BY <1>4, <1>5, <2>2
  <2>3. CASE a # new
    <3>1. heap'[a] = heap[a]
      BY <1>5, <2>3
    <3>2. ASSUME NEW u \in Threads, NEW i \in Uses
          PROVE  temp'[u][i] = a <=> temp[u][i] = a
      <4>1. a # 0
        BY <1>3
      <4> QED BY <1>4, <2>3, <4>1
    <3> QED BY <2>1, <3>1, <3>2
  <2> QED BY <2>2, <2>3
<1>12. MemInv'
  <2>1. \A b, d \in Buffers : b # d /\ buffers'[b].block # 0 => buffers'[b].block # buffers'[d].block
    BY <1>2 DEF MemInv
  <2> QED BY <1>5, <1>8, <1>9, <1>10, <1>11, <2>1 DEF MemInv
<1> QED BY <1>1, <1>4, <1>5, <1>7, <1>12

\* What a call took is given back, if it took anything.
LEMMA ReleaseKeeps ==
  ASSUME MemInv, NEW t \in Threads, NEW use \in Uses, Release(t, use)
  PROVE  /\ MemInv' /\ temp'[t][use] = 0
         /\ \A i \in Uses : i # use => temp'[t][i] = temp[t][i]
         /\ \A u \in Threads : u # t => temp'[u] = temp[u]
         /\ \A u \in Threads : \A i \in Uses :
              temp'[u][i] # 0 => heap'[temp'[u][i]] = heap[temp'[u][i]]
<1> DEFINE old == temp[t][use]
<1>1. /\ heap' = IF old = 0 THEN heap ELSE [heap EXCEPT ![old] = 0]
      /\ temp' = [temp EXCEPT ![t][use] = 0]
      /\ buffers' = buffers
  BY DEF Release
<1>2. MemoryType /\ 0 \notin Blocks /\ old \in Blocks \cup {0}
  BY BridgeAssumption DEF MemInv, MemoryType, Temporaries, Uses
<1> HIDE DEF old
<1>3. /\ temp'[t][use] = 0
      /\ \A i \in Uses : i # use => temp'[t][i] = temp[t][i]
      /\ \A u \in Threads : u # t => temp'[u] = temp[u]
      /\ temp' \in [Threads -> Temporaries]
  BY <1>1, <1>2 DEF MemoryType, Temporaries, Uses
<1>4. /\ MemoryType' /\ \A a \in Blocks : a # old => heap'[a] = heap[a]
      /\ old # 0 => heap'[old] = 0
  BY <1>1, <1>2, <1>3 DEF MemoryType
<1>5. \A u \in Threads : \A i \in Uses :
        temp'[u][i] # 0 => /\ temp'[u][i] \in Blocks /\ temp'[u][i] # old
                           /\ temp'[u][i] = temp[u][i]
  <2> SUFFICES ASSUME NEW u \in Threads, NEW i \in Uses, temp'[u][i] # 0
               PROVE  /\ temp'[u][i] \in Blocks /\ temp'[u][i] # old
                      /\ temp'[u][i] = temp[u][i]
    OBVIOUS
  <2>1. (u # t \/ i # use) /\ temp'[u][i] = temp[u][i]
    BY <1>3
  <2>2. temp[u][i] # 0 => temp[u][i] # temp[t][use]
    BY <2>1 DEF MemInv
  <2>3. temp'[u][i] \in Blocks \cup {0}
    BY <1>3 DEF Temporaries, Uses
  <2> QED BY <2>1, <2>2, <2>3 DEF old
<1>6. \A d \in Buffers : buffers[d].block # 0 => buffers[d].block \in Blocks /\ buffers[d].block # old
  BY <1>2 DEF MemInv, MemoryType, BufferType, old
<1>7. \A d \in Buffers : IF buffers'[d].block = 0 THEN buffers'[d].capacity = 0
                         ELSE heap'[buffers'[d].block] = buffers'[d].capacity
  BY <1>1, <1>4, <1>6 DEF MemInv
<1>8. \A u, v \in Threads : \A i, j \in Uses :
        (u # v \/ i # j) /\ temp'[u][i] # 0 => temp'[u][i] # temp'[v][j]
  <2> SUFFICES ASSUME NEW u \in Threads, NEW v \in Threads, NEW i \in Uses, NEW j \in Uses,
                      u # v \/ i # j, temp'[u][i] # 0
               PROVE  temp'[u][i] # temp'[v][j]
    OBVIOUS
  <2>1. temp'[u][i] = temp[u][i] /\ temp[u][i] # temp[v][j]
    BY <1>5 DEF MemInv
  <2>2. temp'[v][j] = 0 \/ temp'[v][j] = temp[v][j]
    BY <1>5
  <2> QED BY <2>1, <2>2
<1>9. \A d \in Buffers : \A u \in Threads : \A i \in Uses :
        temp'[u][i] # 0 => temp'[u][i] # buffers'[d].block
  BY <1>1, <1>5 DEF MemInv
<1>10. \A a \in Blocks : heap'[a] # 0 <=> \/ \E d \in Buffers : buffers'[d].block = a
                                          \/ \E u \in Threads : \E i \in Uses : temp'[u][i] = a
  <2> SUFFICES ASSUME NEW a \in Blocks
               PROVE  heap'[a] # 0 <=> \/ \E d \in Buffers : buffers[d].block = a
                                       \/ \E u \in Threads : \E i \in Uses : temp'[u][i] = a
    BY <1>1
  <2>1. heap[a] # 0 <=> \/ \E d \in Buffers : buffers[d].block = a
                        \/ \E u \in Threads : \E i \in Uses : temp[u][i] = a
    BY DEF MemInv
  <2>2. a # 0
    BY <1>2
  <2>3. CASE a = old
    <3>1. heap'[a] = 0
      BY <1>4, <2>2, <2>3
    <3>2. \A d \in Buffers : buffers[d].block # a
      BY <1>6, <2>2, <2>3
    <3>3. \A u \in Threads : \A i \in Uses : temp'[u][i] # a
      BY <1>5, <2>2, <2>3
    <3> QED BY <3>1, <3>2, <3>3
  <2>4. CASE a # old
    <3>1. heap'[a] = heap[a]
      BY <1>4, <2>4
    <3>2. ASSUME NEW u \in Threads, NEW i \in Uses
          PROVE  temp'[u][i] = a <=> temp[u][i] = a
      BY <1>3, <2>2, <2>4 DEF old
    <3> QED BY <2>1, <3>1, <3>2
  <2> QED BY <2>3, <2>4
<1>11. MemInv'
  <2>1. \A b, d \in Buffers : b # d /\ buffers'[b].block # 0 => buffers'[b].block # buffers'[d].block
    BY <1>1 DEF MemInv
  <2> QED BY <1>4, <1>7, <1>8, <1>9, <1>10, <2>1 DEF MemInv
<1> QED BY <1>3, <1>4, <1>5, <1>11

\* The destructor gives back what is kept.
LEMMA FreeKept ==
  ASSUME MemInv, temp' = temp, heap' = [a \in Blocks |-> IF a \in Kept THEN 0 ELSE heap[a]],
         buffers' = [b \in Buffers |-> NoBuffer]
  PROVE  MemInv'
<1>1. MemoryType /\ 0 \notin Blocks
  BY BridgeAssumption DEF MemInv
<1>2. MemoryType' /\ \A b \in Buffers : buffers'[b].block = 0 /\ buffers'[b].capacity = 0
  BY <1>1 DEF MemoryType, BufferType, NoBuffer
<1>3. \A a \in Blocks : a \in Kept <=> \E b \in Buffers : buffers[b].block = a
  BY <1>1 DEF Kept
<1>4. \A a \in Blocks : heap'[a] # 0 <=> \/ \E d \in Buffers : buffers'[d].block = a
                                         \/ \E u \in Threads : \E i \in Uses : temp[u][i] = a
  <2> SUFFICES ASSUME NEW a \in Blocks
               PROVE  heap'[a] # 0 <=> \E u \in Threads : \E i \in Uses : temp[u][i] = a
    BY <1>1, <1>2
  <2>1. heap[a] # 0 <=> \/ \E d \in Buffers : buffers[d].block = a
                        \/ \E u \in Threads : \E i \in Uses : temp[u][i] = a
    BY DEF MemInv
  <2>2. CASE a \in Kept
    <3>1. heap'[a] = 0 /\ a # 0
      BY <1>1, <2>2
    <3>2. \A u \in Threads : \A i \in Uses : temp[u][i] # a
      BY <1>3, <2>2, <3>1 DEF MemInv
    <3> QED BY <3>1, <3>2
  <2>3. CASE a \notin Kept
    <3>1. heap'[a] = heap[a]
      BY <2>3
    <3> QED BY <1>3, <2>1, <2>3, <3>1
  <2> QED BY <2>2, <2>3
<1>5. \A b \in Buffers : \A t \in Threads : \A i \in Uses :
        temp[t][i] # 0 => temp[t][i] # buffers'[b].block
  BY <1>2
<1>6. \A t, u \in Threads : \A i, j \in Uses :
        (t # u \/ i # j) /\ temp[t][i] # 0 => temp[t][i] # temp[u][j]
  BY DEF MemInv
<1> QED BY <1>2, <1>4, <1>5, <1>6 DEF MemInv

(***************************************************************************)
(* What a step leaves alone.                                               *)
(***************************************************************************)
Fitted == {"rect", "strassen", "classical", "batch", "product"}

LEMMA FitKept ==
  ASSUME NEW u, FitInv(u), scenario' = scenario, pc'[u] = pc[u], frame'[u] = frame[u],
         route'[u] = route[u], temp'[u] = temp[u], buffers' = buffers, executor' = executor,
         small' = small, temp[u].route # 0 => heap'[temp[u].route] = heap[temp[u].route]
  PROVE  FitInv(u)'
<1>1. build' = build
  BY DEF build
<1>2. Needed(u)' = Needed(u)
  <2>1. ContextExecutor(u)' = ContextExecutor(u) /\ ContextThreads(u)' = ContextThreads(u)
    BY <1>1 DEF ContextExecutor, ContextThreads, IsSmall
  <2> QED BY <1>1, <2>1 DEF Needed
<1>3. WorkspaceFits(u)' = WorkspaceFits(u)
  BY <1>1 DEF WorkspaceFits
<1>4. StorageFits(u) => StorageFits(u)'
  BY <1>1, <1>2 DEF StorageFits
<1> QED BY <1>1, <1>3, <1>4 DEF FitInv

Beside(t) ==
  \A u \in Threads : u # t =>
    /\ pc'[u] = pc[u] /\ call'[u] = call[u] /\ frame'[u] = frame[u] /\ route'[u] = route[u]

LEMMA MemoryStep ==
  ASSUME IInv, MInv, NEW t \in Threads, Beside(t), scenario' = scenario, MemInv',
         \A u \in Threads : u # t => /\ temp'[u] = temp[u]
                                     /\ temp[u].route # 0 =>
                                          heap'[temp[u].route] = heap[temp[u].route],
         pc[t] \in Locked \/ UNCHANGED <<executor, small, buffers>>,
         HoldInv(t)', FitInv(t)'
  PROVE  MInv'
<1>1. ASSUME NEW u \in Threads, u # t
      PROVE  HoldInv(u)' /\ FitInv(u)'
  <2>1. /\ scenario' = scenario /\ pc'[u] = pc[u] /\ call'[u] = call[u] /\ frame'[u] = frame[u]
        /\ route'[u] = route[u] /\ temp'[u] = temp[u]
        /\ temp[u].route # 0 => heap'[temp[u].route] = heap[temp[u].route]
    BY <1>1 DEF Beside
  <2>2. HoldInv(u) /\ FitInv(u)
    BY DEF MInv
  <2>3. HoldInv(u)'
    BY <2>1, <2>2 DEF HoldInv
  <2>4. CASE pc[t] \in Locked
    <3>1. pc'[u] \notin Locked
      BY <1>1, <2>1, <2>4, LocalParts DEF MutexInv
    <3> QED BY <2>3, <3>1 DEF FitInv, Locked, Tried
  <2>5. CASE UNCHANGED <<executor, small, buffers>>
    BY <2>1, <2>2, <2>3, <2>5, FitKept
  <2> QED BY <2>4, <2>5
<1> QED BY <1>1 DEF MInv

LEMMA QuietStep ==
  ASSUME IInv, MInv, NEW t \in Threads, Beside(t), UNCHANGED <<memory, temp, scenario>>,
         pc[t] \in Locked \/ UNCHANGED <<executor, small>>,
         HoldInv(t)', FitInv(t)'
  PROVE  MInv'
<1>1. MemInv' /\ buffers' = buffers /\ heap' = heap
  BY DEF MInv, MemInv, MemoryType, memory
<1> QED BY <1>1, MemoryStep

LEMMA MemoryParts ==
  ASSUME MInv, NEW t \in Threads
  PROVE  /\ MemInv /\ HoldInv(t) /\ FitInv(t)
         /\ temp[t].route \in Blocks \cup {0} /\ temp[t].product \in Blocks \cup {0}
BY DEF MInv, MemInv, MemoryType, Temporaries

(***************************************************************************)
(* Outside the mutex.                                                      *)
(***************************************************************************)
\* Steps that are not about memory, of a thread that has none.
LEMMA WithoutMemory ==
  ASSUME IInv, MInv, NEW t \in Threads, UNCHANGED <<memory, temp, executor, small, scenario>>,
         Beside(t), pc[t] \in {"idle", "ready", "initialize", "query", "syrk", "returned"},
         pc'[t] \in {"idle", "ready", "initialize", "query", "syrk", "gemm", "lock", "allocate",
                     "returned"},
         pc'[t] \in {"gemm", "lock", "allocate"} /\ call'[t].kind = "syrk" => call'[t].n > 0
  PROVE  MInv'
<1>1. temp[t].route = 0 /\ temp[t].product = 0
  BY MemoryParts DEF HoldInv, Locked, Tried
<1>2. HoldInv(t)'
  BY <1>1 DEF HoldInv, Locked, Tried
<1>3. FitInv(t)'
  BY DEF FitInv
<1> QED BY <1>2, <1>3, QuietStep

LEMMA EntryKeeps ==
  ASSUME IInv, MInv, NEW t \in Threads,
         \/ Call(t) \/ BeginOnce(t) \/ initialize(t) \/ ready(t) \/ framework_blas_threads(t)
         \/ cblas_syrk(t) \/ Return(t)
  PROVE  MInv'
<1> USE LocalParts DEF TypeInv, Goto
<1>1. UNCHANGED <<memory, temp, executor, small, scenario>>
  BY DEF Call, BeginOnce, initialize, ready, framework_blas_threads, cblas_syrk, Return, process,
         pools, locals
<1>2. Beside(t)
  BY DEF Call, BeginOnce, initialize, ready, framework_blas_threads, cblas_syrk, Return, locals,
         Beside
<1>3. CASE Call(t)
  BY <1>1, <1>2, <1>3, WithoutMemory DEF Call
<1>4. CASE BeginOnce(t) \/ initialize(t) \/ ready(t)
  <2>1. pc[t] \in {"ready", "initialize"} /\ call' = call
    BY <1>4 DEF BeginOnce, initialize, ready, locals
  <2>2. call[t].kind \in {"gemm", "syrk", "query"}
    BY <2>1, CallFacts DEF CallInv
  <2>3. /\ pc'[t] \in {"ready", "initialize", "gemm", "syrk", "query"}
        /\ pc'[t] = "gemm" => call[t].kind = "gemm"
    BY <1>4, <2>2 DEF BeginOnce, initialize, ready
  <2> QED BY <1>1, <1>2, <2>1, <2>3, WithoutMemory
<1>5. CASE framework_blas_threads(t)
  BY <1>1, <1>2, <1>5, WithoutMemory DEF framework_blas_threads
<1>6. CASE Return(t)
  BY <1>1, <1>2, <1>6, WithoutMemory DEF Return
<1>7. CASE cblas_syrk(t)
  <2> DEFINE q == call[t]
  <2>1. pc[t] = "syrk" /\ call' = call
    BY <1>7 DEF cblas_syrk
  <2>2. \/ pc'[t] \in {"syrk", "returned"}
        \/ pc'[t] \in {"lock", "allocate"} /\ ValidSyrk(q) /\ q.n # 0
    BY <1>7 DEF cblas_syrk
  <2>3. q.n \in Int
    BY <2>1, CallFacts DEF CallInv, Arguments
  <2>4. pc'[t] \in {"lock", "allocate"} => q.n > 0
    BY <2>2, <2>3 DEF ValidSyrk
  <2> QED BY <1>1, <1>2, <2>1, <2>2, <2>4, WithoutMemory
<1> QED BY <1>3, <1>4, <1>5, <1>6, <1>7

\* gemm_ up to the mutex, in a call of its own or with the product of a SYRK.
LEMMA GemmEntryKeeps ==
  ASSUME IInv, MInv, NEW t \in Threads, VendorGemm(t) \/ GemmChecks(t) \/ Lock(t)
  PROVE  MInv'
<1> USE LocalParts DEF TypeInv, Goto
<1>1. UNCHANGED <<memory, temp, executor, small, scenario, call, route>>
  BY DEF VendorGemm, GemmChecks, Lock, process, pools, locals
<1>2. Beside(t)
  BY DEF VendorGemm, GemmChecks, Lock, locals, Beside
<1>3. temp[t].route = 0 /\ pc[t] \in {"gemm", "lock"}
  BY MemoryParts DEF HoldInv, VendorGemm, GemmChecks, Lock
<1>4. /\ temp[t].product # 0 => call[t].kind = "syrk"
      /\ call[t].kind = "syrk" => call[t].n > 0
      /\ pc[t] = "lock" /\ temp[t].product # 0 => frame[t].target = "product"
  BY <1>3, MemoryParts DEF HoldInv
<1>5. CASE VendorGemm(t)
  <2>1. pc'[t] = IF call[t].kind = "syrk" THEN "update" ELSE "returned"
    BY <1>5 DEF VendorGemm, After
  <2>2. HoldInv(t)' /\ FitInv(t)'
    BY <1>1, <1>3, <1>4, <2>1 DEF HoldInv, FitInv, Locked, Tried
  <2> QED BY <1>1, <1>2, <2>2, QuietStep
<1>6. CASE GemmChecks(t)
  <2> DEFINE f == GemmFrame(GemmArguments(t), Target(t))
  <2>1. \/ pc'[t] = "gemm" \/ pc'[t] = IF call[t].kind = "syrk" THEN "update" ELSE "returned"
        \/ pc'[t] = "lock" /\ frame'[t] = f
    BY <1>6 DEF GemmChecks, After
  <2>2. call[t].kind = "syrk" => f.target = "product"
    BY DEF GemmFrame, Target
  <2> HIDE DEF f
  <2>3. HoldInv(t)' /\ FitInv(t)'
    BY <1>1, <1>3, <1>4, <2>1, <2>2 DEF HoldInv, FitInv, Locked, Tried
  <2> QED BY <1>1, <1>2, <2>3, QuietStep
<1>7. CASE Lock(t)
  <2>1. pc[t] = "lock" /\ pc'[t] = "locked" /\ frame' = frame
    BY <1>7 DEF Lock, locals
  <2>2. HoldInv(t)' /\ FitInv(t)'
    BY <1>1, <1>3, <1>4, <2>1 DEF HoldInv, FitInv, Locked, Tried
  <2> QED BY <1>1, <1>2, <2>2, QuietStep
<1> QED BY <1>5, <1>6, <1>7

LEMMA SyrkMemoryKeeps ==
  ASSUME IInv, MInv, NEW t \in Threads, SyrkProduct(t) \/ SyrkUpdate(t)
  PROVE  MInv'
<1> USE LocalParts DEF TypeInv, Goto
<1>1. UNCHANGED <<executor, small, scenario, call, frame, route>>
  BY DEF SyrkProduct, SyrkUpdate, process, pools
<1>2. Beside(t)
  BY <1>1 DEF SyrkProduct, SyrkUpdate, Beside
<1>3. temp[t].route = 0 /\ pc[t] \in {"allocate", "update"} /\ call[t].kind = "syrk"
  BY MemoryParts DEF HoldInv, SyrkProduct, SyrkUpdate, CallInv
<1>4. CASE SyrkProduct(t)
  <2> DEFINE n == call[t].n
             size == n * n
  <2>1. pc[t] = "allocate" /\ temp[t].product = 0 /\ n > 0
    BY <1>3, <1>4, MemoryParts DEF SyrkProduct, HoldInv, Locked, Tried
  <2>2. n \in Int
    <3>1. call[t] \in Scenarios[scenario].calls
      BY <2>1 DEF CallInv
    <3> QED BY <3>1, CallFacts DEF Arguments
  <2>3. \/ UNCHANGED <<memory, temp>> /\ pc'[t] \in {"update", "allocate"}
        \/ Allocate(t, "product", size) /\ pc'[t] = "gemm"
    BY <1>4 DEF SyrkProduct
  <2>4. CASE UNCHANGED <<memory, temp>> /\ pc'[t] \in {"update", "allocate"}
    <3>1. HoldInv(t)' /\ FitInv(t)'
      BY <1>1, <1>3, <2>1, <2>4 DEF HoldInv, FitInv, Locked, Tried
    <3> QED BY <1>1, <1>2, <2>4, <3>1, QuietStep
  <2>5. CASE Allocate(t, "product", size) /\ pc'[t] = "gemm"
    <3>1. size \in Nat \ {0}
      <4> HIDE DEF n
      <4>1. n \in Nat \ {0}
        BY <2>1, <2>2
      <4> QED BY <4>1
    <3>2. "product" \in Uses /\ "route" \in Uses /\ "route" # "product"
      BY DEF Uses
    <3> HIDE DEF size
    <3>3. MemInv
      BY MemoryParts
    <3>4. /\ MemInv' /\ temp'[t].route = temp[t].route
          /\ \A u \in Threads : u # t => temp'[u] = temp[u]
          /\ \A u \in Threads : \A i \in Uses :
               temp[u][i] # 0 => heap'[temp[u][i]] = heap[temp[u][i]]
      BY <2>1, <2>5, <3>1, <3>2, <3>3, AllocateKeeps
    <3>5. HoldInv(t)' /\ FitInv(t)'
      BY <1>1, <1>3, <2>1, <2>5, <3>4 DEF HoldInv, FitInv, Locked, Tried
    <3>6. UNCHANGED <<executor, small, buffers>>
      BY <1>1, <2>5 DEF Allocate
    <3> QED BY <1>1, <1>2, <3>2, <3>4, <3>5, <3>6, MemoryStep
  <2> QED BY <2>3, <2>4, <2>5
<1>5. CASE SyrkUpdate(t)
  <2>1. pc[t] = "update" /\ pc'[t] = "returned" /\ Release(t, "product")
    BY <1>5 DEF SyrkUpdate
  <2>2. "product" \in Uses /\ "route" \in Uses /\ "route" # "product"
    BY DEF Uses
  <2>3. /\ MemInv' /\ temp'[t].product = 0 /\ temp'[t].route = temp[t].route
        /\ \A u \in Threads : u # t => temp'[u] = temp[u]
        /\ \A u \in Threads : \A i \in Uses :
             temp'[u][i] # 0 => heap'[temp'[u][i]] = heap[temp'[u][i]]
    BY <2>1, <2>2, MemoryParts, ReleaseKeeps
  <2>4. HoldInv(t)' /\ FitInv(t)'
    BY <1>1, <1>3, <2>1, <2>3 DEF HoldInv, FitInv, Locked, Tried
  <2>5. UNCHANGED <<executor, small, buffers>>
    BY <1>1, <2>1 DEF Release
  <2>6. \A u \in Threads : u # t => /\ temp'[u] = temp[u]
                                    /\ temp[u].route # 0 =>
                                         heap'[temp[u].route] = heap[temp[u].route]
    <3> SUFFICES ASSUME NEW u \in Threads, u # t, temp[u].route # 0
                 PROVE  heap'[temp[u].route] = heap[temp[u].route]
      BY <2>3
    <3>1. temp'[u]["route"] = temp[u].route
      BY <2>3
    <3> QED BY <2>2, <2>3, <3>1
  <2> QED BY <1>1, <1>2, <2>3, <2>4, <2>5, <2>6, MemoryStep
<1> QED BY <1>4, <1>5

(***************************************************************************)
(* The process.                                                            *)
(***************************************************************************)
LEMMA ForkMemory ==
  ASSUME IInv, MInv, NEW t \in Threads, Fork(t)
  PROVE  MInv'
<1>1. /\ pc[t] = "idle" /\ \A u \in Threads : pc'[u] \in {"idle", "gone"} /\ (pc'[u] = "idle" => u = t)
      /\ UNCHANGED <<memory, temp>>
  BY DEF Fork, locals
<1>2. MemInv'
  BY <1>1 DEF MInv, MemInv, MemoryType, memory
<1>3. ASSUME NEW u \in Threads
      PROVE  HoldInv(u)' /\ FitInv(u)'
  <2>1. pc'[u] = "idle" => temp'[u].route = 0 /\ temp'[u].product = 0
    BY <1>1, MemoryParts DEF HoldInv, Locked, Tried
  <2> QED BY <1>1, <2>1 DEF HoldInv, FitInv, Locked, Tried
<1> QED BY <1>2, <1>3 DEF MInv

LEMMA DestructorMemory ==
  ASSUME IInv, MInv, release_resources
  PROVE  MInv'
<1>1. /\ \A u \in Threads : pc[u] \in {"idle", "gone"}
      /\ UNCHANGED <<pc, temp>>
  BY DEF release_resources, locals
<1>2. MemInv'
  <2>1. CASE UNCHANGED memory
    BY <1>1, <2>1 DEF MInv, MemInv, MemoryType, memory
  <2>2. CASE /\ heap' = [b \in Blocks |-> IF b \in Kept THEN 0 ELSE heap[b]]
             /\ buffers' = [b \in Buffers |-> NoBuffer]
    BY <1>1, <2>2, FreeKept DEF MInv
  <2> QED BY <2>1, <2>2 DEF release_resources
<1>3. ASSUME NEW u \in Threads
      PROVE  HoldInv(u)' /\ FitInv(u)'
  <2>1. pc'[u] = "idle" => temp'[u].route = 0 /\ temp'[u].product = 0
    BY <1>1, MemoryParts DEF HoldInv, Locked, Tried
  <2> QED BY <1>1, <2>1 DEF HoldInv, FitInv, Locked, Tried
<1> QED BY <1>2, <1>3 DEF MInv

(***************************************************************************)
(* Under the mutex.                                                        *)
(***************************************************************************)
\* What a thread in the locked region holds besides the storage of its route.
LEMMA HoldLocked ==
  ASSUME IInv, MInv, NEW t \in Threads, pc[t] \in Locked, pc'[t] \in Locked,
         UNCHANGED <<call, frame>>, temp'[t].product = temp[t].product,
         temp'[t].route # 0 => pc'[t] \in {"batch", "product"}
  PROVE  HoldInv(t)'
<1>1. HoldInv(t)
  BY DEF MInv
<1> QED BY <1>1 DEF HoldInv, Locked, Tried

LEMMA LockedQuietKeeps ==
  ASSUME IInv, MInv, NEW t \in Threads,
         camblas_ready(t) \/ prepare_output_touch(t) \/ gemm_context(t)
  PROVE  MInv'
<1> USE LocalParts DEF TypeInv, Goto
<1>1. UNCHANGED <<memory, temp, scenario, call, frame, route>> /\ Beside(t)
  BY DEF camblas_ready, prepare_output_touch, Prepared, gemm_context, process, pools, locals, Beside
<1>2. pc[t] \in {"locked", "prepare", "context"}
      /\ pc'[t] \in {"locked", "prepare", "context", "symmetric", "shared"}
  BY DEF camblas_ready, prepare_output_touch, Prepared, gemm_context
<1>3. HoldInv(t)'
  BY <1>1, <1>2, HoldLocked, MemoryParts DEF HoldInv, Locked, Tried
<1>4. FitInv(t)'
  BY <1>2 DEF FitInv
<1> QED BY <1>1, <1>2, <1>3, <1>4, QuietStep DEF Locked, Tried

LEMMA BatchMemory ==
  ASSUME IInv, MInv, NEW t \in Threads, Batch(t)
  PROVE  MInv'
<1> USE LocalParts DEF TypeInv, Goto
<1>1. /\ UNCHANGED <<memory, temp, scenario, executor, small, call, frame, route>> /\ Beside(t)
      /\ pc[t] = "batch" /\ pc'[t] \in {"batch", "product"}
  BY DEF Batch, locals, Beside
<1>2. HoldInv(t)'
  BY <1>1, HoldLocked, MemoryParts DEF HoldInv, Locked, Tried
<1>3. FitInv(t)'
  <2>1. build' = build /\ heap' = heap /\ buffers' = buffers
    BY <1>1 DEF build, memory
  <2>2. Needed(t)' = Needed(t)
    <3>1. ContextExecutor(t)' = ContextExecutor(t) /\ ContextThreads(t)' = ContextThreads(t)
      BY <1>1, <2>1 DEF ContextExecutor, ContextThreads, IsSmall
    <3> QED BY <1>1, <2>1, <3>1 DEF Needed
  <2>3. WorkspaceFits(t)' = WorkspaceFits(t) /\ StorageFits(t)' = StorageFits(t)
    BY <1>1, <2>1, <2>2 DEF WorkspaceFits, StorageFits
  <2> QED BY <1>1, <2>3, MemoryParts DEF FitInv
<1> QED BY <1>1, <1>2, <1>3, QuietStep DEF Locked, Tried

\* A route that declines leaves the workspace as it was ensured.
LEMMA ProductMemory ==
  ASSUME IInv, MInv, NEW t \in Threads, product(t)
  PROVE  MInv'
<1> USE LocalParts DEF TypeInv, Goto
<1>1. /\ UNCHANGED <<scenario, executor, small, call, frame>> /\ Beside(t) /\ pc[t] = "product"
      /\ build' = build
  BY DEF product, ProductDone, pools, Beside, build
<1>2. CASE UNCHANGED <<memory, temp, route, pc>>
  <2>1. HoldInv(t)' /\ FitInv(t)'
    <3>1. HoldInv(t)'
      BY <1>1, <1>2, HoldLocked, MemoryParts DEF HoldInv, Locked, Tried
    <3>2. FitInv(t)'
      BY <1>1, <1>2, FitKept, MemoryParts DEF memory
    <3> QED BY <3>1, <3>2
  <2> QED BY <1>1, <1>2, <2>1, QuietStep DEF Locked, Tried
<1>3. CASE Release(t, "route") /\ ProductDone(t)
  <2>1. "product" \in Uses /\ "route" \in Uses /\ "route" # "product"
    BY DEF Uses
  <2>2. /\ MemInv' /\ temp'[t].route = 0 /\ temp'[t].product = temp[t].product
        /\ \A u \in Threads : u # t => temp'[u] = temp[u]
        /\ \A u \in Threads : \A i \in Uses :
             temp'[u][i] # 0 => heap'[temp'[u][i]] = heap[temp'[u][i]]
        /\ buffers' = buffers
    <3>1. MemInv /\ Release(t, "route")
      BY <1>3, MemoryParts
    <3>2. buffers' = buffers
      BY <3>1 DEF Release
    <3> QED BY <2>1, <3>1, <3>2, ReleaseKeeps
  <2>3. \/ pc'[t] \in {"leave", "dot"}
        \/ /\ MayDecline(t)
           /\ pc'[t] = IF IsStrassen(build, frame[t].x) THEN "strassen" ELSE "classical"
    BY <1>3 DEF ProductDone, Last
  <2>4. HoldInv(t)'
    BY <1>1, <2>2, <2>3, HoldLocked DEF Locked, Tried
  <2>5. FitInv(t)'
    <3>1. CASE pc'[t] \in {"leave", "dot"}
      BY <3>1 DEF FitInv
    <3>2. CASE /\ MayDecline(t)
               /\ pc'[t] = IF IsStrassen(build, frame[t].x) THEN "strassen" ELSE "classical"
      <4>1. WorkspaceFits(t)
        BY <1>1, <3>2, MemoryParts DEF FitInv, MayDecline, AfterWorkspace
      <4>2. WorkspaceFits(t)'
        BY <1>1, <2>2, <4>1 DEF WorkspaceFits
      <4> QED BY <1>1, <3>2, <4>2 DEF FitInv
    <3> QED BY <2>3, <3>1, <3>2
  <2>6. \A u \in Threads : u # t => /\ temp'[u] = temp[u]
                                    /\ temp[u].route # 0 =>
                                         heap'[temp[u].route] = heap[temp[u].route]
    <3> SUFFICES ASSUME NEW u \in Threads, u # t, temp[u].route # 0
                 PROVE  heap'[temp[u].route] = heap[temp[u].route]
      BY <2>2
    <3>1. temp'[u]["route"] = temp[u].route
      BY <2>2
    <3> QED BY <2>1, <2>2, <3>1
  <2> QED BY <1>1, <2>2, <2>4, <2>5, <2>6, MemoryStep DEF Locked, Tried
<1> QED BY <1>2, <1>3 DEF product

LEMMA LeaveMemory ==
  ASSUME IInv, MInv, NEW t \in Threads, leave(t)
  PROVE  MInv'
<1> USE LocalParts DEF TypeInv, Goto
<1>1. /\ UNCHANGED <<memory, temp, scenario, call>> /\ Beside(t) /\ pc[t] = "leave"
      /\ pc'[t] = AfterRoute(t)
  BY DEF leave, Leaving, process, Beside, AfterRoute
<1>2. /\ temp[t].route = 0
      /\ temp[t].product # 0 => call[t].kind = "syrk" /\ frame[t].target = "product"
      /\ call[t].kind = "syrk" => call[t].n > 0
  BY <1>1, MemoryParts DEF HoldInv, Locked
<1>3. HoldInv(t)' /\ FitInv(t)'
  BY <1>1, <1>2 DEF HoldInv, FitInv, AfterRoute, Locked, Tried
<1> QED BY <1>1, <1>3, QuietStep DEF Locked

(***************************************************************************)
(* Sizes.                                                                  *)
(***************************************************************************)
LEMMA FrameSizes ==
  ASSUME IInv, NEW t \in Threads, pc[t] \in Locked
  PROVE  /\ frame[t].x.m \in Int /\ frame[t].x.n \in Int /\ frame[t].x.k \in Int
         /\ frame[t].x.fp64 \in BOOLEAN
<1> DEFINE Sized(x) == x.m \in Int /\ x.n \in Int /\ x.k \in Int /\ x.fp64 \in BOOLEAN
<1>1. ASSUME NEW q \in Arguments
      PROVE  Sized(ColumnMajor(q)) /\ Sized(SyrkFrame(q).x)
  <2> DEFINE plain == [q EXCEPT !.ta = trans(q.ta), !.tb = trans(q.tb)]
             turned == [plain EXCEPT !.ta = plain.tb, !.tb = plain.ta, !.m = q.n, !.n = q.m,
                                     !.a = q.b, !.b = q.a, !.lda = q.ldb, !.ldb = q.lda]
             at == IF (q.order = "column") = (q.ta = "N") THEN "N" ELSE "T"
             syrk == [q EXCEPT !.m = q.n, !.ta = at, !.tb = IF at = "N" THEN "T" ELSE "N",
                               !.b = q.a, !.ldb = q.lda]
  <2>1. Sized(plain)
    BY DEF Arguments
  <2>2. Sized(turned)
    BY DEF Arguments
  <2>3. Sized(syrk)
    BY DEF Arguments
  <2>4. SyrkFrame(q).x = syrk
    BY DEF SyrkFrame
  <2>5. ColumnMajor(q) \in {plain, turned}
    BY DEF ColumnMajor
  <2> HIDE DEF plain, turned, syrk, Sized
  <2> QED BY <2>1, <2>2, <2>3, <2>4, <2>5
<1>2. ASSUME NEW q \in Arguments, NEW target
      PROVE  GemmFrame(q, target).x = ColumnMajor(q)
  BY DEF GemmFrame
<1>3. /\ call[t] \in Arguments /\ call[t].kind \in {"gemm", "syrk"}
      /\ ProductCall(call[t]) \in Arguments
  BY LocalParts, FrameFacts, ProductCallFacts
<1>4. \/ frame[t] = GemmFrame(call[t], "c") \/ frame[t] = SyrkFrame(call[t])
      \/ frame[t] = GemmFrame(ProductCall(call[t]), "product")
  BY <1>3, LocalParts DEF FrameInv
<1> HIDE DEF Sized
<1>5. Sized(frame[t].x)
  BY <1>1, <1>2, <1>3, <1>4
<1> QED BY <1>5 DEF Sized

LEMMA ProductPositive ==
  ASSUME NEW a \in Nat \ {0}, NEW b \in Nat \ {0}
  PROVE  a * b \in Nat \ {0}
OBVIOUS

LEMMA ElementsAreIntegers ==
  ASSUME NEW x, x.m \in Int, x.n \in Int, x.k \in Int, x.fp64 \in BOOLEAN
  PROVE  /\ symmetric_elements(x) \in Int /\ shared_elements(x) \in Int
         /\ compact_elements(x) \in Int /\ bilinear_elements(x) \in Int
         /\ rectangular_elements(x) \in Int
         /\ \A z : WantedWorkspace(z, x) \in Int
<1>1. /\ \A a \in Int, b \in Nat \ {0} : Ceil(a, b) \in Int
      /\ \A a \in Int : Padded(a, 6) \in Int /\ Padded(a, 8) \in Int /\ Padded(a, 12) \in Int
  BY DEF Ceil, Padded
<1>2. symmetric_elements(x) \in Int
  <2>1. SymmetricDepth(x) \in Nat \ {0} /\ SymmetricBlock \in Nat \ {0}
    BY DEF SymmetricDepth, SymmetricBlock
  <2>2. Ceil(x.n, SymmetricBlock) \in Int /\ Ceil(x.k, SymmetricDepth(x)) \in Int
    BY <1>1, <2>1
  <2> HIDE DEF SymmetricDepth, SymmetricBlock
  <2> QED BY <2>1, <2>2 DEF symmetric_elements
<1>3. shared_elements(x) \in Int
  <2>1. SharedColumns(x) \in Nat \ {0}
    <3>1. SharedRows(x) \in {8, 16}
      BY DEF SharedRows
    <3> QED BY <3>1 DEF SharedColumns
  <2>2. x.n \div SharedColumns(x) \in Int
    BY <2>1
  <2> HIDE DEF SharedColumns
  <2>3. Padded(x.n \div SharedColumns(x), 12) \in Int
    BY <1>1, <2>2
  <2> QED BY <2>1, <2>3 DEF shared_elements
<1>4. compact_elements(x) \in Int /\ bilinear_elements(x) \in Int
  BY DEF compact_elements, bilinear_elements
<1>5. rectangular_elements(x) \in Int
  <2> DEFINE hm == x.m \div 2
             hn == x.n \div 2
             hk == x.k \div 2
             rows == IF x.fp64 THEN 6 ELSE 12
             left == Padded(hm, rows)
             right == Padded(hn, 8)
  <2>1. hm \in Int /\ hn \in Int /\ hk \in Int /\ (rows = 6 \/ rows = 12)
    OBVIOUS
  <2> HIDE DEF hm, hn, hk, rows
  <2>2. left \in Int /\ right \in Int
    BY <1>1, <2>1
  <2>3. rectangular_elements(x) = 7 * ((left + right) * hk + hm * hn)
    BY DEF rectangular_elements, hm, hn, hk, rows
  <2> HIDE DEF left, right
  <2> QED BY <2>1, <2>2, <2>3
<1>6. ASSUME NEW z
      PROVE  WantedWorkspace(z, x) \in Int
  <2>1. \A n, k \in Int : workspace_elements(n, k) \in Int
    BY <1>1 DEF workspace_elements
  <2> DEFINE own == workspace_elements(x.n, x.k)
             envelope == workspace_elements(x.m + 256, x.k + 256)
             plain == own * (IF IsStrassen(z, x) THEN 1 ELSE 4)
             wide == own + envelope + envelope \div 4
  <2>2. own \in Int /\ envelope \in Int
    <3>1. x.m + 256 \in Int /\ x.k + 256 \in Int
      OBVIOUS
    <3> QED BY <2>1, <3>1
  <2>3. WantedWorkspace(z, x) \in {plain, wide}
    BY DEF WantedWorkspace
  <2> HIDE DEF own, envelope
  <2>4. plain \in Int /\ wide \in Int
    BY <2>2
  <2> QED BY <2>3, <2>4
<1> QED BY <1>2, <1>3, <1>4, <1>5, <1>6

\* What a route takes for one call is never nothing.
LEMMA StreamElements ==
  ASSUME NEW z, NEW x, NEW run, NEW threads, x.m \in Int, x.n \in Int, x.k \in Int,
         TakesStream(z, x, run, threads)
  PROVE  stream_elements(x, run) \in Nat \ {0}
<1>1. x.m \in 128 .. 8192 /\ x.n \in 128 .. 2048 /\ x.k > 1024
  BY DEF TakesStream
<1> DEFINE depth == StreamDepthOf(run)
           rows == StreamRows(run)
<1>2. depth \in {512, 768} /\ rows \in {16, 32}
  BY DEF StreamDepthOf, StreamRows
<1> HIDE DEF depth, rows
<1>3. Smaller(x.k, depth) = depth
  BY <1>1, <1>2 DEF Smaller
<1> DEFINE columns == 64 \div rows
           panels == StreamPanels(x, run)
<1>4. panels \in Nat
  <2>1. columns \in {2, 4}
    BY <1>2
  <2> DEFINE each == x.n \div columns
             groups == Ceil(each, 12)
  <2>2. each \in Nat
    <3> DEFINE n == x.n
    <3>1. n \div 2 \in Nat /\ n \div 4 \in Nat
      <4>1. n \in 128 .. 2048
        BY <1>1
      <4> HIDE DEF n
      <4> QED BY ONLY <4>1
    <3> HIDE DEF columns
    <3> QED BY <2>1, <3>1
  <2> HIDE DEF each
  <2>3. groups \in Nat
    BY <2>2 DEF Ceil
  <2>4. panels = groups * columns
    BY DEF StreamPanels, StreamGroups, rows, each
  <2> HIDE DEF groups, columns, panels
  <2> QED BY <2>1, <2>3, <2>4
<1> HIDE DEF panels
<1>5. stream_elements(x, run) = x.m * depth + panels * 12 * depth
  BY <1>3 DEF stream_elements, depth, panels
<1>6. panels * 12 * depth \in Nat /\ x.m * depth \in Nat \ {0}
  <2>1. depth \in Nat \ {0} /\ x.m \in Nat \ {0}
    <3> DEFINE m == x.m
    <3>1. m \in 128 .. 8192
      BY <1>1
    <3> HIDE DEF m
    <3>2. m \in Nat \ {0}
      BY ONLY <3>1
    <3> QED BY <1>2, <3>2 DEF m
  <2>2. panels * 12 \in Nat
    BY <1>4
  <2> QED BY <2>1, <2>2, ProductPositive
<1> QED BY <1>5, <1>6

LEMMA RectangularElements ==
  ASSUME NEW x, x.m \in Nat, x.n \in Nat, x.k \in Nat
  PROVE  rectangular_elements(x) \in Nat
<1> DEFINE hm == x.m \div 2
           hn == x.n \div 2
           hk == x.k \div 2
           rows == IF x.fp64 THEN 6 ELSE 12
           left == Padded(hm, rows)
           right == Padded(hn, 8)
<1>1. hm \in Nat /\ hn \in Nat /\ hk \in Nat /\ rows \in {6, 12}
  OBVIOUS
<1> HIDE DEF hm, hn, hk, rows
<1>2. left \in Nat /\ right \in Nat
  BY <1>1 DEF Padded, Ceil
<1>3. rectangular_elements(x) = 7 * ((left + right) * hk + hm * hn)
  BY DEF rectangular_elements, hm, hn, hk, rows
<1> HIDE DEF left, right
<1>4. (left + right) * hk \in Nat /\ hm * hn \in Nat
  BY <1>1, <1>2
<1> QED BY <1>3, <1>4

LEMMA CopiedElements ==
  ASSUME NEW x, NEW threads, x.m \in Int, x.n \in Int, x.k \in Int, CopiesA32(x, threads)
  PROVE  rectangular_elements(x) + x.m * x.k \in Nat \ {0}
<1>1. x.m \in 512 .. 2048 /\ x.n = x.m /\ x.k \in 256 .. 1024
  BY DEF CopiesA32, IsCopyA
<1>2. x.m \in Nat \ {0} /\ x.n \in Nat /\ x.k \in Nat \ {0}
  <2> DEFINE m == x.m
             k == x.k
  <2>1. m \in 512 .. 2048 /\ k \in 256 .. 1024 /\ x.n = m
    BY <1>1
  <2> HIDE DEF m, k
  <2>2. m \in Nat \ {0} /\ k \in Nat \ {0}
    BY ONLY <2>1
  <2> QED BY <2>1, <2>2 DEF m, k
<1>3. rectangular_elements(x) \in Nat /\ x.m * x.k \in Nat \ {0}
  BY <1>2, RectangularElements, ProductPositive
<1> HIDE DEF rectangular_elements
<1> QED BY <1>3

LEMMA SegmentElements ==
  ASSUME NEW x, NEW threads, x.m \in Int, x.n \in Int, x.k \in Int, IsDeep32(x, threads)
  PROVE  segment_elements(x, threads) \in Nat \ {0}
<1>1. x.n \in 256 .. 2048 /\ x.m >= 4 * x.n /\ x.k > 1024
  BY DEF IsDeep32
<1> DEFINE hm == x.m \div 2
           hn == x.n \div 2
           stream == threads \in 16 .. 32 /\ x.m >= 4 * x.n /\ x.k > 1024
           depth == IF stream THEN Smaller(x.k \div 2, 256) ELSE x.k \div 2
           left == Padded(hm, 12)
           right == Padded(hn, 8)
<1>2. hm \in Nat \ {0} /\ hn \in Nat \ {0}
  <2> DEFINE m == x.m
             n == x.n
  <2>1. m \in Int /\ n \in 256 .. 2048 /\ m >= 4 * n
    BY <1>1
  <2> HIDE DEF m, n
  <2>2. m \div 2 \in Nat \ {0} /\ n \div 2 \in Nat \ {0}
    BY ONLY <2>1
  <2> QED BY <2>2 DEF m, n
<1>3. depth \in Nat
  <2>1. x.k \div 2 \in Nat
    BY <1>1
  <2> HIDE DEF stream
  <2> QED BY <2>1 DEF Smaller
<1> HIDE DEF hm, hn
<1>4. left \in Nat /\ right \in Nat
  BY <1>2 DEF Padded, Ceil
<1>5. segment_elements(x, threads) = 7 * left * depth + 7 * right * depth + 7 * hm * hn
  BY DEF segment_elements, hm, hn
<1> HIDE DEF depth, left, right
<1>6. left * depth \in Nat /\ right * depth \in Nat /\ hm * hn \in Nat \ {0}
  BY <1>2, <1>3, <1>4
<1>7. /\ 7 * left * depth = 7 * (left * depth) /\ 7 * right * depth = 7 * (right * depth)
      /\ 7 * hm * hn = 7 * (hm * hn)
  BY <1>2, <1>3, <1>4
<1> DEFINE a == left * depth
           b == right * depth
           c == hm * hn
<1> HIDE DEF a, b, c
<1>8. segment_elements(x, threads) = 7 * a + 7 * b + 7 * c
  BY <1>5, <1>7 DEF a, b, c
<1> QED BY <1>6, <1>8 DEF a, b, c

LEMMA StrassenElements ==
  ASSUME NEW z, NEW x, IsStrassen(z, x)
  PROVE  strassen_elements(x.n) \in Nat \ {0}
<1>1. x.n \in {4096, 8192}
  BY DEF IsStrassen
<1>2. strassen_elements(4096) \in Nat \ {0} /\ strassen_elements(8192) \in Nat \ {0}
  <2>1. 4096 \div 2 = 2048 /\ 8192 \div 2 = 4096
    OBVIOUS
  <2> QED BY <2>1 DEF strassen_elements
<1> QED BY <1>1, <1>2

(***************************************************************************)
(* The routes.                                                             *)
(***************************************************************************)
\* What every step that looks for a route leaves alone.
LEMMA RoutingFacts ==
  ASSUME IInv, MInv, NEW t \in Threads, Routing(t)
  PROVE  /\ pc[t] \in Locked /\ pc'[t] \in Locked /\ Beside(t) /\ UNCHANGED <<scenario, call, frame>>
         /\ build' = build /\ temp[t].route = 0 /\ route[t] = None
         /\ pc[t] \in {"strassen", "rect", "classical"} => WorkspaceFits(t)
         /\ pc[t] = "strassen" => IsStrassen(build, frame[t].x)
<1>1. pc[t] \in Locked /\ pc'[t] \in Locked
  BY LocalParts DEF Routing, Goto, TypeInv, Locked, Tried
<1>2. Beside(t) /\ UNCHANGED <<scenario, call, frame>>
  BY LocalParts DEF Routing, Goto, TypeInv, Beside
<1>3. temp[t].route = 0
  BY MemoryParts DEF Routing, HoldInv, Tried
<1>4. route[t] = None
  BY LocalParts DEF Routing, RouteInv, Tried
<1>5. build' = build
  BY <1>2 DEF build
<1> QED BY <1>1, <1>2, <1>3, <1>4, <1>5, MemoryParts DEF FitInv

\* A step that takes nothing.
LEMMA GoesOn ==
  ASSUME IInv, MInv, NEW t \in Threads, Routing(t), UNCHANGED <<memory, temp>>,
         pc'[t] = "strassen" => IsStrassen(build, frame[t].x),
         pc'[t] \in {"rect", "strassen", "classical"} => WorkspaceFits(t),
         pc'[t] \in {"batch", "product"} =>
           StorageFits(t)' /\ (route'[t] \in AfterWorkspace => WorkspaceFits(t))
  PROVE  MInv'
<1>1. /\ pc[t] \in Locked /\ pc'[t] \in Locked /\ Beside(t) /\ UNCHANGED <<scenario, call, frame>>
      /\ build' = build /\ temp[t].route = 0
  BY RoutingFacts
<1>2. HoldInv(t)'
  BY <1>1, HoldLocked
<1>3. WorkspaceFits(t)' = WorkspaceFits(t)
  BY <1>1 DEF WorkspaceFits, memory
<1>4. FitInv(t)'
  BY <1>1, <1>3 DEF FitInv
<1> QED BY <1>1, <1>2, <1>4, QuietStep

\* A route in a kept buffer.
LEMMA TakesKept ==
  ASSUME IInv, MInv, NEW t \in Threads, Routing(t), NEW b \in Buffers, NEW size \in Int,
         Ensure(b, size), temp' = temp, pc'[t] = "batch",
         route'[t] \notin OwnStorage, IsKept(route'[t]),
         b = KeptFor(route'[t], frame[t].x), Needed(t)' = size,
         route'[t] \in AfterWorkspace => WorkspaceFits(t) /\ b # <<"workspace", frame[t].x.fp64>>
  PROVE  MInv'
<1>1. /\ pc[t] \in Locked /\ pc'[t] \in Locked /\ Beside(t) /\ UNCHANGED <<scenario, call, frame>>
      /\ build' = build /\ temp[t].route = 0
  BY RoutingFacts
<1>2. HoldInv(t)'
  BY <1>1, HoldLocked
<1>3. MemInv
  BY MemoryParts
<1>4. /\ MemInv' /\ size <= buffers'[b].capacity
      /\ \A d \in Buffers : d # b => buffers'[d] = buffers[d]
      /\ \A u \in Threads : \A i \in Uses : temp[u][i] # 0 => heap'[temp[u][i]] = heap[temp[u][i]]
  BY <1>3, EnsureKeeps
<1>5. StorageFits(t)'
  <2>1. KeptFor(route[t], frame[t].x)' = b
    BY <1>1 DEF KeptFor
  <2> QED BY <1>1, <1>4, <2>1 DEF StorageFits
<1>6. route'[t] \in AfterWorkspace => WorkspaceFits(t)'
  <2>1. <<"workspace", frame[t].x.fp64>> \in Buffers
    <3>1. frame[t].x.fp64 \in BOOLEAN
      BY <1>1, FrameSizes
    <3> QED BY <3>1 DEF Buffers, Kinds
  <2> QED BY <1>1, <1>4, <2>1 DEF WorkspaceFits
<1>7. FitInv(t)'
  BY <1>5, <1>6 DEF FitInv
<1>8. "route" \in Uses
  BY DEF Uses
<1> QED BY <1>1, <1>2, <1>4, <1>7, <1>8, MemoryStep

\* A route in storage of its own.
LEMMA TakesOwn ==
  ASSUME IInv, MInv, NEW t \in Threads, Routing(t), NEW size \in Nat \ {0},
         Allocate(t, "route", size), pc'[t] = "batch", route'[t] \in OwnStorage,
         Needed(t)' = size, route'[t] \in AfterWorkspace => WorkspaceFits(t)
  PROVE  MInv'
<1>1. /\ pc[t] \in Locked /\ pc'[t] \in Locked /\ Beside(t) /\ UNCHANGED <<scenario, call, frame>>
      /\ build' = build /\ temp[t].route = 0
  BY RoutingFacts
<1>2. "product" \in Uses /\ "route" \in Uses /\ "route" # "product"
  BY DEF Uses
<1>3. MemInv /\ buffers' = buffers
  BY MemoryParts DEF Allocate
<1>4. /\ MemInv' /\ temp'[t].route # 0 /\ heap'[temp'[t].route] = size
      /\ temp'[t].product = temp[t].product
      /\ \A u \in Threads : u # t => temp'[u] = temp[u]
      /\ \A u \in Threads : \A i \in Uses : temp[u][i] # 0 => heap'[temp[u][i]] = heap[temp[u][i]]
  BY <1>1, <1>2, <1>3, AllocateKeeps
<1>5. HoldInv(t)'
  BY <1>1, <1>4, HoldLocked
<1>6. StorageFits(t)'
  BY <1>4 DEF StorageFits
<1>7. WorkspaceFits(t)' = WorkspaceFits(t)
  BY <1>1, <1>3 DEF WorkspaceFits
<1>8. FitInv(t)'
  BY <1>6, <1>7 DEF FitInv
<1> QED BY <1>1, <1>2, <1>4, <1>5, <1>8, MemoryStep

\* What the chosen route needs.
LEMMA NeededFor ==
  ASSUME NEW t \in Threads, UNCHANGED <<scenario, frame>>
  PROVE  LET x == frame[t].x IN
         /\ route'[t] = "symmetric" => Needed(t)' = symmetric_elements(x)
         /\ route'[t] = "shared" => Needed(t)' = shared_elements(x)
         /\ route'[t] = "compact" => Needed(t)' = compact_elements(x)
         /\ route'[t] = "bilinear" => Needed(t)' = bilinear_elements(x)
         /\ route'[t] = "rect" => Needed(t)' = rectangular_elements(x)
         /\ route'[t] = "copied" => Needed(t)' = rectangular_elements(x) + x.m * x.k
         /\ route'[t] = "strassen" => Needed(t)' = strassen_elements(x.n)
         /\ route'[t] = "dot" => Needed(t)' = 0
         /\ route'[t] = "segments" => Needed(t)' = segment_elements(x, ContextThreads(t))
         /\ route'[t] = "stream" /\ UNCHANGED <<executor, small>> =>
              Needed(t)' = stream_elements(x, ContextExecutor(t))
         /\ route'[t] = "classical" =>
              Needed(t)' = IF IsPrivateShort(build, x) THEN 0 ELSE WantedWorkspace(build, x)
<1>1. build' = build
  BY DEF build
<1>2. ContextThreads(t)' = ContextThreads(t)
  BY <1>1 DEF ContextThreads, IsSmall
<1>3. UNCHANGED <<executor, small>> => ContextExecutor(t)' = ContextExecutor(t)
  BY <1>1 DEF ContextExecutor, IsSmall
<1> QED BY <1>1, <1>2, <1>3 DEF Needed

LEMMA Numbers ==
  ASSUME IInv, NEW t \in Threads, pc[t] \in Locked
  PROVE  /\ frame[t].x.m \in Int /\ frame[t].x.n \in Int /\ frame[t].x.k \in Int
         /\ frame[t].x.fp64 \in BOOLEAN
         /\ \A r \in Kinds : <<r, frame[t].x.fp64>> \in Buffers
         /\ <<"shared", FALSE>> \in Buffers
<1>1. frame[t].x.fp64 \in BOOLEAN
  BY FrameSizes
<1> QED BY <1>1, FrameSizes DEF Buffers

\* A route that ends the process if its buffer cannot grow.
LEMMA TakeOrFailMemory ==
  ASSUME IInv, MInv, NEW t \in Threads, Routing(t), NEW r \in {"symmetric", "compact", "bilinear"},
         NEW size \in Int, TakeOrFail(t, r, size),
         \/ r = "symmetric" /\ size = symmetric_elements(frame[t].x)
         \/ r = "compact" /\ size = compact_elements(frame[t].x)
         \/ r = "bilinear" /\ size = bilinear_elements(frame[t].x),
         pc[t] = r
  PROVE  MInv'
<1>1. /\ pc[t] \in Locked /\ UNCHANGED <<scenario, call, frame>>
  BY RoutingFacts
<1>2. CASE UNCHANGED <<memory, pc, temp>>
  BY <1>2, GoesOn
<1>3. CASE Ensure(<<r, frame[t].x.fp64>>, size) /\ Choose(t, r) /\ UNCHANGED temp
  <2>1. /\ route'[t] = r /\ pc'[t] = "batch"
    BY <1>3, LocalParts DEF Choose, Goto, TypeInv
  <2>2. /\ r \notin OwnStorage /\ IsKept(r) /\ r \notin AfterWorkspace
        /\ <<r, frame[t].x.fp64>> = KeptFor(r, frame[t].x)
    BY DEF OwnStorage, IsKept, AfterWorkspace, KeptFor
  <2>3. <<r, frame[t].x.fp64>> \in Buffers
    BY <1>1, Numbers DEF Kinds
  <2>4. Needed(t)' = size
    BY <1>1, <2>1, NeededFor
  <2> DEFINE b == <<r, frame[t].x.fp64>>
  <2> HIDE DEF b
  <2>5. /\ b \in Buffers /\ Ensure(b, size) /\ b = KeptFor(route'[t], frame[t].x)
    BY <1>3, <2>1, <2>2, <2>3 DEF b
  <2> QED BY <1>3, <2>1, <2>2, <2>4, <2>5, TakesKept
<1> QED BY <1>2, <1>3 DEF TakeOrFail

LEMMA SymmetricMemory ==
  ASSUME IInv, MInv, NEW t \in Threads, Routing(t), try_symmetric(t)
  PROVE  MInv'
<1>1. pc[t] = "symmetric" /\ pc[t] \in Locked
  BY RoutingFacts DEF try_symmetric
<1>2. CASE TakeOrFail(t, "symmetric", symmetric_elements(frame[t].x))
  <2>1. symmetric_elements(frame[t].x) \in Int
    BY <1>1, Numbers, ElementsAreIntegers
  <2> QED BY <1>1, <1>2, <2>1, TakeOrFailMemory
<1>3. CASE \E next \in {"leave", "context"} : Skip(t, next)
  <2>1. pc'[t] \in {"leave", "context"} /\ UNCHANGED <<memory, temp>>
    BY <1>3, LocalParts DEF Skip, Goto, TypeInv
  <2> QED BY <2>1, GoesOn
<1> QED BY <1>2, <1>3 DEF try_symmetric

LEMMA CompactMemory ==
  ASSUME IInv, MInv, NEW t \in Threads, Routing(t), try_compact(t) \/ try_bilinear(t)
  PROVE  MInv'
<1>1. pc[t] \in Locked
  BY RoutingFacts
<1>2. CASE pc[t] = "compact" /\ TakeOrFail(t, "compact", compact_elements(frame[t].x))
  <2>1. compact_elements(frame[t].x) \in Int
    BY <1>1, Numbers, ElementsAreIntegers
  <2> QED BY <1>2, <2>1, TakeOrFailMemory
<1>3. CASE pc[t] = "bilinear" /\ TakeOrFail(t, "bilinear", bilinear_elements(frame[t].x))
  <2>1. bilinear_elements(frame[t].x) \in Int
    BY <1>1, Numbers, ElementsAreIntegers
  <2> QED BY <1>3, <2>1, TakeOrFailMemory
<1>4. CASE \E next \in {"bilinear", "workspace"} : Skip(t, next)
  <2>1. pc'[t] \in {"bilinear", "workspace"} /\ UNCHANGED <<memory, temp>>
    BY <1>4, LocalParts DEF Skip, Goto, TypeInv
  <2> QED BY <2>1, GoesOn
<1> QED BY <1>2, <1>3, <1>4 DEF try_compact, try_bilinear

LEMMA DotMemory ==
  ASSUME IInv, MInv, NEW t \in Threads, Routing(t), try_dot(t)
  PROVE  MInv'
<1>1. UNCHANGED <<memory, temp, scenario, frame>>
  BY RoutingFacts DEF try_dot, Skip
<1>2. CASE Choose(t, "dot")
  <2>1. route'[t] = "dot" /\ pc'[t] = "batch"
    BY <1>2, LocalParts DEF Choose, Goto, TypeInv
  <2>2. Needed(t)' = 0
    BY <1>1, <2>1, NeededFor
  <2>3. StorageFits(t)' /\ route'[t] \notin AfterWorkspace
    BY <2>1, <2>2 DEF StorageFits, OwnStorage, IsKept, AfterWorkspace
  <2> QED BY <1>1, <2>1, <2>3, GoesOn
<1>3. CASE Skip(t, "compact")
  <2>1. pc'[t] = "compact"
    BY <1>3, LocalParts DEF Skip, Goto, TypeInv
  <2> QED BY <1>1, <2>1, GoesOn
<1> QED BY <1>2, <1>3 DEF try_dot

LEMMA ClassicalMemory ==
  ASSUME IInv, MInv, NEW t \in Threads, Routing(t), classical(t)
  PROVE  MInv'
<1>1. /\ UNCHANGED <<memory, temp, scenario, frame>> /\ build' = build
      /\ route'[t] = "classical" /\ pc'[t] = "batch"
  BY RoutingFacts, LocalParts DEF classical, Choose, Goto, TypeInv
<1>2. WorkspaceFits(t)
  BY RoutingFacts DEF classical
<1>3. Needed(t)' = IF IsPrivateShort(build, frame[t].x) THEN 0 ELSE WantedWorkspace(build, frame[t].x)
  BY <1>1, NeededFor
<1>4. KeptFor(route[t], frame[t].x)' = <<"workspace", frame[t].x.fp64>> /\ buffers' = buffers
  BY <1>1 DEF KeptFor, memory
<1>5. StorageFits(t)'
  BY <1>1, <1>2, <1>3, <1>4 DEF StorageFits, WorkspaceFits, OwnStorage, IsKept
<1> QED BY <1>1, <1>2, <1>5, GoesOn

LEMMA SharedMemory ==
  ASSUME IInv, MInv, NEW t \in Threads, Routing(t), try_shared32(t)
  PROVE  MInv'
<1> DEFINE x == frame[t].x
           run == ContextExecutor(t)
<1>1. /\ pc[t] = "shared" /\ pc[t] \in Locked /\ UNCHANGED <<scenario, frame>>
      /\ UNCHANGED <<executor, small>>
  BY RoutingFacts DEF try_shared32, OnlyRouting, pools
<1>2. x.m \in Int /\ x.n \in Int /\ x.k \in Int /\ x.fp64 \in BOOLEAN
  BY <1>1, Numbers
<1>3. CASE Goto(t, "dot") /\ UNCHANGED <<memory, temp>>
  <2>1. pc'[t] = "dot"
    BY <1>3, LocalParts DEF Goto, TypeInv
  <2> QED BY <1>3, <2>1, GoesOn
<1>4. CASE /\ TakesStream(build, x, run, ContextThreads(t))
           /\ Allocate(t, "route", stream_elements(x, run)) /\ Choose(t, "stream")
  <2>1. route'[t] = "stream" /\ pc'[t] = "batch"
    BY <1>4, LocalParts DEF Choose, Goto, TypeInv
  <2>2. stream_elements(x, run) \in Nat \ {0}
    BY <1>2, <1>4, StreamElements
  <2>3. Needed(t)' = stream_elements(x, run)
    BY <1>1, <2>1, NeededFor
  <2>4. "stream" \in OwnStorage /\ "stream" \notin AfterWorkspace
    BY DEF OwnStorage, AfterWorkspace
  <2> DEFINE size == stream_elements(x, run)
  <2>5. size \in Nat \ {0} /\ Needed(t)' = size /\ Allocate(t, "route", size)
    BY <1>4, <2>2, <2>3
  <2> HIDE DEF size
  <2> QED BY <2>1, <2>4, <2>5, TakesOwn
<1>5. CASE /\ Ensure(<<"shared", FALSE>>, shared_elements(x)) /\ Choose(t, "shared")
           /\ UNCHANGED temp
  <2> DEFINE b == <<"shared", FALSE>>
             size == shared_elements(x)
  <2>1. route'[t] = "shared" /\ pc'[t] = "batch"
    BY <1>5, LocalParts DEF Choose, Goto, TypeInv
  <2>2. size \in Int
    BY <1>2, ElementsAreIntegers
  <2>3. Needed(t)' = size
    BY <1>1, <2>1, NeededFor
  <2>4. /\ "shared" \notin OwnStorage /\ IsKept("shared") /\ "shared" \notin AfterWorkspace
        /\ KeptFor("shared", x) = b /\ b \in Buffers
    BY DEF OwnStorage, IsKept, AfterWorkspace, KeptFor, Buffers
  <2>5. Ensure(b, size)
    BY <1>5
  <2> HIDE DEF b, size
  <2> QED BY <1>5, <2>1, <2>2, <2>3, <2>4, <2>5, TakesKept
<1>6. \/ Goto(t, "dot") /\ UNCHANGED <<memory, temp>>
      \/ /\ TakesStream(build, x, run, ContextThreads(t))
         /\ Allocate(t, "route", stream_elements(x, run)) /\ Choose(t, "stream")
      \/ /\ Ensure(<<"shared", FALSE>>, shared_elements(x)) /\ Choose(t, "shared")
         /\ UNCHANGED temp
  BY DEF try_shared32, Skip, TakeWithTemp, TakeOrDecline
<1> QED BY <1>3, <1>4, <1>5, <1>6

LEMMA WorkspaceMemory ==
  ASSUME IInv, MInv, NEW t \in Threads, Routing(t), ensure_workspace(t)
  PROVE  MInv'
<1> DEFINE x == frame[t].x
           b == <<"workspace", x.fp64>>
           size == WantedWorkspace(build, x)
<1>1. /\ pc[t] = "workspace" /\ pc[t] \in Locked /\ pc'[t] \in Locked /\ Beside(t)
      /\ UNCHANGED <<scenario, call, frame, temp>>
      /\ temp[t].route = 0 /\ build' = build
  BY RoutingFacts DEF ensure_workspace
<1>2. CASE Ensure(b, size) /\ Goto(t, "rect")
  <2>1. pc'[t] = "rect"
    BY <1>2, LocalParts DEF Goto, TypeInv
  <2>2. b \in Buffers /\ size \in Int
    <3>1. x.m \in Int /\ x.n \in Int /\ x.k \in Int /\ x.fp64 \in BOOLEAN
      BY <1>1, Numbers
    <3> QED BY <3>1, ElementsAreIntegers DEF Buffers, Kinds
  <2>3. WorkspaceFits(t)' <=> size <= buffers'[b].capacity
    BY <1>1 DEF WorkspaceFits
  <2>4. Ensure(b, size)
    BY <1>2
  <2> HIDE DEF b, size
  <2>5. MemInv
    BY MemoryParts
  <2>6. /\ MemInv' /\ size <= buffers'[b].capacity
        /\ \A u \in Threads : \A i \in Uses : temp[u][i] # 0 => heap'[temp[u][i]] = heap[temp[u][i]]
    BY <1>1, <2>2, <2>4, <2>5, EnsureKeeps
  <2>7. HoldInv(t)' /\ FitInv(t)'
    BY <1>1, <2>1, <2>3, <2>6, HoldLocked DEF FitInv
  <2>8. "route" \in Uses
    BY DEF Uses
  <2> QED BY <1>1, <2>6, <2>7, <2>8, MemoryStep
<1>3. CASE UNCHANGED <<memory, pc>>
  BY <1>1, <1>3, GoesOn
<1> QED BY <1>2, <1>3 DEF ensure_workspace

LEMMA RectMemory ==
  ASSUME IInv, MInv, NEW t \in Threads, Routing(t), try_rect64(t) \/ try_rect32(t)
  PROVE  MInv'
<1> DEFINE x == frame[t].x
           threads == ContextThreads(t)
<1>1. /\ pc[t] = "rect" /\ pc[t] \in Locked /\ UNCHANGED <<scenario, frame>> /\ WorkspaceFits(t)
  BY RoutingFacts DEF try_rect64, try_rect32
<1>2. x.m \in Int /\ x.n \in Int /\ x.k \in Int /\ x.fp64 \in BOOLEAN
  BY <1>1, Numbers
<1>3. CASE Goto(t, Last(t)) /\ UNCHANGED <<memory, temp>>
  <2>1. pc'[t] = IF IsStrassen(build, x) THEN "strassen" ELSE "classical"
    BY <1>3, LocalParts DEF Goto, TypeInv, Last
  <2> QED BY <1>1, <1>3, <2>1, GoesOn
<1>4. CASE /\ Ensure(<<"rect", x.fp64>>, rectangular_elements(x)) /\ Choose(t, "rect")
           /\ UNCHANGED temp
  <2> DEFINE b == <<"rect", x.fp64>>
             size == rectangular_elements(x)
  <2>1. route'[t] = "rect" /\ pc'[t] = "batch"
    BY <1>4, LocalParts DEF Choose, Goto, TypeInv
  <2>2. size \in Int
    BY <1>2, ElementsAreIntegers
  <2>3. Needed(t)' = size
    BY <1>1, <2>1, NeededFor
  <2>4. /\ "rect" \notin OwnStorage /\ IsKept("rect") /\ KeptFor("rect", x) = b
        /\ b # <<"workspace", x.fp64>>
    BY DEF OwnStorage, IsKept, KeptFor
  <2>5. Ensure(b, size) /\ b \in Buffers
    BY <1>1, <1>4, Numbers DEF Kinds
  <2> HIDE DEF b, size
  <2> QED BY <1>1, <1>4, <2>1, <2>2, <2>3, <2>4, <2>5, TakesKept
<1>5. CASE /\ CopiesA32(x, threads) /\ Choose(t, "copied")
           /\ Allocate(t, "route", rectangular_elements(x) + x.m * x.k)
  <2> DEFINE size == rectangular_elements(x) + x.m * x.k
  <2>1. route'[t] = "copied" /\ pc'[t] = "batch"
    BY <1>5, LocalParts DEF Choose, Goto, TypeInv
  <2>2. size \in Nat \ {0}
    BY <1>2, <1>5, CopiedElements
  <2>3. Needed(t)' = size /\ Allocate(t, "route", size)
    BY <1>1, <1>5, <2>1, NeededFor
  <2>4. "copied" \in OwnStorage
    BY DEF OwnStorage
  <2> HIDE DEF size
  <2> QED BY <1>1, <2>1, <2>2, <2>3, <2>4, TakesOwn
<1>6. CASE /\ IsDeep32(x, threads) /\ Choose(t, "segments")
           /\ Allocate(t, "route", segment_elements(x, threads))
  <2> DEFINE size == segment_elements(x, threads)
  <2>1. route'[t] = "segments" /\ pc'[t] = "batch"
    BY <1>6, LocalParts DEF Choose, Goto, TypeInv
  <2>2. size \in Nat \ {0}
    BY <1>2, <1>6, SegmentElements
  <2>3. Needed(t)' = size /\ Allocate(t, "route", size)
    BY <1>1, <1>6, <2>1, NeededFor
  <2>4. "segments" \in OwnStorage
    BY DEF OwnStorage
  <2> HIDE DEF size
  <2> QED BY <1>1, <2>1, <2>2, <2>3, <2>4, TakesOwn
<1>7. \/ Goto(t, Last(t)) /\ UNCHANGED <<memory, temp>>
      \/ /\ Ensure(<<"rect", x.fp64>>, rectangular_elements(x)) /\ Choose(t, "rect")
         /\ UNCHANGED temp
      \/ /\ CopiesA32(x, threads) /\ Choose(t, "copied")
         /\ Allocate(t, "route", rectangular_elements(x) + x.m * x.k)
      \/ /\ IsDeep32(x, threads) /\ Choose(t, "segments")
         /\ Allocate(t, "route", segment_elements(x, threads))
  <2>1. CASE try_rect64(t)
    <3>1. x.fp64 = TRUE
      BY <1>2, <2>1 DEF try_rect64
    <3>2. \/ Goto(t, Last(t)) /\ UNCHANGED <<memory, temp>>
          \/ /\ Ensure(<<"rect", TRUE>>, rectangular_elements(x)) /\ Choose(t, "rect")
             /\ UNCHANGED temp
      BY <2>1 DEF try_rect64, Skip, TakeOrDecline
    <3> QED BY <3>1, <3>2
  <2>2. CASE try_rect32(t)
    <3>1. x.fp64 = FALSE
      BY <1>2, <2>2 DEF try_rect32
    <3>2. \/ Goto(t, Last(t)) /\ UNCHANGED <<memory, temp>>
          \/ /\ Ensure(<<"rect", FALSE>>, rectangular_elements(x)) /\ Choose(t, "rect")
             /\ UNCHANGED temp
          \/ /\ CopiesA32(x, threads) /\ Choose(t, "copied")
             /\ Allocate(t, "route", rectangular_elements(x) + x.m * x.k)
          \/ /\ IsDeep32(x, threads) /\ Choose(t, "segments")
             /\ Allocate(t, "route", segment_elements(x, threads))
      BY <2>2 DEF try_rect32, Skip, TakeOrDecline, TakeWithTemp
    <3> QED BY <3>1, <3>2
  <2> QED BY <2>1, <2>2
<1> QED BY <1>3, <1>4, <1>5, <1>6, <1>7

\* The scratch of the one-level Strassen has exactly the size of this call.
LEMMA StrassenMemory ==
  ASSUME IInv, MInv, NEW t \in Threads, Routing(t), use_strassen(t)
  PROVE  MInv'
<1> DEFINE x == frame[t].x
           b == <<"scratch", x.fp64>>
           size == strassen_elements(x.n)
<1>1. /\ pc[t] = "strassen" /\ pc[t] \in Locked /\ pc'[t] \in Locked /\ Beside(t)
      /\ UNCHANGED <<scenario, call, frame, temp>> /\ temp[t].route = 0 /\ build' = build
      /\ WorkspaceFits(t) /\ IsStrassen(build, x)
  BY RoutingFacts DEF use_strassen
<1>2. CASE UNCHANGED <<memory, route, pc>>
  BY <1>1, <1>2, GoesOn
<1>3. CASE /\ IF buffers[b].capacity = size THEN UNCHANGED memory ELSE Grow(b, size)
           /\ Choose(t, "strassen")
  <2>1. route'[t] = "strassen" /\ pc'[t] = "batch"
    BY <1>3, LocalParts DEF Choose, Goto, TypeInv
  <2>2. size \in Nat \ {0} /\ b \in Buffers /\ <<"workspace", x.fp64>> \in Buffers
    BY <1>1, StrassenElements, Numbers DEF Kinds
  <2>3. Needed(t)' = size
    BY <1>1, <2>1, NeededFor
  <2>4. /\ "strassen" \notin OwnStorage /\ IsKept("strassen") /\ KeptFor("strassen", x) = b
        /\ b # <<"workspace", x.fp64>>
    BY DEF OwnStorage, IsKept, KeptFor
  <2>5. \/ buffers[b].capacity = size /\ UNCHANGED memory
        \/ Grow(b, size)
    BY <1>3
  <2> HIDE DEF b, size
  <2>6. /\ MemInv' /\ size <= buffers'[b].capacity
        /\ \A d \in Buffers : d # b => buffers'[d] = buffers[d]
        /\ \A u \in Threads : \A i \in Uses : temp[u][i] # 0 => heap'[temp[u][i]] = heap[temp[u][i]]
    <3>1. MemInv /\ temp' = temp
      BY <1>1, MemoryParts
    <3>2. CASE buffers[b].capacity = size /\ UNCHANGED memory
      BY <2>2, <3>1, <3>2 DEF MemInv, MemoryType, memory
    <3>3. CASE Grow(b, size)
      <4>1. /\ MemInv' /\ buffers'[b].capacity = size
            /\ \A d \in Buffers : d # b => buffers'[d] = buffers[d]
            /\ \A u \in Threads : \A i \in Uses :
                 temp[u][i] # 0 => heap'[temp[u][i]] = heap[temp[u][i]]
        BY <2>2, <3>1, <3>3, GrowKeeps
      <4> QED BY <2>2, <4>1
    <3> QED BY <2>5, <3>2, <3>3
  <2>7. StorageFits(t)'
    <3>1. KeptFor(route[t], frame[t].x)' = b
      BY <1>1, <2>1, <2>4 DEF KeptFor
    <3> QED BY <2>1, <2>3, <2>4, <2>6, <3>1 DEF StorageFits
  <2>8. WorkspaceFits(t)'
    BY <1>1, <2>2, <2>4, <2>6 DEF WorkspaceFits
  <2>9. HoldInv(t)' /\ FitInv(t)'
    BY <1>1, <2>1, <2>7, <2>8, HoldLocked DEF FitInv
  <2>10. "route" \in Uses
    BY DEF Uses
  <2> QED BY <1>1, <2>6, <2>9, <2>10, MemoryStep
<1> QED BY <1>2, <1>3 DEF use_strassen

(***************************************************************************)
(* The theorem.                                                            *)
(***************************************************************************)
LEMMA InitMemory == Init => MInv
<1> SUFFICES ASSUME Init PROVE MInv
  OBVIOUS
<1>1. /\ \A b \in Blocks : heap[b] = 0
      /\ \A b \in Buffers : buffers[b].block = 0 /\ buffers[b].capacity = 0
      /\ \A t \in Threads : temp[t].route = 0 /\ temp[t].product = 0 /\ pc[t] = "idle"
  BY DEF Init, NoBuffer
<1>2. \A t \in Threads : \A i \in Uses : temp[t][i] = 0
  BY <1>1 DEF Uses
<1>3. MemoryType /\ 0 \notin Blocks
  BY BridgeAssumption DEF Init, MemoryType, BufferType, Temporaries, NoBuffer
<1>4. MemInv
  BY <1>1, <1>2, <1>3 DEF MemInv
<1>5. ASSUME NEW t \in Threads
      PROVE  HoldInv(t) /\ FitInv(t)
  BY <1>1 DEF HoldInv, FitInv, Locked, Tried
<1> QED BY <1>4, <1>5 DEF MInv

LEMMA NextMemory == IInv /\ MInv /\ [Next]_vars => MInv'
<1> SUFFICES ASSUME IInv, MInv, [Next]_vars PROVE MInv'
  OBVIOUS
<1>1. CASE UNCHANGED vars
  <2>1. UNCHANGED <<scenario, buffers, heap, temp, pc, call, frame, route, executor, small>>
    BY <1>1 DEF vars, process, pools, memory, locals
  <2>2. ASSUME NEW t \in Threads
        PROVE  HoldInv(t)' /\ FitInv(t)'
    <3>1. HoldInv(t)'
      BY <2>1, MemoryParts DEF HoldInv
    <3> QED BY <2>1, <3>1, FitKept, MemoryParts
  <2> QED BY <2>1, <2>2 DEF MInv, MemInv, MemoryType
<1>2. ASSUME NEW t \in Threads, Call(t) \/ Fork(t)
      PROVE  MInv'
  BY <1>2, EntryKeeps, ForkMemory
<1>3. ASSUME NEW t \in Threads, Step(t)
      PROVE  MInv'
  <2>1. CASE \/ BeginOnce(t) \/ initialize(t) \/ ready(t) \/ framework_blas_threads(t)
             \/ cblas_syrk(t) \/ Return(t)
    BY <2>1, EntryKeeps
  <2>2. CASE VendorGemm(t) \/ GemmChecks(t) \/ Lock(t)
    BY <2>2, GemmEntryKeeps
  <2>3. CASE camblas_ready(t) \/ prepare_output_touch(t) \/ gemm_context(t)
    BY <2>3, LockedQuietKeeps
  <2>4. CASE \/ try_symmetric(t) \/ try_shared32(t) \/ try_dot(t) \/ try_compact(t)
             \/ try_bilinear(t) \/ ensure_workspace(t) \/ try_rect64(t) \/ try_rect32(t)
             \/ use_strassen(t) \/ classical(t)
    <3>1. Routing(t)
      BY <2>4, RoutesAreRouting
    <3> QED BY <2>4, <3>1, SymmetricMemory, SharedMemory, DotMemory, CompactMemory,
               WorkspaceMemory, RectMemory, StrassenMemory, ClassicalMemory
  <2>5. CASE Batch(t) \/ product(t) \/ leave(t)
    BY <2>5, BatchMemory, ProductMemory, LeaveMemory
  <2>6. CASE SyrkProduct(t) \/ SyrkUpdate(t)
    BY <2>6, SyrkMemoryKeeps
  <2> QED BY <1>3, <2>1, <2>2, <2>3, <2>4, <2>5, <2>6 DEF Step
<1>4. CASE release_resources
  BY <1>4, DestructorMemory
<1> QED BY <1>1, <1>2, <1>3, <1>4 DEF Next, Ended

LEMMA BorrowedBlocks ==
  \A a : a \in Borrowed <=> a # 0 /\ \E t \in Threads : a = temp[t].route \/ a = temp[t].product
<1> DEFINE held(t) == {temp[t].route, temp[t].product}
           all == {held(t) : t \in Threads}
<1>1. \A S : S \in all <=> \E t \in Threads : S = held(t)
  OBVIOUS
<1>2. \A a : \A t : a \in held(t) <=> a = temp[t].route \/ a = temp[t].product
  OBVIOUS
<1>3. Borrowed = (UNION all) \ {0}
  BY DEF Borrowed
<1> HIDE DEF all, held
<1>4. \A a : a \in UNION all <=> \E S \in all : a \in S
  OBVIOUS
<1>5. \A a : a \in UNION all <=> \E t \in Threads : a \in held(t)
  BY <1>1, <1>4
<1> QED BY <1>2, <1>3, <1>5

LEMMA MInvBuffersKept == IInv /\ MInv => BuffersKept
<1> SUFFICES ASSUME IInv, MInv PROVE BuffersKept
  OBVIOUS
<1>1. MemInv /\ MemoryType /\ 0 \notin Blocks
  BY BridgeAssumption DEF MInv, MemInv
<1>2. /\ \A b \in Buffers : buffers[b].block \in Blocks \cup {0}
      /\ \A t \in Threads : \A i \in Uses : temp[t][i] \in Blocks \cup {0}
      /\ \A b \in Blocks : heap[b] \in Nat
  BY <1>1 DEF MemoryType, BufferType, Temporaries, Uses
<1>3. \A a \in Blocks : /\ a \in Kept <=> \E b \in Buffers : buffers[b].block = a
                        /\ a \in Borrowed <=> \E t \in Threads : \E i \in Uses : temp[t][i] = a
  <2> SUFFICES ASSUME NEW a \in Blocks
               PROVE  /\ a \in Kept <=> \E b \in Buffers : buffers[b].block = a
                      /\ a \in Borrowed <=> \E t \in Threads : \E i \in Uses : temp[t][i] = a
    OBVIOUS
  <2>1. a # 0
    BY <1>1
  <2>2. a \in Borrowed <=> \E t \in Threads : temp[t].route = a \/ temp[t].product = a
    BY <2>1, BorrowedBlocks
  <2> QED BY <2>1, <2>2 DEF Kept, Uses
<1>4. Kept \subseteq Blocks /\ Borrowed \subseteq Blocks
  <2>1. \A t \in Threads : temp[t].route \in Blocks \cup {0} /\ temp[t].product \in Blocks \cup {0}
    BY <1>2 DEF Uses
  <2>2. ASSUME NEW a \in Borrowed
        PROVE  a \in Blocks
    <3>1. \E t \in Threads : a = temp[t].route \/ a = temp[t].product
      BY BorrowedBlocks
    <3>2. a # 0
      BY DEF Borrowed
    <3> QED BY <2>1, <3>1, <3>2
  <2>3. Kept \subseteq Blocks
    BY <1>2 DEF Kept
  <2> QED BY <2>2, <2>3
<1>5. /\ \A b \in Buffers : IF buffers[b].block = 0 THEN buffers[b].capacity = 0
                            ELSE heap[buffers[b].block] = buffers[b].capacity
      /\ \A b, d \in Buffers : b # d /\ buffers[b].block > 0 => buffers[b].block # buffers[d].block
  <2>1. ASSUME NEW b \in Buffers, buffers[b].block > 0
        PROVE  buffers[b].block # 0
    BY <2>1
  <2> QED BY <1>1, <2>1 DEF MemInv
<1>6. {b \in Blocks : heap[b] > 0} = Kept \cup Borrowed
  <2>1. ASSUME NEW a \in Blocks
        PROVE  heap[a] > 0 <=> a \in Kept \cup Borrowed
    <3>1. heap[a] > 0 <=> heap[a] # 0
      BY <1>2
    <3> QED BY <1>1, <1>3, <3>1 DEF MemInv
  <2> QED BY <1>4, <2>1
<1>7. Kept \cap Borrowed = {}
  <2>1. ASSUME NEW a \in Kept, a \in Borrowed
        PROVE  FALSE
    <3>1. a \in Blocks /\ a # 0
      BY <1>1, <1>4
    <3> QED BY <1>1, <1>3, <2>1, <3>1 DEF MemInv
  <2> QED BY <2>1
<1>8. ASSUME NEW t \in Threads, pc[t] \in {"batch", "product"}, Needed(t) > 0
      PROVE  Storage(t) \in Blocks /\ heap[Storage(t)] >= Needed(t)
  <2> DEFINE r == route[t]
             x == frame[t].x
             need == Needed(t)
  <2>1. StorageFits(t)
    BY <1>8, MemoryParts DEF FitInv
  <2>2. CASE r \in OwnStorage
    <3>1. Storage(t) = temp[t].route
      BY <2>2 DEF Storage, OwnStorage
    <3>2. temp[t].route # 0 /\ temp[t].route \in Blocks /\ heap[temp[t].route] = need
      BY <2>1, <2>2, MemoryParts DEF StorageFits
    <3>3. heap[temp[t].route] \in Nat
      BY <1>2, <3>2
    <3> HIDE DEF need
    <3>4. heap[temp[t].route] >= need
      BY <3>2, <3>3
    <3> QED BY <3>1, <3>2, <3>4 DEF need
  <2>3. CASE r \notin OwnStorage
    <3> DEFINE b == KeptFor(r, x)
               place == buffers[b].block
               capacity == buffers[b].capacity
    <3>1. IsKept(r) \/ (r = "classical" /\ ~IsPrivateShort(build, x))
      <4>1. need > 0 => need # 0
        OBVIOUS
      <4> QED BY <1>8, <2>1, <2>3, <4>1 DEF StorageFits
    <3>2. need <= capacity
      BY <2>1, <2>3, <3>1 DEF StorageFits
    <3>3. Storage(t) = place
      BY <2>3, <3>1 DEF Storage, OwnStorage
    <3>4. b \in Buffers
      <4>1. x.fp64 \in BOOLEAN
        BY <1>8, FrameSizes DEF Locked
      <4> QED BY <3>1, <4>1 DEF KeptFor, IsKept, Buffers, Kinds
    <3>5. /\ capacity \in Nat /\ place \in Blocks \cup {0}
          /\ IF place = 0 THEN capacity = 0 ELSE heap[place] = capacity
      BY <1>1, <3>4 DEF MemInv, MemoryType, BufferType
    <3>6. need > 0 /\ need \in Int
      <4>1. x.m \in Int /\ x.n \in Int /\ x.k \in Int /\ x.fp64 \in BOOLEAN
        BY <1>8, FrameSizes DEF Locked
      <4>2. /\ symmetric_elements(x) \in Int /\ shared_elements(x) \in Int
            /\ compact_elements(x) \in Int /\ bilinear_elements(x) \in Int
            /\ rectangular_elements(x) \in Int /\ WantedWorkspace(build, x) \in Int
        BY <4>1, ElementsAreIntegers
      <4>3. strassen_elements(x.n) \in Int
        BY <4>1 DEF strassen_elements
      <4> HIDE DEF r, x
      <4> QED BY <1>8, <2>3, <3>1, <4>2, <4>3 DEF Needed, IsKept, need, OwnStorage, r, x
    <3> HIDE DEF need, place, capacity
    <3>7. capacity # 0
      BY <3>2, <3>5, <3>6
    <3>8. place \in Blocks /\ heap[place] = capacity
      BY <3>5, <3>7
    <3>9. need <= heap[place]
      BY <3>2, <3>8
    <3> QED BY <3>3, <3>8, <3>9 DEF need
  <2> QED BY <2>2, <2>3
<1> QED BY <1>5, <1>6, <1>7, <1>8 DEF BuffersKept

\* In every reachable state the memory of the bridge has one owner per block,
\* and every buffer the size its capacity says (ensure_workspace and siblings).
THEOREM MemoryOwned == Spec => []MInv
<1>1. IInv /\ IInv' /\ MInv /\ [Next]_vars => MInv'
  BY NextMemory
<1> QED BY <1>1, InitMemory, InvariantHolds, PTL DEF Spec

\* What a route computes in is live and large enough for this call, and no
\* memory is lost or given away twice, for every sequence of shapes, failed
\* allocations and declined routes (framework_blas_bridge.c).
THEOREM BuffersStayKept == Spec => []BuffersKept
BY MInvBuffersKept, MemoryOwned, InvariantHolds, PTL
=============================================================================
