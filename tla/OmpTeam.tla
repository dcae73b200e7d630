------------------------------- MODULE OmpTeam -------------------------------
(***************************************************************************)
(* framework/framework_blas_bridge.c: the executor that reuses the         *)
(* application's OpenMP runtime, and the team that framework_team_call     *)
(* keeps open for all batches of one GEMM.  The master publishes a batch   *)
(* in the team's fields and meets the other members at a barrier; a second *)
(* barrier separates the output preparation from the tasks, a last one     *)
(* ends the batch.  OpenMP may grant fewer threads than were asked for.    *)
(*                                                                         *)
(* A GEMM is "classical" (any number of batches, in a team), "shared" (the *)
(* grid kernels of shared_grid32.h: one batch of one task per thread, in a *)
(* team, or none) or "separate" (a parallel region for every batch).       *)
(***************************************************************************)
EXTENDS Integers, FiniteSets, Slices

CONSTANTS
  N,        \* thread_count, the team size asked for
  Columns,  \* columns of C whose pages are touched
  Sizes,    \* n_tasks arguments
  Batches   \* bound: batches in a behaviour

ASSUME TeamAssumption ==
  /\ N \in Nat \ {0} /\ Columns \in Nat /\ Batches \in Nat
  /\ Sizes \subseteq Nat /\ N \in Sizes /\ IsFiniteSet(Sizes)

Threads == 0 .. N - 1
Cells   == 0 .. Columns - 1

VARIABLES
  size,      \* omp_get_num_threads() of the open region, 0 when there is none
  team,      \* active_team # NULL in the master
  job,       \* count, touch.c and what fn does: the team's published batch
  stop,      \* team->stop
  pending,   \* pending_output_touch.c # NULL
  pc,        \* where each thread is
  at,        \* loop counter of each thread
  bar,       \* barriers each member has arrived at in this region
  region,    \* which barrier region that was last
  gemm, parallel, declined, failed,
  computes,  \* does the current batch compute C?
  owner,     \* the task whose rows hold the touched byte of every column
  cells,     \* what that byte of each column holds
  batches, ntasks, ran, result

teamVars == <<size, team, job, stop>>
barVars == <<bar, region>>
gemmVars == <<gemm, parallel, declined, failed, computes, owner>>
callVars == <<batches, ntasks, ran, result>>
vars == <<teamVars, pending, pc, at, barVars, gemmVars, cells, callVars>>

InRun == {"enter", "publish", "top", "wait top", "touch", "middle", "wait middle", "task",
          "wait bottom", "done"}
Places == InRun \union {"idle", "absent", "fork", "ready", "end", "left", "return", "aborted"}

Contract == INSTANCE Executor WITH
  Threads <- {0},
  status  <- [t \in {0} |-> IF pc[0] \in InRun /\ ~stop THEN "in" ELSE "out"],
  ntasks  <- [t \in {0} |-> ntasks],
  ran     <- [t \in {0} |-> ran],
  result  <- [t \in {0} |-> result]

Indices == UNION {0 .. n - 1 : n \in Sizes}
NotRun  == [k \in Indices |-> 0]
AllRun(n) == [k \in Indices |-> IF k < n THEN 1 ELSE 0]

Init ==
  /\ size = 0 /\ team = FALSE /\ stop = FALSE
  /\ job = [n |-> 0, touch |-> FALSE] /\ pending = FALSE
  /\ pc = [t \in Threads |-> IF t = 0 THEN "idle" ELSE "absent"]
  /\ at = [t \in Threads |-> 0]
  /\ bar = [t \in Threads |-> 0] /\ region = [t \in Threads |-> "none"]
  /\ gemm = "none" /\ parallel = FALSE /\ declined = FALSE /\ failed = FALSE
  /\ computes = FALSE /\ owner = 0
  /\ cells = [j \in Cells |-> "value"]
  /\ batches = 0 /\ ntasks = 0 /\ ran = NotRun /\ result = 0

Goto(t, to) == pc' = [pc EXCEPT ![t] = to]

\* Only the threads that the runtime granted take part.
MembersAsked == Threads
Members == 0 .. size - 1
-----------------------------------------------------------------------------
(* The GEMM and framework_team_call                                        *)

\* The grid kernels are not tried from inside a parallel region.
BeginGemm(g, touch, par) ==
  /\ pc[0] = "idle" /\ batches < Batches
  /\ g = "shared" => ~par
  /\ gemm' = g /\ parallel' = par /\ pending' = touch
  /\ declined' = FALSE /\ failed' = FALSE /\ computes' = FALSE
  /\ cells' = [j \in Cells |-> "stale"]
  /\ Goto(0, IF g = "separate" \/ par THEN "ready" ELSE "fork")
  /\ UNCHANGED <<teamVars, at, barVars, owner, callVars>>

\* #pragma omp parallel: members other than the master start in the loop.
Fork(s) ==
  /\ pc[0] = "fork" /\ s \in 1 .. N
  /\ size' = s /\ team' = TRUE /\ stop' = FALSE
  /\ pc' = [t \in Threads |-> IF t = 0 THEN "ready" ELSE IF t < s THEN "top" ELSE "absent"]
  /\ bar' = [t \in Threads |-> 0] /\ region' = [t \in Threads |-> "none"]
  /\ UNCHANGED <<job, pending, at, gemmVars, cells, callVars>>

\* shared32_execute and stream32_execute leave without a batch.
Decline ==
  /\ pc[0] = "ready" /\ gemm = "shared" /\ size # N /\ ~computes
  /\ declined' = TRUE
  /\ Goto(0, "end")
  /\ UNCHANGED <<teamVars, pending, at, barVars, gemm, parallel, failed, computes, owner, cells,
                 callVars>>

\* The next batch: c says whether it is the last one, which computes C.
Call(n, c, o) ==
  /\ pc[0] = "ready" /\ ~computes /\ ~failed
  /\ gemm = "shared" => size = N /\ n = N /\ c
  /\ c => n > 0 /\ o \in 0 .. n - 1
  /\ ~c => o = 0 /\ batches + 1 < Batches
  /\ computes' = c /\ owner' = o
  /\ batches' = batches + 1 /\ ntasks' = n /\ ran' = NotRun
  /\ Goto(0, "enter")
  /\ UNCHANGED <<teamVars, pending, at, barVars, gemm, parallel, declined, failed, cells, result>>

\* The algorithm is over, or an executor's error ends it.
EndBatches ==
  /\ pc[0] = "ready" /\ (computes \/ failed)
  /\ Goto(0, "end")
  /\ UNCHANGED <<teamVars, pending, at, barVars, gemmVars, cells, callVars>>

\* team.stop = 1 and the last exchange.
StopTeam ==
  /\ pc[0] = "end" /\ team
  /\ stop' = TRUE
  /\ Goto(0, "top")
  /\ UNCHANGED <<size, team, job, pending, at, barVars, gemmVars, cells, callVars>>

\* The region ends when all members have; a smaller team is an error.
JoinTeam ==
  /\ pc[0] = "left" /\ \A t \in Members : pc[t] = "left"
  /\ failed' = (failed \/ size # N)
  /\ size' = 0 /\ team' = FALSE /\ stop' = FALSE
  /\ pc' = [t \in Threads |-> IF t = 0 THEN "return" ELSE "absent"]
  /\ UNCHANGED <<job, pending, at, barVars, gemm, parallel, declined, computes, owner, cells,
                 callVars>>

EndWithoutTeam ==
  /\ pc[0] = "end" /\ ~team
  /\ Goto(0, "return")
  /\ UNCHANGED <<teamVars, pending, at, barVars, gemmVars, cells, callVars>>

\* clear_output_touch, or fail(), which aborts the process.
ReturnGemm ==
  /\ pc[0] = "return"
  /\ pending' = FALSE
  /\ Goto(0, IF failed THEN "aborted" ELSE "idle")
  /\ UNCHANGED <<teamVars, at, barVars, gemmVars, cells, callVars>>
-----------------------------------------------------------------------------
(* framework_omp_run                                                       *)

Return(rc) ==
  /\ Goto(0, "ready")
  /\ result' = rc
  /\ failed' = (rc # 0)

ReturnEmpty ==
  /\ pc[0] = "enter" /\ ntasks = 0
  /\ Return(0)
  /\ UNCHANGED <<teamVars, pending, at, barVars, gemm, parallel, declined, computes, owner, cells,
                 batches, ntasks, ran>>

\* The batch and its preparation go to the team.
Publish ==
  /\ pc[0] = "enter" /\ ntasks # 0 /\ team
  /\ job' = [n |-> ntasks, touch |-> pending]
  /\ pending' = FALSE
  /\ Goto(0, "top")
  /\ UNCHANGED <<size, team, stop, at, barVars, gemmVars, cells, callVars>>

\* Without a team: on the calling thread inside a parallel region, else in a
\* region of its own, whose two work-sharing loops end in barriers.
\* The actual team size is known only after the tasks have run.
RunAlone(s) ==
  /\ pc[0] = "enter" /\ ntasks # 0 /\ ~team
  /\ s \in IF parallel THEN {N} ELSE 1 .. N
  /\ pending' = FALSE
  /\ cells' = [j \in Cells |-> IF computes THEN "value"
                               ELSE IF pending THEN "zero" ELSE cells[j]]
  /\ ran' = AllRun(ntasks)
  /\ failed' = (s # N)
  /\ Goto(0, "done")
  /\ UNCHANGED <<teamVars, at, barVars, gemm, parallel, declined, computes, owner, batches, ntasks,
                 result>>

ReturnAlone ==
  /\ pc[0] = "done"
  /\ Return(IF failed THEN -1 ELSE 0)
  /\ UNCHANGED <<teamVars, pending, at, barVars, gemm, parallel, declined, computes, owner, cells,
                 batches, ntasks, ran>>
-----------------------------------------------------------------------------
(* framework_team_exchange, for each member of the team                    *)

Arrive(t, from, where, to) ==
  /\ pc[t] = from
  /\ bar' = [bar EXCEPT ![t] = @ + 1] /\ region' = [region EXCEPT ![t] = where]
  /\ Goto(t, to)

PassesAlone(t) == TRUE
AllArrived(t) == \A u \in Members : bar[u] >= bar[t]

ArriveTop(t) ==
  /\ Arrive(t, "top", "top", "wait top")
  /\ UNCHANGED <<teamVars, pending, at, gemmVars, cells, callVars>>

PassTop(t) ==
  /\ pc[t] = "wait top" /\ AllArrived(t)
  /\ \/ /\ stop
        /\ Goto(t, "left") /\ UNCHANGED at
     \/ /\ ~stop /\ job.touch
        /\ Goto(t, "touch") /\ at' = [at EXCEPT ![t] = Begin(t, Columns, size)]
     \/ /\ ~stop /\ ~job.touch
        /\ Goto(t, "task") /\ at' = [at EXCEPT ![t] = Begin(t, job.n, size)]
  /\ UNCHANGED <<teamVars, pending, barVars, gemmVars, cells, callVars>>

TouchColumn(t) ==
  /\ pc[t] = "touch" /\ at[t] < End(t, Columns, size)
  /\ cells' = [cells EXCEPT ![at[t]] = "zero"]
  /\ at' = [at EXCEPT ![t] = @ + 1]
  /\ UNCHANGED <<teamVars, pending, pc, barVars, gemmVars, callVars>>

ArriveMiddle(t) ==
  /\ pc[t] = "touch" /\ at[t] >= End(t, Columns, size)
  /\ Arrive(t, "touch", "middle", "wait middle")
  /\ UNCHANGED <<teamVars, pending, at, gemmVars, cells, callVars>>

PassMiddle(t) ==
  /\ pc[t] = "wait middle" /\ AllArrived(t)
  /\ Goto(t, "task") /\ at' = [at EXCEPT ![t] = Begin(t, job.n, size)]
  /\ UNCHANGED <<teamVars, pending, barVars, gemmVars, cells, callVars>>

RunTask(t) ==
  /\ pc[t] = "task" /\ at[t] < End(t, job.n, size)
  /\ ran' = [ran EXCEPT ![at[t]] = @ + 1]
  /\ cells' = IF computes /\ at[t] = owner THEN [j \in Cells |-> "value"] ELSE cells
  /\ at' = [at EXCEPT ![t] = @ + 1]
  /\ UNCHANGED <<teamVars, pending, pc, barVars, gemmVars, batches, ntasks, result>>

ArriveBottom(t) ==
  /\ pc[t] = "task" /\ at[t] >= End(t, job.n, size)
  /\ Arrive(t, "task", "bottom", "wait bottom")
  /\ UNCHANGED <<teamVars, pending, at, gemmVars, cells, callVars>>

\* The master returns from run(), the others loop.
PassBottom(t) ==
  /\ pc[t] = "wait bottom" /\ AllArrived(t)
  /\ IF t = 0 THEN Return(0)
              ELSE Goto(t, "top") /\ UNCHANGED <<result, failed>>
  /\ UNCHANGED <<teamVars, pending, at, barVars, gemm, parallel, declined, computes, owner, cells,
                 batches, ntasks, ran>>
-----------------------------------------------------------------------------
MasterStep ==
  \/ Decline \/ EndBatches \/ StopTeam \/ JoinTeam \/ EndWithoutTeam \/ ReturnGemm
  \/ ReturnEmpty \/ Publish \/ ReturnAlone \/ (\E s \in 1 .. N : Fork(s) \/ RunAlone(s))
  \/ (\E n \in Sizes, c \in BOOLEAN : \E o \in 0 .. N : Call(n, c, o))

ExchangeStep(t) ==
  \/ ArriveTop(t) \/ PassTop(t) \/ TouchColumn(t) \/ ArriveMiddle(t) \/ PassMiddle(t)
  \/ RunTask(t) \/ ArriveBottom(t) \/ PassBottom(t)

\* The process has aborted, or the bound is reached.
Terminated ==
  /\ pc[0] = "aborted" \/ (pc[0] = "idle" /\ batches = Batches)
  /\ UNCHANGED vars

Next ==
  \/ \E g \in {"classical", "shared", "separate"}, touch, par \in BOOLEAN :
       BeginGemm(g, touch, par)
  \/ MasterStep
  \/ \E t \in Threads : ExchangeStep(t)
  \/ Terminated

Spec == Init /\ [][Next]_vars

\* The members of a team are scheduled.
Fairness == WF_vars(MasterStep) /\ \A t \in Threads : WF_vars(ExchangeStep(t))

FairSpec == Spec /\ Fairness
-----------------------------------------------------------------------------
(* Properties                                                              *)

\* Types of every variable.
TypeOK ==
  /\ size \in 0 .. N /\ team \in BOOLEAN /\ stop \in BOOLEAN /\ pending \in BOOLEAN
  /\ job \in [n : Sizes \union {0}, touch : BOOLEAN]
  /\ pc \in [Threads -> Places]
  /\ at \in [Threads -> Nat] /\ bar \in [Threads -> Nat]
  /\ region \in [Threads -> {"none", "top", "middle", "bottom"}]
  /\ gemm \in {"none", "classical", "shared", "separate"}
  /\ parallel \in BOOLEAN /\ declined \in BOOLEAN /\ failed \in BOOLEAN
  /\ computes \in BOOLEAN /\ owner \in Nat
  /\ cells \in [Cells -> {"stale", "zero", "value"}]
  /\ batches \in 0 .. Batches /\ ntasks \in Sizes \union {0}
  /\ ran \in [Indices -> {0, 1}] /\ result \in {0, -1}

\* Every member encounters the same barrier regions in the same order, though
\* one of them is conditional on a field the master rewrites.
SameBarriers ==
  \A t, u \in Members : bar[t] = bar[u] => region[t] = region[u]

\* The master rewrites the team's fields only while no other member is between
\* the barriers of a batch, where it reads them.
PublishedUnread ==
  [][job' # job \/ stop' # stop =>
       \A t \in Members \ {0} : pc[t] \in {"top", "wait top", "wait bottom", "left"}]_vars

\* C is computed when a GEMM returns, also when its only batch both prepares
\* the output pages and computes.
OutputComputed ==
  pc[0] = "idle" => \A j \in Cells : cells[j] = "value"

\* The executor keeps the contract; a team smaller than the one asked for is
\* reported after the fact.
ImplementsExecutor == Contract!Spec

\* Every GEMM returns or aborts the process; no member waits at a barrier for
\* ever.
GemmEnds == pc[0] # "idle" ~> pc[0] \in {"idle", "aborted"}

\* A grid kernel that declines because the team is smaller leaves the GEMM to
\* the next route.
DeclineIsNotFatal == declined => pc[0] # "aborted"
=============================================================================
