----------------------------- MODULE PlannedGemm ----------------------------
(***************************************************************************)
(* One call of camblas_[sd]gemm_plan or its workspace form (src/scalar.c): *)
(* validation, planning, then the vector kernel, the packed GEMM or row    *)
(* tasks on the executor, with the fallbacks between them.  The packed     *)
(* GEMM is PackedGemm's; stage "returned" hands its status back.           *)
(*                                                                         *)
(* What the planner decides is any plan it can make for the call's shape   *)
(* and context; sizes and addresses are reduced to whether they are valid. *)
(***************************************************************************)
EXTENDS PackedGemm

CONSTANT MaxRowTasks    \* CAMBLAS_EXEC_MAX_TASKS

ASSUME MaxRowTasksAssumption == MaxRowTasks \in Nat \ {0}

VARIABLE result         \* "running", then what the call returned: "ok" (0) or "error" (-1)

vars == <<packedVars, result>>

Promise == INSTANCE Gemm WITH
  valid   <- call.valid /\ call.plan # "refused" /\ call.executor # "invalid",
  beta    <- call.beta,
  product <- call.product,
  output  <- call.output

\* The calls.  plan is the kernel the planner selects, "refused" if it does not
\* accept the context.  Packed plans are made for large shapes only, the vector
\* kernel for non-empty ones.  A workspace matters to packed plans only.
Calls ==
  {x \in [valid : BOOLEAN,
          plan : {"refused", "scalar", "sve", "packed"},
          executor : {"invalid", "serial", "pool"},
          output : BOOLEAN, product : BOOLEAN, beta : {"zero", "one", "other"},
          initialize : BOOLEAN,      \* CAMBLAS_PACKED_INIT_C and nr = 8
          workspace : WorkspaceSizes] :
     /\ ~x.valid \/ x.plan = "refused" \/ x.executor = "invalid" =>
          x = [valid |-> x.valid, plan |-> x.plan, executor |-> x.executor,
               output |-> TRUE, product |-> TRUE, beta |-> "zero", initialize |-> FALSE,
               workspace |-> 0]
     /\ x.product => x.output
     /\ ~x.output => x.plan \notin {"sve", "packed"}
     /\ x.workspace # 0 => x.plan = "packed"
     /\ x.initialize => x.plan = "packed" /\ x.product /\ x.beta = "zero"}

Init ==
  /\ call \in Calls
  /\ stage = "start"
  /\ c = [t \in Tiles |-> <<>>]
  /\ panels = {}
  /\ heap = {}
  /\ inside = NoSpace
  /\ fused = FALSE
  /\ pending = {}
  /\ todo = {}
  /\ at = << >>
  /\ failed = FALSE
  /\ run_rc = 0
  /\ rc = 0
  /\ result = "running"

---------------------------------------------------------------------------
Finish(answer) ==
  /\ result' = answer
  /\ stage' = "done"

validate_args == call.valid
Accepted == validate_args /\ call.plan # "refused" /\ call.executor # "invalid"

\* (An empty C with beta = 1 ends the same way, at the latest in SubmitRows.)
NothingToDo == ~call.product /\ call.beta = "one"

Reject ==
  /\ stage = "start"
  /\ ~Accepted
  /\ Finish("error")
  /\ UNCHANGED <<call, c, panels, heap, inside, fused, pending, todo, at, failed, run_rc, rc>>

NoOperation ==
  /\ stage = "start"
  /\ Accepted
  /\ NothingToDo
  /\ Finish("ok")
  /\ UNCHANGED <<call, c, panels, heap, inside, fused, pending, todo, at, failed, run_rc, rc>>

Dispatch ==
  /\ stage = "start"
  /\ Accepted
  /\ ~NothingToDo
  /\ stage' = call.plan
  /\ UNCHANGED <<call, c, panels, heap, inside, fused, pending, todo, at, failed, run_rc, rc,
                 result>>

\* The vector kernel: not linked or not ready, or it computes all of C.
RunSve ==
  /\ stage = "sve"
  /\ \/ Leave(UNAVAILABLE) /\ UNCHANGED c
     \/ Leave(0) /\ c' = [t \in Tiles |-> Promise!Finished]
  /\ UNCHANGED <<call, panels, heap, inside, fused, pending, failed, run_rc, result>>

\* A mutant: every status permits the fallback.
never_final == FALSE

\* Does the status of the vector kernel or the packed GEMM rule the row tasks out?
packed_result_is_execution_error == rc \notin {0, UNAVAILABLE}

BackendDone ==
  /\ stage = "returned"
  /\ IF rc = 0
     THEN Finish("ok")
     ELSE IF call.workspace # 0 \/ packed_result_is_execution_error
          THEN Finish("error")
          ELSE stage' = "scalar" /\ UNCHANGED result
  /\ UNCHANGED <<call, c, panels, heap, inside, fused, pending, todo, at, failed, run_rc, rc>>

\* Ranges of row blocks, each with all columns, one task each.
split_rows ==
  IF call.output THEN Groups(Cardinality(RowBlocks), MaxRowTasks) ELSE << >>

SubmitRows ==
  /\ stage = "scalar"
  /\ IF call.output
     THEN /\ stage' = "rows"
          /\ todo' = DOMAIN split_rows
          /\ UNCHANGED result
     ELSE /\ Finish("ok")
          /\ UNCHANGED todo
  /\ UNCHANGED <<call, c, panels, heap, inside, fused, pending, at, failed, run_rc, rc>>

\* A row task: beta, then the products of the whole depth.
sgemm_tile_fn(t) ==
  [x \in Tiles |->
    IF x[1] \notin split_rows[t] THEN c[x]
    ELSE Scaled(Tiles)[x] \o (IF call.product THEN InOrder(1 .. Depth) ELSE << >>)]

RunRows(t) ==
  /\ stage = "rows"
  /\ t \in todo
  /\ call.executor = "serial" => \A u \in todo : t <= u
  /\ c' = sgemm_tile_fn(t)
  /\ todo' = todo \ {t}
  /\ UNCHANGED <<call, stage, panels, heap, inside, fused, pending, at, failed, run_rc, rc, result>>

RowsDone ==
  /\ stage = "rows"
  /\ \E code \in {0, -1} : Returned(code) /\ Finish(IF code = 0 THEN "ok" ELSE "error")
  /\ todo' = {}
  /\ UNCHANGED <<call, c, panels, heap, inside, fused, pending, at, failed, run_rc, rc>>

\* Nothing is left to do: every other state without a step is a deadlock.
Terminated == stage = "done" /\ UNCHANGED vars

Next ==
  \/ Reject \/ NoOperation \/ Dispatch \/ RunSve
  \/ PackedNext /\ UNCHANGED result
  \/ BackendDone \/ SubmitRows \/ RowsDone
  \/ \E t \in DOMAIN split_rows : RunRows(t)
  \/ Terminated

Spec == Init /\ [][Next]_vars

---------------------------------------------------------------------------
(* Properties *)

TypeOK ==
  /\ call \in Calls
  /\ stage \in {"start", "sve", "packed", "prepareB", "prepareA", "packA", "packB", "packAB",
                "tiles", "serial", "release", "returned", "scalar", "rows", "done"}
  /\ c \in [Tiles -> Seq(0 .. Depth)]
  /\ heap \subseteq {"A", "B", "shapes"}
  /\ inside \in [{"A", "B", "shapes"} -> SUBSET (0 .. call.workspace - 1)]
  /\ fused \in BOOLEAN /\ pending \subseteq {"A", "B"}
  /\ failed \in BOOLEAN /\ run_rc \in {0, -1}
  /\ rc \in {0, UNAVAILABLE, EXECUTION_ERROR}
  /\ result \in {"running", "ok", "error"}

\* The call keeps the promise of Gemm: beta and every depth block are applied to
\* each tile once and in order, whatever the route and however tasks interleave;
\* no route starts over what another one began; 0 means that C is complete.
ImplementsGemm == Promise!Spec

\* A task that multiplies with shared panels finds them packed: the preparation
\* is over, and it succeeded, before any tile is computed.
PanelsPackedBeforeUse ==
  stage = "tiles" =>
    \A t \in DOMAIN at :
      LET item == MyItems(t)[at[t] + 1]
      IN  item[1] = "tile" =>
            /\ Shares("A") => <<"A", item[2][1], item[3]>> \in panels
            /\ Shares("B") => \A j \in Columns(item[2][2]) : <<"B", j, item[3]>> \in panels

\* Buffers put in the caller's workspace do not overlap, and whatever the entry
\* allocated beside it is freed on every way out.
WorkspaceKept ==
  /\ \A b, d \in {"A", "B", "shapes"} : b # d => inside[b] \cap inside[d] = {}
  /\ stage \in {"returned", "done"} => heap = {}
=============================================================================
