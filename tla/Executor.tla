------------------------------ MODULE Executor ------------------------------
(***************************************************************************)
(* What include/camblas_executor.h promises of every executor, whatever    *)
(* runs the tasks: run(fn, tasks, n) calls fn exactly once for each k in   *)
(* 0..n-1, never outside that range and never after returning, and returns *)
(* 0 only when every call has completed.  If it cannot guarantee that, it  *)
(* returns nonzero (-1 here) after any of the calls; with no task it must  *)
(* return 0.  Calls by different threads may overlap and tasks may         *)
(* complete in any order.                                                  *)
(***************************************************************************)
EXTENDS Integers

CONSTANTS
  Threads,    \* whoever may call run(): application threads, pool workers
  Sizes       \* the n_tasks arguments considered; negative ones are invalid

VARIABLES
  status,     \* "out" or "in": is the thread inside run()?
  ntasks,     \* n_tasks of the thread's current or last call
  ran,        \* how often fn completed for each index of that call
  result      \* what the last call returned

vars == <<status, ntasks, ran, result>>

Indices == UNION {0 .. n - 1 : n \in Sizes}

NotRun == [k \in Indices |-> 0]

Init ==
  /\ status = [t \in Threads |-> "out"]
  /\ ntasks = [t \in Threads |-> 0]
  /\ ran    = [t \in Threads |-> NotRun]
  /\ result = [t \in Threads |-> 0]

Call(t, n) ==
  /\ status[t] = "out"
  /\ status' = [status EXCEPT ![t] = "in"]
  /\ ntasks' = [ntasks EXCEPT ![t] = n]
  /\ ran'    = [ran EXCEPT ![t] = NotRun]
  /\ UNCHANGED result

\* fn completes for one or more tasks of t's call that had not run before.
Invoke(t, K) ==
  /\ status[t] = "in"
  /\ \A k \in K : k < ntasks[t] /\ ran[t][k] = 0
  /\ ran' = [ran EXCEPT ![t] = [k \in Indices |-> IF k \in K THEN 1 ELSE @[k]]]
  /\ UNCHANGED <<status, ntasks, result>>

Return(t) ==
  /\ status[t] = "in"
  /\ \/ /\ ntasks[t] >= 0
        /\ \A k \in Indices : k < ntasks[t] => ran[t][k] = 1
        /\ result' = [result EXCEPT ![t] = 0]
     \/ /\ ntasks[t] # 0
        /\ result' = [result EXCEPT ![t] = -1]
  /\ status' = [status EXCEPT ![t] = "out"]
  /\ UNCHANGED <<ntasks, ran>>

Next ==
  \E t \in Threads :
    \/ \E n \in Sizes : Call(t, n)
    \/ \E K \in (SUBSET Indices) \ {{}} : Invoke(t, K)
    \/ Return(t)

Spec == Init /\ [][Next]_vars
=============================================================================
