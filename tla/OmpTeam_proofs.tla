---------------------------- MODULE OmpTeam_proofs ----------------------------
(***************************************************************************)
(* The inductive invariant of OmpTeam and what follows from it for every   *)
(* team size asked for and granted, every number of columns, batches and   *)
(* tasks.                                                                  *)
(***************************************************************************)
EXTENDS OmpTeam, Slices_proofs

\* Where a member is in framework_team_exchange, and where it is waiting.
Waiting  == {"wait top", "wait middle", "wait bottom"}
Exchange == Waiting \union {"top", "touch", "task"}
Entrance == {"ready", "enter", "end", "top"}
Between(t) == pc[t] \in {"touch", "wait middle", "task"}

MasterPlaces ==
  IF size > 0 THEN Exchange \union {"ready", "enter", "end", "left"}
  ELSE {"idle", "fork", "ready", "enter", "done", "end", "return", "aborted"}

\* Who is where when there is a team, and when there is none.
PlaceInv ==
  /\ team <=> size > 0
  /\ pc[0] \in MasterPlaces
  /\ \A t \in Threads \ {0} : pc[t] \in IF t \in Members THEN Exchange \union {"left"}
                                        ELSE {"absent"}
  /\ stop => pc[0] \in {"top", "wait top", "left"}
  /\ \A t \in Members : pc[t] = "left" => stop
  /\ \A t \in Members : pc[t] \in {"touch", "wait middle", "task"} => ~stop

\* The region of the barrier that follows one of region r.
After(r) ==
  IF r = "top" THEN IF job.touch THEN "middle" ELSE "bottom"
  ELSE IF r = "middle" THEN "bottom"
  ELSE "top"

\* The barrier regions of a member are those of its place in the exchange.
RegionInv ==
  \A t \in Members :
    /\ pc[t] \in {"wait top", "touch", "left"} => region[t] = "top"
    /\ pc[t] = "wait middle" => region[t] = "middle"
    /\ pc[t] = "wait bottom" => region[t] = "bottom"
    /\ pc[t] \in {"touch", "wait middle"} => job.touch
    /\ pc[t] = "task" => region[t] = IF job.touch THEN "middle" ELSE "top"
    /\ pc[t] \in {"top", "ready", "enter", "end"} => region[t] \in {"none", "bottom"}

\* Members are at most one barrier apart, the one ahead is waiting at it, and
\* both see the same sequence of regions.
BarrierInv ==
  \A t, u \in Members :
    /\ bar[t] <= bar[u] + 1
    /\ pc[t] \notin Waiting => bar[t] <= bar[u]
    /\ bar[t] = bar[u] => region[t] = region[u]
    /\ bar[t] = bar[u] + 1 => region[t] = After(region[u])

\* The team's batch is the call's; a GEMM has room for its next batch until it
\* has been computed.
InBatch == pc[0] \in Exchange /\ ~stop
JobInv ==
  /\ InBatch => job.n = ntasks
  /\ InBatch \/ pc[0] = "done" => ntasks > 0
  /\ computes /\ (InBatch \/ pc[0] = "enter") => owner < ntasks
  /\ pc[0] # "idle" /\ ~computes => batches < Batches

\* Has member t run task k of its slice of the published batch?  The master may
\* still be at the middle barrier when others have arrived at the bottom one,
\* and still at that one when they wait for the next batch.
Finished(t) ==
  IF pc[0] = "wait bottom" THEN bar[t] >= bar[0] ELSE region[t] = "bottom" /\ bar[t] > bar[0]
HasRun(t, k) ==
  /\ k \in Slice(t, job.n, size)
  /\ Finished(t) \/ (pc[t] = "task" /\ k < at[t])

\* What each batch has run so far.
RanInv ==
  /\ pc[0] = "enter" => ran = NotRun
  /\ InBatch => \A k \in Indices : ran[k] = IF \E t \in Members : HasRun(t, k) THEN 1 ELSE 0
  /\ \A t \in Members : pc[t] = "task" => Begin(t, job.n, size) <= at[t]
  /\ pc[0] = "done" => ran = AllRun(ntasks)

\* The computing batch has C computed when its owner's task has run, and every
\* GEMM that ends without error has had one.
Computed == \A j \in Cells : cells[j] = "value"
CellInv ==
  /\ pc[0] = "idle" => Computed
  /\ InBatch /\ computes /\ ran[owner] = 1 => Computed
  /\ computes /\ (stop \/ pc[0] \in {"ready", "done", "end", "left", "return"}) => Computed
  /\ pc[0] = "fork" => ~computes
  /\ pc[0] = "end" \/ stop => computes \/ failed \/ (size # N /\ size > 0)
  /\ pc[0] = "return" => computes \/ failed
  /\ gemm = "shared" /\ pc[0] \in {"ready", "enter", "done"} => size > 0

IInv ==
  /\ TypeOK /\ PlaceInv /\ RegionInv /\ BarrierInv
  /\ JobInv /\ RanInv /\ CellInv
-----------------------------------------------------------------------------
(* Facts that the steps share                                              *)

\* The master is thread 0, and a member of every team.
LEMMA ThreadFacts ==
  /\ 0 \in Threads /\ \A t \in Threads : t \in Nat
  /\ TypeOK => Members \subseteq Threads /\ (size > 0 => 0 \in Members) /\ size \in Nat
BY TeamAssumption DEF Threads, Members, TypeOK

\* Sizes are natural numbers, and their indices are the natural numbers below.
LEMMA SizeFacts ==
  /\ \A n \in Sizes \union {0} : n \in Nat
  /\ \A n \in Sizes, k \in Nat : k < n => k \in Indices
  /\ Indices \subseteq Nat
BY TeamAssumption DEF Indices

\* Slices begin and end at natural numbers.
LEMMA SliceFacts ==
  ASSUME TypeOK, NEW n \in Nat, NEW t \in Members
  PROVE  /\ Begin(t, n, size) \in Nat /\ End(t, n, size) \in Nat
         /\ Begin(t, n, size) <= End(t, n, size) /\ End(t, n, size) <= n
BY SliceBounds DEF TypeOK, Members

\* The type of what has run.
LEMMA RanTypes == NotRun \in [Indices -> {0, 1}] /\ \A n : AllRun(n) \in [Indices -> {0, 1}]
BY DEF NotRun, AllRun

\* Threads in the exchange are members of the team.
LEMMA MemberFacts ==
  ASSUME IInv, NEW t \in Threads, pc[t] \in Exchange
  PROVE  t \in Members /\ 0 \in Members /\ size > 0
<1>1. CASE t = 0
  <2>1. size > 0
    BY <1>1 DEF IInv, PlaceInv, MasterPlaces, Exchange, Waiting
  <2>2. QED
    BY <1>1, <2>1, ThreadFacts DEF IInv
<1>2. CASE t # 0
  <2>1. t \in Members
    BY <1>2 DEF IInv, PlaceInv, Exchange, Waiting
  <2>2. size > 0
    BY <2>1 DEF IInv, TypeOK, Members
  <2>3. QED
    BY <2>1, <2>2, ThreadFacts DEF IInv
<1>3. QED
  BY <1>1, <1>2

\* What the invariant says of two members and their barriers.
LEMMA BarrierFacts ==
  ASSUME IInv, NEW t \in Members, NEW u \in Members
  PROVE  /\ t \in Threads /\ u \in Threads /\ bar[t] \in Nat /\ bar[u] \in Nat
         /\ bar[t] = bar[u] => region[t] = region[u]
         /\ bar[t] # bar[u] => \/ bar[t] = bar[u] + 1 /\ region[t] = After(region[u])
                               \/ bar[u] = bar[t] + 1 /\ region[u] = After(region[t])
         /\ pc[t] \notin Waiting => bar[t] <= bar[u]
         /\ pc[u] \notin Waiting => bar[u] <= bar[t]
<1>1. t \in Threads /\ u \in Threads /\ bar[t] \in Nat /\ bar[u] \in Nat
  BY ThreadFacts DEF IInv, TypeOK
<1>2. bar[t] <= bar[u] + 1 /\ bar[u] <= bar[t] + 1
  BY DEF IInv, BarrierInv
<1>3. bar[t] # bar[u] => bar[t] = bar[u] + 1 \/ bar[u] = bar[t] + 1
  BY <1>1, <1>2
<1>4. QED
  BY <1>1, <1>3 DEF IInv, BarrierInv

\* While the master is outside the exchange, or about to enter it, the others
\* are at its entrance, or have not yet left the last barrier of the batch
\* before.
LEMMA MasterOutside ==
  ASSUME IInv, size > 0, pc[0] \in Entrance, NEW t \in Members
  PROVE  /\ t # 0 => pc[t] \in {"top", "wait top", "wait bottom"}
         /\ \/ bar[t] = bar[0] /\ region[t] \in {"none", "bottom"}
            \/ bar[t] = bar[0] + 1 /\ region[t] = "top"
<1>1. 0 \in Members /\ t \in Threads /\ 0 \in Threads
  BY ThreadFacts DEF IInv
<1>2. region[0] \in {"none", "bottom"} /\ pc[0] \notin Waiting
  BY <1>1 DEF IInv, RegionInv, Waiting, Entrance
<1>3. CASE bar[t] = bar[0]
  <2>1. region[t] \in {"none", "bottom"}
    BY <1>1, <1>2, <1>3, BarrierFacts
  <2>2. pc[t] \notin {"wait top", "touch", "left", "wait middle", "task"}
    BY <2>1 DEF IInv, RegionInv
  <2>3. t # 0 => pc[t] \in Exchange \union {"left"}
    BY <1>1 DEF IInv, PlaceInv
  <2>4. QED
    BY <1>3, <2>1, <2>2, <2>3 DEF Exchange, Waiting
<1>4. CASE bar[t] # bar[0]
  <2>1. bar[t] = bar[0] + 1 /\ region[t] = After(region[0]) /\ pc[t] \in Waiting
    BY <1>1, <1>2, <1>4, BarrierFacts
  <2>2. region[t] = "top"
    BY <1>2, <2>1 DEF After
  <2>3. pc[t] = "wait top"
    BY <2>1, <2>2 DEF IInv, RegionInv, Waiting
  <2>4. QED
    BY <2>1, <2>2, <2>3
<1>5. QED
  BY <1>3, <1>4

\* A member between the barriers of a batch works on the published batch and
\* has not finished it.
LEMMA BetweenFacts ==
  ASSUME IInv, NEW t \in Threads, Between(t)
  PROVE  /\ t \in Members /\ 0 \in Members /\ size > 0 /\ region[t] \in {"top", "middle"}
         /\ InBatch /\ pc[0] # "top" /\ ~Finished(t)
         /\ job.n = ntasks /\ ntasks \in Sizes /\ ntasks \in Nat /\ ntasks > 0
<1>1. t \in Members /\ 0 \in Members /\ size > 0
  BY MemberFacts DEF Between, Exchange, Waiting
<1>2. region[t] \in {"top", "middle"}
  BY <1>1 DEF Between, IInv, RegionInv
<1>3. ~stop
  BY <1>1 DEF Between, IInv, PlaceInv
<1>4. pc[0] \notin {"ready", "enter", "end", "top", "left"}
  <2>1. pc[0] # "left"
    BY <1>1, <1>3 DEF IInv, PlaceInv
  <2>2. ASSUME pc[0] \in Entrance PROVE FALSE
    <3>1. t # 0
      BY <2>2 DEF Between, Entrance
    <3>2. pc[t] \in {"top", "wait top", "wait bottom"}
      BY <1>1, <2>2, <3>1, MasterOutside
    <3>3. QED
      BY <3>2 DEF Between
  <2>3. QED
    BY <2>1, <2>2 DEF Entrance
<1>5. InBatch
  BY <1>1, <1>3, <1>4 DEF IInv, PlaceInv, MasterPlaces, InBatch
<1>6. ~Finished(t)
  <2>1. CASE pc[0] = "wait bottom"
    <3>1. region[0] = "bottom"
      BY <1>1, <2>1 DEF IInv, RegionInv
    <3>2. bar[t] # bar[0]
      BY <1>1, <1>2, <3>1, BarrierFacts
    <3>3. bar[t] # bar[0] + 1
      <4>1. SUFFICES ASSUME bar[t] = bar[0] + 1 PROVE FALSE
        OBVIOUS
      <4>2. bar[t] \in Nat /\ bar[0] \in Nat /\ ~(bar[t] <= bar[0])
        BY <1>1, <4>1, BarrierFacts
      <4>3. region[t] = After(region[0]) /\ pc[t] \in Waiting
        BY <1>1, <4>1, <4>2 DEF IInv, BarrierInv
      <4>4. region[t] = "top"
        BY <3>1, <4>3 DEF After
      <4>5. QED
        BY <1>1, <4>3, <4>4 DEF Between, IInv, RegionInv, Waiting
    <3>4. ~(bar[t] >= bar[0])
      <4>1. bar[t] \in Nat /\ bar[0] \in Nat /\ bar[t] <= bar[0] + 1
        BY <1>1, BarrierFacts DEF IInv, BarrierInv
      <4>2. QED
        BY <3>2, <3>3, <4>1
    <3>5. QED
      BY <2>1, <3>4 DEF Finished
  <2>2. CASE pc[0] # "wait bottom"
    BY <1>2, <2>2 DEF Finished
  <2>3. QED
    BY <2>1, <2>2
<1>7. job.n = ntasks /\ ntasks > 0
  BY <1>5 DEF IInv, JobInv
<1>8. ntasks \in Sizes /\ ntasks \in Nat
  <2>1. ntasks \in Sizes \union {0}
    BY DEF IInv, TypeOK
  <2>2. QED
    BY <1>7, <2>1, SizeFacts
<1>9. QED
  BY <1>1, <1>2, <1>4, <1>5, <1>6, <1>7, <1>8

\* Steps outside the barriers keep what the invariant says of them.
LEMMA BarriersStable ==
  ASSUME IInv, UNCHANGED <<size, bar, region, job>>,
         \A t \in Members : pc'[t] \in Waiting <=> pc[t] \in Waiting
  PROVE  BarrierInv'
<1>1. Members' = Members
  BY DEF Members
<1>2. \A r : After(r)' = After(r)
  BY DEF After
<1>3. QED
  BY <1>1, <1>2 DEF IInv, BarrierInv

\* Without a team there are no barriers.
LEMMA NoTeam ==
  ASSUME size = 0
  PROVE  Members = {} /\ RegionInv /\ BarrierInv
<1>1. Members = {}
  BY DEF Members
<1>2. QED
  BY <1>1 DEF RegionInv, BarrierInv

\* A member arrives at the barrier that follows its last one.
LEMMA ArrivalInOrder ==
  ASSUME IInv, NEW t \in Members, pc[t] \notin Waiting, pc'[t] \in Waiting,
         \A u \in Members : u # t => pc'[u] = pc[u],
         bar' = [bar EXCEPT ![t] = @ + 1], region' = [region EXCEPT ![t] = After(region[t])],
         UNCHANGED <<size, job>>
  PROVE  BarrierInv'
<1>1. Members' = Members /\ \A r : After(r)' = After(r)
  BY DEF Members, After
<1>2. \A u \in Members : bar[u] \in Nat /\ u \in Threads
  BY BarrierFacts
<1>3. bar'[t] = bar[t] + 1 /\ region'[t] = After(region[t])
  BY <1>2 DEF IInv, TypeOK
<1>4. \A u \in Members : u # t => bar'[u] = bar[u] /\ region'[u] = region[u]
  BY <1>2 DEF IInv, TypeOK
<1>5. ASSUME NEW u \in Members, u # t
      PROVE  /\ bar'[t] <= bar'[u] + 1 /\ bar'[u] <= bar'[t] + 1
             /\ pc'[u] \notin Waiting => bar'[u] <= bar'[t]
             /\ bar'[t] = bar'[u] => region'[t] = region'[u]
             /\ bar'[t] = bar'[u] + 1 => region'[t] = After(region'[u])
             /\ bar'[u] # bar'[t] + 1
  <2>1. /\ bar[t] <= bar[u] /\ bar[u] <= bar[t] + 1
        /\ pc[u] \notin Waiting => bar[u] <= bar[t]
    BY DEF IInv, BarrierInv
  <2>2. bar[u] = bar[t] + 1 => region[u] = After(region[t])
    BY DEF IInv, BarrierInv
  <2>3. bar[t] = bar[u] => region[t] = region[u]
    BY DEF IInv, BarrierInv
  <2>4. bar[t] \in Nat /\ bar[u] \in Nat
    BY <1>2
  <2>5. QED
    BY <1>3, <1>4, <1>5, <2>1, <2>2, <2>3, <2>4
<1>6. ASSUME NEW u \in Members, NEW v \in Members, u # t, v # t
      PROVE  /\ bar'[u] <= bar'[v] + 1
             /\ pc'[u] \notin Waiting => bar'[u] <= bar'[v]
             /\ bar'[u] = bar'[v] => region'[u] = region'[v]
             /\ bar'[u] = bar'[v] + 1 => region'[u] = After(region'[v])
  BY <1>4, <1>6 DEF IInv, BarrierInv
<1>7. bar'[t] \in Nat /\ bar'[t] <= bar'[t] + 1 /\ bar'[t] # bar'[t] + 1
  BY <1>2, <1>3
<1>8. \A u, v \in Members :
        /\ bar'[u] <= bar'[v] + 1
        /\ pc'[u] \notin Waiting => bar'[u] <= bar'[v]
        /\ bar'[u] = bar'[v] => region'[u] = region'[v]
        /\ bar'[u] = bar'[v] + 1 => region'[u] = After(region'[v])
  BY <1>5, <1>6, <1>7
<1>9. QED
  BY <1>1, <1>8 DEF BarrierInv

\* A member passes a barrier when nobody is behind it.
LEMMA PassInOrder ==
  ASSUME IInv, NEW t \in Members, AllArrived(t),
         \A u \in Members : u # t => pc'[u] = pc[u], UNCHANGED <<size, bar, region, job>>
  PROVE  BarrierInv'
<1>1. Members' = Members /\ \A r : After(r)' = After(r)
  BY DEF Members, After
<1>2. \A u \in Members : bar[t] <= bar[u]
  BY BarrierFacts DEF AllArrived
<1>3. QED
  BY <1>1, <1>2 DEF IInv, BarrierInv

\* Nobody has run a task while a member still prepares the output.
LEMMA TouchFacts ==
  ASSUME IInv, NEW t \in Threads, pc[t] = "touch"
  PROVE  /\ pc[0] # "wait bottom" /\ region[t] = "top" /\ job.touch
         /\ \A u \in Members : ~Finished(u) /\ pc[u] # "task"
         /\ \A k \in Indices : ran[k] = 0
<1>1. /\ t \in Members /\ 0 \in Members /\ InBatch /\ ~Finished(t)
      /\ region[t] = "top" /\ job.touch /\ After(region[t]) = "middle" /\ pc[t] \notin Waiting
  BY BetweenFacts DEF Between, IInv, RegionInv, After, Waiting
<1>2. ASSUME NEW u \in Members PROVE region[u] # "bottom" \/ ~(bar[u] >= bar[t])
  <2>1. bar[t] <= bar[u] /\ bar[u] <= bar[t] + 1 /\ bar[u] \in Nat /\ bar[t] \in Nat
    BY <1>1, BarrierFacts DEF IInv, BarrierInv
  <2>2. bar[u] = bar[t] \/ bar[u] = bar[t] + 1
    BY <2>1
  <2>3. region[u] \in {"top", "middle"}
    BY <1>1, <2>2 DEF IInv, BarrierInv
  <2>4. QED
    BY <2>3
<1>3. \A u \in Members : bar[u] >= bar[t]
  BY <1>1, BarrierFacts
<1>4. pc[0] # "wait bottom"
  BY <1>1, <1>2, <1>3 DEF IInv, RegionInv
<1>5. ASSUME NEW u \in Members PROVE ~Finished(u) /\ pc[u] # "task"
  <2>1. region[u] # "bottom"
    BY <1>2, <1>3
  <2>2. ASSUME pc[u] = "task" PROVE FALSE
    <3>1. region[u] = "middle" /\ pc[u] \notin Waiting
      BY <1>1, <2>2 DEF IInv, RegionInv, Waiting
    <3>2. bar[u] <= bar[t] /\ bar[t] <= bar[u]
      BY <1>1, <3>1 DEF IInv, BarrierInv
    <3>3. bar[u] = bar[t]
      BY <1>1, <3>2, BarrierFacts
    <3>4. QED
      BY <1>1, <3>1, <3>3 DEF IInv, BarrierInv
  <2>3. QED
    BY <1>4, <2>1, <2>2 DEF Finished
<1>6. \A k \in Indices : ran[k] = 0
  BY <1>1, <1>5 DEF IInv, RanInv, HasRun
<1>7. QED
  BY <1>1, <1>4, <1>5, <1>6

\* A member that starts its slice has run nothing of it, one that has reached
\* its end has run all of it.
LEMMA SliceEnds ==
  ASSUME TypeOK, NEW t \in Members, NEW k \in Indices, k \in Slice(t, job.n, size)
  PROVE  /\ ~(k < Begin(t, job.n, size))
         /\ at[t] >= End(t, job.n, size) /\ t \in Threads => k < at[t]
<1>1. job.n \in Nat /\ k \in Nat
  BY SizeFacts DEF TypeOK
<1>2. Begin(t, job.n, size) \in Nat /\ End(t, job.n, size) \in Nat
  BY <1>1, SliceFacts
<1>3. t \in Threads => at[t] \in Nat
  BY DEF TypeOK
<1>4. QED
  BY <1>1, <1>2, <1>3 DEF Slice

\* The first task of a slice.
LEMMA SliceStart ==
  ASSUME TypeOK, NEW t \in Members
  PROVE  Begin(t, job.n, size) \in Nat /\ Begin(t, job.n, size) <= Begin(t, job.n, size)
<1>1. job.n \in Nat
  BY SizeFacts DEF TypeOK
<1>2. Begin(t, job.n, size) \in Nat
  BY <1>1, SliceFacts
<1>3. QED
  BY <1>2

\* Steps that run nothing keep what has run.
LEMMA RanStable ==
  ASSUME IInv, UNCHANGED <<size, job, ntasks, ran>>, InBatch' => InBatch,
         pc'[0] \in {"enter", "done"} => pc'[0] = pc[0],
         \A u \in Members : InBatch => \A k \in Indices : HasRun(u, k)' <=> HasRun(u, k),
         \A u \in Members : pc'[u] = "task" => Begin(u, job.n, size) <= at'[u]
  PROVE  RanInv'
<1>1. Members' = Members
  BY DEF Members
<1>2. InBatch' => \A k \in Indices : ran'[k] = IF \E u \in Members : HasRun(u, k)' THEN 1 ELSE 0
  BY DEF IInv, RanInv
<1>3. (pc'[0] = "enter" => ran' = NotRun) /\ (pc'[0] = "done" => ran' = AllRun(ntasks'))
  BY DEF IInv, RanInv
<1>4. QED
  BY <1>1, <1>2, <1>3 DEF RanInv, AllRun

\* The task a member runs is its own, and has not been run before.
LEMMA RunTaskFacts ==
  ASSUME IInv, NEW t \in Threads, pc[t] = "task", at[t] < End(t, job.n, size)
  PROVE  /\ at[t] \in Slice(t, job.n, size) /\ at[t] \in Indices /\ ran[at[t]] = 0
         /\ Begin(t, job.n, size) <= at[t] /\ Begin(t, job.n, size) \in Nat
<1>1. /\ t \in Members /\ InBatch /\ ~Finished(t) /\ job.n = ntasks /\ size \in Nat /\ size > 0
      /\ ntasks \in Sizes /\ ntasks \in Nat
  BY BetweenFacts, ThreadFacts DEF Between, IInv
<1>2. Begin(t, job.n, size) <= at[t] /\ at[t] \in Nat
  BY <1>1 DEF IInv, TypeOK, RanInv
<1>3. /\ Begin(t, job.n, size) \in Nat /\ End(t, job.n, size) \in Nat
      /\ End(t, job.n, size) <= job.n
  BY <1>1, SliceFacts DEF IInv
<1>4. at[t] \in Slice(t, job.n, size)
  BY <1>2, <1>3 DEF Slice
<1>5. at[t] \in Indices
  BY <1>1, <1>2, <1>3, SizeFacts
<1>6. ASSUME NEW u \in Members PROVE ~HasRun(u, at[t])
  <2>1. u # t => at[t] \notin Slice(u, job.n, size)
    BY <1>1, <1>4, SlicesDisjoint DEF Members
  <2>2. QED
    BY <1>1, <1>2, <2>1 DEF HasRun
<1>7. ran[at[t]] = 0
  BY <1>1, <1>5, <1>6 DEF IInv, RanInv
<1>8. QED
  BY <1>2, <1>3, <1>4, <1>5, <1>7

\* Where the master is only without a team.
LEMMA AloneFacts ==
  ASSUME IInv, pc[0] \in {"idle", "fork", "done", "return"} \/ ~team
  PROVE  size = 0 /\ ~team /\ ~stop
<1>1. ~(size > 0) /\ ~team
  BY DEF IInv, PlaceInv, MasterPlaces, Exchange, Waiting
<1>2. size = 0
  BY <1>1 DEF IInv, TypeOK
<1>3. pc[0] \notin {"top", "wait top", "left"}
  BY <1>1 DEF IInv, PlaceInv, MasterPlaces
<1>4. QED
  BY <1>1, <1>2, <1>3 DEF IInv, PlaceInv

\* A member that arrives at a barrier counts it, and moves alone.
LEMMA ArriveFacts ==
  ASSUME TypeOK, NEW t \in Threads, NEW from, NEW where, NEW to, Arrive(t, from, where, to),
         NEW u \in Threads
  PROVE  /\ bar'[t] = bar[t] + 1 /\ region'[t] = where /\ pc'[t] = to
         /\ u # t => bar'[u] = bar[u] /\ region'[u] = region[u] /\ pc'[u] = pc[u]
<1>1. DOMAIN bar = Threads /\ DOMAIN region = Threads /\ DOMAIN pc = Threads
  BY DEF TypeOK
<1>2. QED
  BY <1>1 DEF Arrive, Goto

\* The types of what arriving changes.
LEMMA ArriveTypes ==
  ASSUME TypeOK, NEW t \in Threads, NEW from, NEW where \in {"top", "middle", "bottom"},
         NEW to \in InRun, Arrive(t, from, where, to)
  PROVE  /\ bar' \in [Threads -> Nat]
         /\ region' \in [Threads -> {"none", "top", "middle", "bottom"}]
         /\ pc' \in [Threads -> Places]
<1>1. bar' \in [Threads -> Nat]
  <2>1. bar \in [Threads -> Nat]
    BY DEF TypeOK
  <2>2. QED
    BY <2>1 DEF Arrive
<1>2. region' \in [Threads -> {"none", "top", "middle", "bottom"}]
  BY DEF TypeOK, Arrive
<1>3. pc' \in [Threads -> Places]
  <2>1. pc \in [Threads -> Places] /\ to \in Places
    BY DEF TypeOK, Places
  <2>2. pc' = [pc EXCEPT ![t] = to]
    BY DEF Arrive, Goto
  <2>3. QED
    BY ONLY <2>1, <2>2
<1>4. QED
  BY <1>1, <1>2, <1>3

\* The types of what the exchange leaves alone.
LEMMA ExchangeTypes ==
  ASSUME TypeOK,
         UNCHANGED <<size, team, stop, job, pending, gemm, parallel, declined, computes, owner,
                     batches, ntasks>>,
         pc' \in [Threads -> Places],
         at' \in [Threads -> Nat], bar' \in [Threads -> Nat],
         region' \in [Threads -> {"none", "top", "middle", "bottom"}],
         failed' \in BOOLEAN, cells' \in [Cells -> {"stale", "zero", "value"}],
         ran' \in [Indices -> {0, 1}], result' \in {0, -1}
  PROVE  TypeOK'
BY DEF TypeOK

\* A member that moves in the exchange moves alone, and starts no batch.
LEMMA MoveFacts ==
  ASSUME IInv, NEW t \in Threads, pc[t] \in Exchange, NEW to, Goto(t, to), UNCHANGED stop
  PROVE  /\ pc'[t] = to /\ \A u \in Threads : u # t => pc'[u] = pc[u]
         /\ pc[0] # "idle" /\ pc[0] # "done"
         /\ InBatch' => InBatch
<1>1. pc' = [pc EXCEPT ![t] = to] /\ DOMAIN pc = Threads
  BY DEF Goto, IInv, TypeOK
<1>2. pc'[t] = to /\ \A u \in Threads : u # t => pc'[u] = pc[u]
  BY <1>1
<1>3. size > 0
  BY MemberFacts
<1>4. pc[0] # "idle" /\ pc[0] # "done"
  BY <1>3 DEF IInv, PlaceInv, MasterPlaces, Exchange, Waiting
<1>5. InBatch' => InBatch
  BY <1>2, ThreadFacts DEF InBatch
<1>6. QED
  BY <1>2, <1>4, <1>5

\* Arriving at the first barrier changes nobody's having finished the batch.
LEMMA TopFinishes ==
  ASSUME IInv, NEW t \in Threads, ArriveTop(t), NEW u \in Members
  PROVE  Finished(u)' <=> Finished(u)
<1>1. /\ t \in Members /\ 0 \in Members /\ size > 0 /\ t \in Threads /\ u \in Threads
      /\ region[t] \in {"none", "bottom"} /\ pc[t] \notin Waiting
  BY MemberFacts, ThreadFacts DEF ArriveTop, Arrive, Exchange, Waiting, IInv, RegionInv
<1>2. /\ bar'[t] = bar[t] + 1 /\ region'[t] = "top"
      /\ u # t => bar'[u] = bar[u] /\ region'[u] = region[u]
      /\ 0 # t => bar'[0] = bar[0]
  BY <1>1, ArriveFacts, ThreadFacts DEF ArriveTop, IInv
<1>3. pc'[t] = "wait top" /\ (0 # t => pc'[0] = pc[0])
  <2>1. pc' = [pc EXCEPT ![t] = "wait top"]
    BY DEF ArriveTop, Arrive, Goto
  <2>2. DOMAIN pc = Threads
    BY DEF IInv, TypeOK
  <2>3. QED
    BY <1>1, <2>1, <2>2, ThreadFacts
<1>4. bar[t] \in Nat /\ bar[u] \in Nat /\ bar[0] \in Nat /\ bar[t] <= bar[u] /\ bar[t] <= bar[0]
      /\ bar[u] <= bar[0] + 1
  BY <1>1, BarrierFacts DEF IInv, BarrierInv
<1>5. CASE t = 0
  <2>1. pc[0] \in Entrance /\ pc[0] # "wait bottom"
    BY <1>5 DEF ArriveTop, Arrive, Entrance
  <2>2. ~Finished(u)
    <3>1. bar[u] = bar[0] \/ region[u] = "top"
      BY <1>1, <2>1, MasterOutside
    <3>2. bar[u] = bar[0] => ~(bar[u] > bar[0])
      BY <1>4
    <3>3. QED
      BY <2>1, <3>1, <3>2 DEF Finished
  <2>3. ~Finished(u)'
    <3>1. region'[u] = "top" \/ ~(bar'[u] > bar'[0])
      BY <1>2, <1>4, <1>5
    <3>2. pc'[0] # "wait bottom"
      BY <1>5, <1>3
    <3>3. QED
      BY <3>1, <3>2 DEF Finished
  <2>4. QED
    BY <2>2, <2>3
<1>6. CASE t # 0 /\ u = t
  <2>1. CASE pc[0] = "wait bottom"
    <3>1. region[0] = "bottom"
      BY <1>1, <2>1 DEF IInv, RegionInv
    <3>2. bar[0] # bar[t] + 1
      <4>1. bar[0] = bar[t] + 1 => region[0] = "top"
        BY <1>1 DEF IInv, BarrierInv, After
      <4>2. QED
        BY <3>1, <4>1
    <3>3. bar[0] <= bar[t] + 1
      BY <1>1 DEF IInv, BarrierInv
    <3>4. bar[t] >= bar[0]
      BY <1>4, <3>2, <3>3
    <3>5. bar'[t] >= bar'[0]
      BY <1>2, <1>4, <1>6, <3>4
    <3>6. QED
      BY <1>6, <1>3, <2>1, <3>4, <3>5 DEF Finished
  <2>2. CASE pc[0] # "wait bottom"
    <3>1. ~(bar[t] > bar[0])
      BY <1>4
    <3>2. QED
      BY <1>2, <1>6, <1>3, <2>2, <3>1 DEF Finished
  <2>3. QED
    BY <2>1, <2>2
<1>7. CASE t # 0 /\ u # t
  BY <1>2, <1>7, <1>3 DEF Finished
<1>8. QED
  BY <1>5, <1>6, <1>7

\* Nor does arriving at the middle barrier.
LEMMA MiddleFinishes ==
  ASSUME IInv, NEW t \in Threads, ArriveMiddle(t), NEW u \in Members
  PROVE  Finished(u)' <=> Finished(u)
<1>1. /\ t \in Members /\ 0 \in Members /\ u \in Threads /\ pc[t] \notin Waiting
      /\ pc[0] # "wait bottom" /\ ~Finished(u)
  BY TouchFacts, MemberFacts, ThreadFacts DEF ArriveMiddle, Exchange, Waiting, IInv
<1>2. Arrive(t, "touch", "middle", "wait middle") /\ TypeOK /\ 0 \in Threads /\ u \in Threads
  BY ThreadFacts DEF ArriveMiddle, IInv
<1>3. /\ bar'[t] = bar[t] + 1 /\ region'[t] = "middle"
      /\ u # t => bar'[u] = bar[u] /\ region'[u] = region[u]
      /\ 0 # t => bar'[0] = bar[0]
  <2>1. bar' = [bar EXCEPT ![t] = @ + 1] /\ DOMAIN bar = Threads
    BY <1>2 DEF Arrive, TypeOK
  <2>2. region' = [region EXCEPT ![t] = "middle"] /\ DOMAIN region = Threads
    BY <1>2 DEF Arrive, TypeOK
  <2>3. bar'[t] = bar[t] + 1 /\ (u # t => bar'[u] = bar[u]) /\ (0 # t => bar'[0] = bar[0])
    BY ONLY <1>2, <2>1
  <2>4. region'[t] = "middle" /\ (u # t => region'[u] = region[u])
    BY ONLY <1>2, <2>2
  <2>5. QED
    BY <2>3, <2>4
<1>4. pc'[t] = "wait middle" /\ (0 # t => pc'[0] = pc[0])
  <2>1. pc' = [pc EXCEPT ![t] = "wait middle"]
    BY DEF ArriveMiddle, Arrive, Goto
  <2>2. DOMAIN pc = Threads
    BY DEF IInv, TypeOK
  <2>3. QED
    BY <1>1, <2>1, <2>2, ThreadFacts
<1>5. pc'[0] # "wait bottom"
  BY <1>1, <1>4
<1>6. bar[t] \in Nat /\ bar[0] \in Nat /\ bar[u] \in Nat
  BY <1>1, BarrierFacts
<1>7. bar'[u] > bar'[0] /\ u # t => bar[u] > bar[0]
  BY <1>3, <1>6
<1>8. QED
  BY <1>1, <1>3, <1>5, <1>7 DEF Finished

\* A member that arrives at the last barrier has finished, and changes nobody
\* else's having done so.
LEMMA BottomFinishes ==
  ASSUME IInv, NEW t \in Threads, ArriveBottom(t), NEW u \in Members
  PROVE  IF u = t THEN Finished(u)' ELSE Finished(u)' <=> Finished(u)
<1>1. /\ t \in Members /\ 0 \in Members /\ u \in Threads /\ pc[t] \notin Waiting
      /\ region[t] = (IF job.touch THEN "middle" ELSE "top") /\ After(region[t]) = "bottom"
  BY MemberFacts, ThreadFacts
     DEF ArriveBottom, Exchange, Waiting, IInv, RegionInv, After
<1>2. /\ bar'[t] = bar[t] + 1 /\ region'[t] = "bottom"
      /\ u # t => bar'[u] = bar[u] /\ region'[u] = region[u]
      /\ 0 # t => bar'[0] = bar[0]
  BY <1>1, ArriveFacts, ThreadFacts DEF ArriveBottom, IInv
<1>3. pc'[t] = "wait bottom" /\ (0 # t => pc'[0] = pc[0])
  <2>1. pc' = [pc EXCEPT ![t] = "wait bottom"]
    BY DEF ArriveBottom, Arrive, Goto
  <2>2. DOMAIN pc = Threads
    BY DEF IInv, TypeOK
  <2>3. QED
    BY <1>1, <2>1, <2>2, ThreadFacts
<1>4. /\ bar[t] \in Nat /\ bar[u] \in Nat /\ bar[0] \in Nat
      /\ bar[t] <= bar[u] /\ bar[u] <= bar[t] + 1
      /\ bar[t] <= bar[0] /\ bar[0] <= bar[t] + 1
  BY <1>1, BarrierFacts DEF IInv, BarrierInv
<1>5. CASE t = 0
  <2>1. u = t => bar'[u] >= bar'[0]
    BY <1>2, <1>4, <1>5
  <2>2. u # t => (bar'[u] >= bar'[0] <=> bar[u] > bar[0])
    BY <1>2, <1>4, <1>5
  <2>3. u # t /\ bar[u] > bar[0] => region[u] = "bottom"
    <3>1. bar[u] > bar[0] => bar[u] = bar[0] + 1
      BY <1>4, <1>5
    <3>2. QED
      BY <1>1, <1>5, <3>1 DEF IInv, BarrierInv
  <2>4. pc[0] # "wait bottom" /\ pc'[0] = "wait bottom"
    BY <1>5, <1>3 DEF ArriveBottom
  <2>5. QED
    BY <2>1, <2>2, <2>3, <2>4 DEF Finished
<1>6. CASE t # 0 /\ u = t
  <2>1. CASE pc[0] = "wait bottom"
    <3>1. bar'[t] >= bar'[0]
      BY <1>2, <1>4, <1>6
    <3>2. QED
      BY <1>6, <1>3, <2>1, <3>1 DEF Finished
  <2>2. CASE pc[0] # "wait bottom"
    <3>1. bar[0] # bar[t] + 1
      <4>1. SUFFICES ASSUME bar[0] = bar[t] + 1 PROVE FALSE
        OBVIOUS
      <4>2. region[0] = "bottom"
        BY <1>1, <4>1 DEF IInv, BarrierInv
      <4>3. ~(bar[0] <= bar[t])
        BY <1>4, <4>1
      <4>4. pc[0] \in Waiting
        BY <1>1, <4>3 DEF IInv, BarrierInv
      <4>5. QED
        BY <1>1, <2>2, <4>2, <4>4 DEF IInv, RegionInv, Waiting
    <3>2. bar'[t] > bar'[0]
      BY <1>2, <1>4, <1>6, <3>1
    <3>3. QED
      BY <1>2, <1>6, <1>3, <2>2, <3>2 DEF Finished
  <2>3. QED
    BY <2>1, <2>2
<1>7. CASE t # 0 /\ u # t
  BY <1>2, <1>7, <1>3 DEF Finished
<1>8. QED
  BY <1>5, <1>6, <1>7

\* When the master passes the last barrier every task has run.
LEMMA BatchDone ==
  ASSUME IInv, PassBottom(0)
  PROVE  ran = AllRun(ntasks) /\ ntasks \in Sizes /\ ntasks \in Nat
<1>1. 0 \in Members /\ size > 0 /\ size \in Nat
  BY MemberFacts, ThreadFacts DEF PassBottom, Exchange, Waiting, IInv
<1>2. InBatch /\ job.n = ntasks /\ ntasks > 0
  BY DEF PassBottom, IInv, PlaceInv, JobInv, InBatch, Exchange, Waiting
<1>3. ntasks \in Sizes /\ ntasks \in Nat
  <2>1. ntasks \in Sizes \union {0}
    BY DEF IInv, TypeOK
  <2>2. QED
    BY <1>2, <2>1, SizeFacts
<1>4. \A u \in Members : Finished(u)
  BY <1>1 DEF PassBottom, AllArrived, Finished
<1>5. ASSUME NEW k \in Indices PROVE ran[k] = AllRun(ntasks)[k]
  <2>1. k \in Nat
    BY SizeFacts
  <2>2. CASE k < ntasks
    <3>1. PICK u \in Members : k \in Slice(u, job.n, size)
      <4>1. k \in 0 .. ntasks - 1
        BY <1>3, <2>1, <2>2
      <4>2. QED
        BY <1>1, <1>2, <1>3, <4>1, SlicesCover DEF Members
    <3>2. HasRun(u, k)
      BY <1>4, <3>1 DEF HasRun
    <3>3. QED
      BY <1>2, <2>2, <3>2 DEF IInv, RanInv, AllRun
  <2>3. CASE ~(k < ntasks)
    <3>1. \A u \in Members : k \notin Slice(u, job.n, size)
      BY <1>2, <1>3, <2>1, <2>3, SliceFacts DEF IInv, Slice
    <3>2. QED
      BY <1>2, <2>3, <3>1 DEF IInv, RanInv, HasRun, AllRun
  <2>4. QED
    BY <2>2, <2>3
<1>6. ran \in [Indices -> {0, 1}] /\ AllRun(ntasks) \in [Indices -> {0, 1}]
  BY RanTypes DEF IInv, TypeOK
<1>7. QED
  BY <1>3, <1>5, <1>6

\* The invariant holds initially.
LEMMA InitIInv == Init => IInv
<1> SUFFICES ASSUME Init PROVE IInv
  OBVIOUS
<1>1. TypeOK
  <2>1. size \in 0 .. N /\ batches \in 0 .. Batches /\ ran \in [Indices -> {0, 1}]
    BY TeamAssumption, RanTypes DEF Init
  <2>2. pc \in [Threads -> Places] /\ owner \in Nat
    BY DEF Init, Places
  <2>3. job \in [n : Sizes \union {0}, touch : BOOLEAN]
    BY DEF Init
  <2>4. QED
    BY <2>1, <2>2, <2>3 DEF Init, TypeOK
<1>2. Members = {} /\ RegionInv /\ BarrierInv
  BY NoTeam DEF Init
<1>3. PlaceInv
  <2>1. pc[0] \in MasterPlaces
    BY ThreadFacts DEF Init, MasterPlaces
  <2>2. \A t \in Threads \ {0} : pc[t] = "absent"
    BY DEF Init
  <2>3. ~team /\ ~stop /\ ~(size > 0)
    BY DEF Init
  <2>4. QED
    BY <1>2, <2>1, <2>2, <2>3 DEF PlaceInv
<1>4. JobInv
  BY ThreadFacts DEF Init, JobInv, InBatch, Exchange, Waiting
<1>5. RanInv
  BY <1>2, ThreadFacts DEF Init, RanInv, InBatch, Exchange, Waiting
<1>6. CellInv
  BY ThreadFacts DEF Init, CellInv, InBatch, Exchange, Waiting, Computed
<1>7. QED
  BY <1>1, <1>2, <1>3, <1>4, <1>5, <1>6 DEF IInv

\* A GEMM begins without a team.
LEMMA BeginGemmInv ==
  ASSUME IInv, NEW g \in {"classical", "shared", "separate"}, NEW touch \in BOOLEAN,
         NEW par \in BOOLEAN, BeginGemm(g, touch, par)
  PROVE  IInv'
<1> USE ThreadFacts DEF BeginGemm, Goto, teamVars, barVars, gemmVars, callVars
<1>1. TypeOK'
  BY TeamAssumption, SizeFacts, RanTypes DEF IInv, TypeOK, JobInv, InRun, Places
<1>2. PlaceInv'
  BY DEF IInv, TypeOK, PlaceInv, MasterPlaces, Members, Exchange, Waiting
<1>3. RegionInv'
  <2>1. size = 0
    BY AloneFacts
  <2>2. Members' = {}
    BY <2>1 DEF Members
  <2>3. QED
    BY <2>2 DEF RegionInv
<1>4. BarrierInv'
  <2>1. size = 0
    BY AloneFacts
  <2>2. Members' = {}
    BY <2>1 DEF Members
  <2>3. QED
    BY <2>2 DEF BarrierInv
<1>5. JobInv'
  BY SizeFacts DEF IInv, TypeOK, PlaceInv, JobInv, InBatch, Exchange, Waiting
<1>6. RanInv'
  BY DEF IInv, TypeOK, PlaceInv, RanInv, InBatch, HasRun, Finished, Members, Exchange, Waiting
<1>7. CellInv'
  BY DEF IInv, TypeOK, PlaceInv, JobInv, CellInv, InBatch, Computed, Exchange, Waiting
<1>8. QED
  BY <1>1, <1>2, <1>3, <1>4, <1>5, <1>6, <1>7 DEF IInv

\* The members of a new team have met at no barrier.
LEMMA ForkInv ==
  ASSUME IInv, NEW s \in 1 .. N, Fork(s)
  PROVE  IInv'
<1> USE ThreadFacts DEF Fork, Goto, teamVars, barVars, gemmVars, callVars
<1>1. size = 0 /\ s \in Nat /\ s > 0 /\ s <= N /\ Members' = 0 .. s - 1 /\ ~computes
  <2>1. size = 0
    BY AloneFacts
  <2>2. s \in Nat /\ s > 0 /\ s <= N
    BY TeamAssumption
  <2>3. Members' = 0 .. s - 1
    BY DEF Members
  <2>4. QED
    BY <2>1, <2>2, <2>3 DEF IInv, CellInv
<1>2. TypeOK'
  <2>1. size' \in 0 .. N
    BY <1>1, TeamAssumption
  <2>2. pc' \in [Threads -> Places]
    BY DEF InRun, Places
  <2>3. bar' \in [Threads -> Nat] /\ region' \in [Threads -> {"none", "top", "middle", "bottom"}]
    OBVIOUS
  <2>4. QED
    BY <2>1, <2>2, <2>3 DEF IInv, TypeOK
<1>3. PlaceInv'
  <2>1. team' /\ ~stop' /\ size' > 0 /\ pc'[0] = "ready"
    BY <1>1
  <2>2. \A t \in Threads \ {0} : pc'[t] = IF t \in Members' THEN "top" ELSE "absent"
    BY <1>1, TeamAssumption DEF Threads
  <2>3. \A t \in Members' : pc'[t] \in {"ready", "top"}
    BY <1>1, TeamAssumption DEF Threads
  <2>4. QED
    BY <2>1, <2>2, <2>3 DEF PlaceInv, MasterPlaces, Exchange
<1>4. RegionInv'
  <2>1. \A t \in Members' : pc'[t] \in {"ready", "top"} /\ region'[t] = "none"
    BY <1>1, TeamAssumption DEF Threads
  <2>2. QED
    BY <2>1 DEF RegionInv
<1>5. BarrierInv'
  <2>1. \A t \in Members' : bar'[t] = 0 /\ region'[t] = "none"
    BY <1>1, TeamAssumption DEF Threads
  <2>2. QED
    BY <2>1 DEF BarrierInv
<1>6. JobInv'
  BY <1>1, SizeFacts DEF IInv, TypeOK, PlaceInv, JobInv, InBatch, Exchange, Waiting
<1>7. RanInv'
  <2>1. \A t \in Members' : pc'[t] \in {"ready", "top"}
    BY <1>1, TeamAssumption DEF Threads
  <2>2. pc'[0] = "ready"
    OBVIOUS
  <2>3. QED
    BY <2>1, <2>2 DEF RanInv, InBatch, Exchange, Waiting
<1>8. CellInv'
  <2>1. pc'[0] = "ready" /\ ~stop' /\ ~computes' /\ size' > 0
    BY <1>1
  <2>2. QED
    BY <2>1 DEF CellInv, InBatch, Exchange, Waiting
<1>9. QED
  BY <1>2, <1>3, <1>4, <1>5, <1>6, <1>7, <1>8 DEF IInv

\* A kernel declines only a team that is too small.
LEMMA DeclineInv ==
  ASSUME IInv, Decline
  PROVE  IInv'
<1> USE ThreadFacts DEF Decline, Goto, teamVars, barVars, gemmVars, callVars
<1>1. TypeOK'
  BY TeamAssumption, SizeFacts, RanTypes DEF IInv, TypeOK, JobInv, InRun, Places
<1>2. PlaceInv'
  BY DEF IInv, TypeOK, PlaceInv, MasterPlaces, Members, Exchange, Waiting
<1>3. RegionInv'
  BY DEF IInv, TypeOK, PlaceInv, RegionInv, MasterPlaces, Members, Exchange, Waiting
<1>4. BarrierInv'
  <2>1. \A t \in Members : pc'[t] \in Waiting <=> pc[t] \in Waiting
    BY DEF IInv, TypeOK, Waiting
  <2>2. QED
    BY <2>1, BarriersStable
<1>5. JobInv'
  BY SizeFacts DEF IInv, TypeOK, PlaceInv, JobInv, InBatch, Exchange, Waiting
<1>6. RanInv'
  BY DEF IInv, TypeOK, PlaceInv, RanInv, InBatch, HasRun, Finished, Members, Exchange, Waiting
<1>7. CellInv'
  BY DEF IInv, TypeOK, PlaceInv, JobInv, CellInv, InBatch, Computed, Exchange, Waiting
<1>8. QED
  BY <1>1, <1>2, <1>3, <1>4, <1>5, <1>6, <1>7 DEF IInv

\* A call begins with nothing run.
LEMMA CallInv ==
  ASSUME IInv, NEW n \in Sizes, NEW c \in BOOLEAN, NEW o \in 0 .. N, Call(n, c, o)
  PROVE  IInv'
<1> USE ThreadFacts DEF Call, Goto, teamVars, barVars, gemmVars, callVars
<1>1. n \in Nat /\ o \in Nat /\ batches < Batches /\ batches \in Nat
  BY SizeFacts, TeamAssumption DEF IInv, TypeOK, JobInv
<1>2. TypeOK'
  <2>1. batches' \in 0 .. Batches
    BY <1>1, TeamAssumption DEF IInv, TypeOK
  <2>2. pc' \in [Threads -> Places]
    BY DEF IInv, TypeOK, InRun, Places
  <2>3. QED
    BY <1>1, <2>1, <2>2, RanTypes DEF IInv, TypeOK
<1>3. PlaceInv'
  BY <1>1 DEF IInv, TypeOK, PlaceInv, MasterPlaces, Members, Exchange, Waiting
<1>4. RegionInv'
  BY <1>1 DEF IInv, TypeOK, PlaceInv, RegionInv, MasterPlaces, Members, Exchange, Waiting
<1>5. BarrierInv'
  <2>1. \A t \in Members : pc'[t] \in Waiting <=> pc[t] \in Waiting
    BY DEF IInv, TypeOK, Waiting
  <2>2. QED
    BY <2>1, BarriersStable
<1>6. JobInv'
  <2>1. pc'[0] = "enter" /\ (computes' <=> c) /\ owner' = o /\ ntasks' = n
    BY DEF IInv, TypeOK
  <2>2. c => o < n
    BY <1>1
  <2>3. ~c => batches' < Batches
    BY <1>1
  <2>4. QED
    BY <2>1, <2>2, <2>3 DEF JobInv, InBatch, Exchange, Waiting
<1>7. RanInv'
  BY <1>1 DEF IInv, TypeOK, PlaceInv, RanInv, InBatch, HasRun, Finished, Members, Exchange, Waiting
<1>8. CellInv'
  BY <1>1 DEF IInv, TypeOK, PlaceInv, JobInv, CellInv, InBatch, Computed, Exchange, Waiting
<1>9. QED
  BY <1>2, <1>3, <1>4, <1>5, <1>6, <1>7, <1>8 DEF IInv

\* The batches end when C is computed or a batch has failed.
LEMMA EndBatchesInv ==
  ASSUME IInv, EndBatches
  PROVE  IInv'
<1> USE ThreadFacts DEF EndBatches, Goto, teamVars, barVars, gemmVars, callVars
<1>1. TypeOK'
  <2>1. pc' \in [Threads -> Places]
    BY DEF IInv, TypeOK, InRun, Places
  <2>2. QED
    BY <2>1 DEF IInv, TypeOK
<1>2. PlaceInv'
  BY DEF IInv, TypeOK, PlaceInv, MasterPlaces, Members, Exchange, Waiting
<1>3. RegionInv'
  BY DEF IInv, TypeOK, PlaceInv, RegionInv, MasterPlaces, Members, Exchange, Waiting
<1>4. BarrierInv'
  <2>1. \A t \in Members : pc'[t] \in Waiting <=> pc[t] \in Waiting
    BY DEF IInv, TypeOK, Waiting
  <2>2. QED
    BY <2>1, BarriersStable
<1>5. JobInv'
  BY SizeFacts DEF IInv, TypeOK, PlaceInv, JobInv, InBatch, Exchange, Waiting
<1>6. RanInv'
  BY DEF IInv, TypeOK, PlaceInv, RanInv, InBatch, HasRun, Finished, Members, Exchange, Waiting
<1>7. CellInv'
  BY DEF IInv, TypeOK, PlaceInv, JobInv, CellInv, InBatch, Computed, Exchange, Waiting
<1>8. QED
  BY <1>1, <1>2, <1>3, <1>4, <1>5, <1>6, <1>7 DEF IInv

\* Nobody is between the barriers when the team is told to stop.
LEMMA StopTeamInv ==
  ASSUME IInv, StopTeam
  PROVE  IInv'
<1> USE ThreadFacts DEF StopTeam, Goto, teamVars, barVars, gemmVars, callVars
<1>1. TypeOK'
  <2>1. pc' \in [Threads -> Places]
    BY DEF IInv, TypeOK, InRun, Places
  <2>2. QED
    BY <2>1 DEF IInv, TypeOK
<1>2. PlaceInv'
  <2>1. size > 0 /\ pc[0] \in Entrance
    BY DEF IInv, TypeOK, PlaceInv, Entrance
  <2>2. pc' = [pc EXCEPT ![0] = "top"] /\ pc'[0] = "top" /\ stop' /\ team' /\ Members' = Members
    BY DEF IInv, TypeOK, Members
  <2>3. \A t \in Members : t # 0 => pc'[t] \in {"top", "wait top", "wait bottom"}
    BY <2>1, <2>2, MasterOutside DEF IInv, TypeOK
  <2>4. \A t \in Threads \ {0} : pc'[t] = pc[t]
    BY <2>2 DEF IInv, TypeOK
  <2>5. QED
    BY <2>1, <2>2, <2>3, <2>4 DEF IInv, PlaceInv, MasterPlaces, Exchange
<1>3. RegionInv'
  BY DEF IInv, TypeOK, PlaceInv, RegionInv, MasterPlaces, Members, Exchange, Waiting
<1>4. BarrierInv'
  <2>1. \A t \in Members : pc'[t] \in Waiting <=> pc[t] \in Waiting
    BY DEF IInv, TypeOK, Waiting
  <2>2. QED
    BY <2>1, BarriersStable
<1>5. JobInv'
  BY SizeFacts DEF IInv, TypeOK, PlaceInv, JobInv, InBatch, Exchange, Waiting
<1>6. RanInv'
  BY DEF IInv, TypeOK, PlaceInv, RanInv, InBatch, HasRun, Finished, Members, Exchange, Waiting
<1>7. CellInv'
  BY DEF IInv, TypeOK, PlaceInv, JobInv, CellInv, InBatch, Computed, Exchange, Waiting
<1>8. QED
  BY <1>1, <1>2, <1>3, <1>4, <1>5, <1>6, <1>7 DEF IInv

\* The region ends with everybody out of it.
LEMMA JoinTeamInv ==
  ASSUME IInv, JoinTeam
  PROVE  IInv'
<1> USE ThreadFacts DEF JoinTeam, Goto, teamVars, barVars, gemmVars, callVars
<1>1. Members' = {} /\ size' = 0
  BY DEF Members
<1>2. TypeOK'
  <2>1. pc' \in [Threads -> Places]
    BY DEF Places
  <2>2. size' \in 0 .. N /\ failed' \in BOOLEAN
    BY TeamAssumption DEF IInv, TypeOK
  <2>3. QED
    BY <2>1, <2>2 DEF IInv, TypeOK
<1>3. PlaceInv'
  <2>1. pc'[0] = "return" /\ ~team' /\ ~stop' /\ ~(size' > 0)
    OBVIOUS
  <2>2. \A t \in Threads \ {0} : pc'[t] = "absent"
    OBVIOUS
  <2>3. QED
    BY <1>1, <2>1, <2>2 DEF PlaceInv, MasterPlaces
<1>4. RegionInv'
  BY <1>1 DEF RegionInv
<1>5. BarrierInv'
  BY <1>1 DEF BarrierInv
<1>6. JobInv'
  BY <1>1, SizeFacts DEF IInv, TypeOK, PlaceInv, JobInv, InBatch, Exchange, Waiting
<1>7. RanInv'
  <2>1. pc'[0] = "return"
    OBVIOUS
  <2>2. QED
    BY <1>1, <2>1 DEF RanInv, InBatch, Exchange, Waiting
<1>8. CellInv'
  <2>1. pc'[0] = "return" /\ ~stop' /\ UNCHANGED <<computes, cells, gemm>>
    OBVIOUS
  <2>2. stop
    <3>1. 0 \in Members
      BY DEF IInv, PlaceInv, MasterPlaces
    <3>2. QED
      BY <3>1 DEF IInv, PlaceInv
  <2>3. computes \/ failed'
    BY <2>2 DEF IInv, CellInv
  <2>4. computes => Computed'
    BY <2>2 DEF IInv, CellInv, Computed
  <2>5. QED
    BY <2>1, <2>3, <2>4 DEF CellInv, InBatch, Exchange, Waiting
<1>9. QED
  BY <1>2, <1>3, <1>4, <1>5, <1>6, <1>7, <1>8 DEF IInv

\* Without a team there is nothing to stop.
LEMMA EndWithoutTeamInv ==
  ASSUME IInv, EndWithoutTeam
  PROVE  IInv'
<1> USE ThreadFacts DEF EndWithoutTeam, Goto, teamVars, barVars, gemmVars, callVars
<1>1. TypeOK'
  <2>1. pc' \in [Threads -> Places]
    BY DEF IInv, TypeOK, InRun, Places
  <2>2. QED
    BY <2>1 DEF IInv, TypeOK
<1>2. PlaceInv'
  BY DEF IInv, TypeOK, PlaceInv, MasterPlaces, Members, Exchange, Waiting
<1>3. RegionInv'
  BY DEF IInv, TypeOK, PlaceInv, RegionInv, MasterPlaces, Members, Exchange, Waiting
<1>4. BarrierInv'
  <2>1. \A t \in Members : pc'[t] \in Waiting <=> pc[t] \in Waiting
    BY DEF IInv, TypeOK, Waiting
  <2>2. QED
    BY <2>1, BarriersStable
<1>5. JobInv'
  BY SizeFacts DEF IInv, TypeOK, PlaceInv, JobInv, InBatch, Exchange, Waiting
<1>6. RanInv'
  BY DEF IInv, TypeOK, PlaceInv, RanInv, InBatch, HasRun, Finished, Members, Exchange, Waiting
<1>7. CellInv'
  BY DEF IInv, TypeOK, PlaceInv, JobInv, CellInv, InBatch, Computed, Exchange, Waiting
<1>8. QED
  BY <1>1, <1>2, <1>3, <1>4, <1>5, <1>6, <1>7 DEF IInv

\* A GEMM returns with C computed, or aborts.
LEMMA ReturnGemmInv ==
  ASSUME IInv, ReturnGemm
  PROVE  IInv'
<1> USE ThreadFacts DEF ReturnGemm, Goto, teamVars, barVars, gemmVars, callVars
<1>1. TypeOK'
  <2>1. pc' \in [Threads -> Places]
    BY DEF IInv, TypeOK, InRun, Places
  <2>2. pending' \in BOOLEAN
    OBVIOUS
  <2>3. QED
    BY <2>1, <2>2 DEF IInv, TypeOK
<1>2. PlaceInv'
  BY DEF IInv, TypeOK, PlaceInv, MasterPlaces, Members, Exchange, Waiting
<1>3. RegionInv'
  BY DEF IInv, TypeOK, PlaceInv, RegionInv, MasterPlaces, Members, Exchange, Waiting
<1>4. BarrierInv'
  <2>1. \A t \in Members : pc'[t] \in Waiting <=> pc[t] \in Waiting
    BY DEF IInv, TypeOK, Waiting
  <2>2. QED
    BY <2>1, BarriersStable
<1>5. JobInv'
  BY SizeFacts DEF IInv, TypeOK, PlaceInv, JobInv, InBatch, Exchange, Waiting
<1>6. RanInv'
  BY DEF IInv, TypeOK, PlaceInv, RanInv, InBatch, HasRun, Finished, Members, Exchange, Waiting
<1>7. CellInv'
  BY DEF IInv, TypeOK, PlaceInv, JobInv, CellInv, InBatch, Computed, Exchange, Waiting
<1>8. QED
  BY <1>1, <1>2, <1>3, <1>4, <1>5, <1>6, <1>7 DEF IInv

\* An empty batch computes nothing.
LEMMA ReturnEmptyInv ==
  ASSUME IInv, ReturnEmpty
  PROVE  IInv'
<1> USE ThreadFacts DEF ReturnEmpty, Goto, teamVars, barVars, gemmVars, callVars, Return
<1>1. TypeOK'
  BY TeamAssumption, SizeFacts, RanTypes DEF IInv, TypeOK, JobInv, InRun, Places
<1>2. PlaceInv'
  BY DEF IInv, TypeOK, PlaceInv, MasterPlaces, Members, Exchange, Waiting
<1>3. RegionInv'
  BY DEF IInv, TypeOK, PlaceInv, RegionInv, MasterPlaces, Members, Exchange, Waiting
<1>4. BarrierInv'
  <2>1. \A t \in Members : pc'[t] \in Waiting <=> pc[t] \in Waiting
    BY DEF IInv, TypeOK, Waiting
  <2>2. QED
    BY <2>1, BarriersStable
<1>5. JobInv'
  BY SizeFacts DEF IInv, TypeOK, PlaceInv, JobInv, InBatch, Exchange, Waiting
<1>6. RanInv'
  BY DEF IInv, TypeOK, PlaceInv, RanInv, InBatch, HasRun, Finished, Members, Exchange, Waiting
<1>7. CellInv'
  <2>1. pc'[0] = "ready" /\ UNCHANGED <<computes, cells, gemm, size, stop>>
    BY DEF IInv, TypeOK
  <2>2. ~computes
    <3>1. ~(owner < ntasks)
      BY SizeFacts DEF IInv, TypeOK
    <3>2. QED
      BY <3>1 DEF IInv, JobInv
  <2>3. ~stop /\ (gemm = "shared" => size > 0)
    BY DEF IInv, PlaceInv, CellInv
  <2>4. ~InBatch'
    BY <2>1 DEF InBatch, Exchange, Waiting
  <2>5. QED
    BY <2>1, <2>2, <2>3, <2>4 DEF CellInv
<1>8. QED
  BY <1>1, <1>2, <1>3, <1>4, <1>5, <1>6, <1>7 DEF IInv

\* Publishing finds every other member outside the batch.
LEMMA PublishInv ==
  ASSUME IInv, Publish
  PROVE  IInv'
<1> USE ThreadFacts DEF Publish, Goto, teamVars, barVars, gemmVars, callVars
<1>1. /\ size > 0 /\ pc[0] \in Entrance /\ pc' = [pc EXCEPT ![0] = "top"] /\ pc'[0] = "top" /\ ~stop
      /\ ntasks \in Nat /\ ntasks > 0 /\ job' = [n |-> ntasks, touch |-> pending]
      /\ Members' = Members
  <2>1. size > 0 /\ ~stop
    BY DEF IInv, PlaceInv
  <2>2. pc[0] \in Entrance /\ pc' = [pc EXCEPT ![0] = "top"] /\ pc'[0] = "top"
    BY DEF IInv, TypeOK, Entrance
  <2>3. ntasks \in Nat /\ ntasks > 0
    BY SizeFacts DEF IInv, TypeOK
  <2>4. QED
    BY <2>1, <2>2, <2>3 DEF Members
<1>2. TypeOK'
  <2>1. job' \in [n : Sizes \union {0}, touch : BOOLEAN]
    BY DEF IInv, TypeOK
  <2>2. pc' \in [Threads -> Places]
    BY DEF IInv, TypeOK, InRun, Places
  <2>3. QED
    BY <2>1, <2>2 DEF IInv, TypeOK
<1>3. PlaceInv'
  BY <1>1 DEF IInv, TypeOK, PlaceInv, MasterPlaces, Members, Exchange, Waiting
<1>4. RegionInv'
  <2>1. \A t \in Members : t # 0 => pc'[t] = pc[t] /\ pc[t] \in {"top", "wait top", "wait bottom"}
    BY <1>1, MasterOutside DEF IInv, TypeOK
  <2>2. \A t \in Members : pc[t] \in {"top", "wait top", "wait bottom"} =>
          /\ pc[t] = "top" => region[t] \in {"none", "bottom"}
          /\ pc[t] = "wait top" => region[t] = "top"
          /\ pc[t] = "wait bottom" => region[t] = "bottom"
    BY DEF IInv, RegionInv
  <2>3. 0 \in Members /\ region[0] \in {"none", "bottom"}
    BY <1>1 DEF IInv, RegionInv
  <2>4. \A t \in Members :
          \/ pc'[t] = "top" /\ region[t] \in {"none", "bottom"}
          \/ pc'[t] = "wait top" /\ region[t] = "top"
          \/ pc'[t] = "wait bottom" /\ region[t] = "bottom"
    BY <1>1, <2>1, <2>2, <2>3
  <2>5. UNCHANGED region
    OBVIOUS
  <2>6. QED
    BY <1>1, <2>4, <2>5 DEF RegionInv
<1>5. BarrierInv'
  <2>1. UNCHANGED <<bar, region>>
    OBVIOUS
  <2>2. \A t \in Members : pc'[t] \in Waiting <=> pc[t] \in Waiting
    BY <1>1 DEF IInv, TypeOK, Waiting, Entrance
  <2>3. ASSUME NEW t \in Members, NEW u \in Members, bar[t] = bar[u] + 1
        PROVE  region[t] = After(region[u])'
    <3>1. bar[t] \in Nat /\ bar[u] \in Nat /\ bar[0] \in Nat /\ 0 \in Members
      BY <1>1, BarrierFacts DEF IInv
    <3>2. /\ bar[t] = bar[0] \/ (bar[t] = bar[0] + 1 /\ region[t] = "top")
          /\ \/ bar[u] = bar[0] /\ region[u] \in {"none", "bottom"}
             \/ bar[u] = bar[0] + 1
      BY <1>1, MasterOutside
    <3>3. region[u] \in {"none", "bottom"} /\ region[t] = "top"
      BY <2>3, <3>1, <3>2
    <3>4. QED
      BY <3>3 DEF After
  <2>4. QED
    BY <1>1, <2>1, <2>2, <2>3 DEF IInv, BarrierInv
<1>6. JobInv'
  <2>1. computes => owner < ntasks
    BY DEF IInv, JobInv
  <2>2. ~computes => batches < Batches
    BY DEF IInv, JobInv
  <2>3. job'.n = ntasks /\ UNCHANGED <<computes, owner, ntasks, batches>>
    BY <1>1
  <2>4. QED
    BY <1>1, <2>1, <2>2, <2>3 DEF JobInv
<1>7. RanInv'
  <2>1. ran = NotRun /\ ran' = ran
    BY DEF IInv, RanInv
  <2>2. \A t \in Members : pc'[t] # "task"
    <3>1. \A t \in Members : t # 0 => pc'[t] = pc[t] /\ pc[t] \in {"top", "wait top", "wait bottom"}
      BY <1>1, MasterOutside DEF IInv, TypeOK
    <3>2. QED
      BY <1>1, <3>1
  <2>3. ASSUME NEW t \in Members PROVE ~Finished(t)'
    <3>1. region[t] = "bottom" => bar[t] = bar[0]
      BY <1>1, MasterOutside
    <3>2. ~(bar[0] > bar[0])
      BY DEF IInv, TypeOK
    <3>3. region'[t] = region[t] /\ bar'[t] = bar[t] /\ bar'[0] = bar[0]
      OBVIOUS
    <3>4. ~(region'[t] = "bottom" /\ bar'[t] > bar'[0])
      BY <3>1, <3>2, <3>3
    <3>5. QED
      BY <1>1, <3>4 DEF Finished
  <2>4. QED
    BY <1>1, <2>1, <2>2, <2>3 DEF RanInv, HasRun, NotRun
<1>8. CellInv'
  <2>1. computes => ran[owner] = 0
    <3>1. computes => owner < ntasks
      BY DEF IInv, JobInv
    <3>2. ntasks \in Sizes /\ owner \in Nat
      BY <1>1 DEF IInv, TypeOK
    <3>3. computes => owner \in Indices
      BY <3>1, <3>2, SizeFacts
    <3>4. QED
      BY <3>3 DEF IInv, RanInv, NotRun
  <2>2. UNCHANGED <<computes, ran, owner, gemm, size, stop>>
    OBVIOUS
  <2>3. QED
    BY <1>1, <2>1, <2>2 DEF CellInv, InBatch
<1>9. QED
  BY <1>2, <1>3, <1>4, <1>5, <1>6, <1>7, <1>8 DEF IInv

\* A batch without a team has run everything when it is done.
LEMMA RunAloneInv ==
  ASSUME IInv, NEW s \in 1 .. N, RunAlone(s)
  PROVE  IInv'
<1> USE ThreadFacts DEF RunAlone, Goto, teamVars, barVars, gemmVars, callVars
<1>1. ntasks \in Nat /\ ntasks > 0 /\ size = 0 /\ ~stop /\ pc'[0] = "done"
  <2>1. ntasks \in Nat /\ ntasks > 0
    BY SizeFacts DEF IInv, TypeOK
  <2>2. size = 0 /\ ~stop
    BY AloneFacts
  <2>3. QED
    BY <2>1, <2>2 DEF IInv, TypeOK
<1>2. TypeOK'
  <2>1. pc' \in [Threads -> Places]
    BY DEF IInv, TypeOK, InRun, Places
  <2>2. ran' \in [Indices -> {0, 1}] /\ failed' \in BOOLEAN
    BY RanTypes
  <2>3. cells' \in [Cells -> {"stale", "zero", "value"}]
    BY DEF IInv, TypeOK
  <2>4. QED
    BY <2>1, <2>2, <2>3 DEF IInv, TypeOK
<1>3. PlaceInv'
  BY <1>1 DEF IInv, TypeOK, PlaceInv, MasterPlaces, Members, Exchange, Waiting
<1>4. RegionInv'
  BY <1>1 DEF IInv, TypeOK, PlaceInv, RegionInv, MasterPlaces, Members, Exchange, Waiting
<1>5. BarrierInv'
  <2>1. \A t \in Members : pc'[t] \in Waiting <=> pc[t] \in Waiting
    BY DEF IInv, TypeOK, Waiting
  <2>2. QED
    BY <2>1, BarriersStable
<1>6. JobInv'
  <2>1. ~computes => batches < Batches
    BY DEF IInv, JobInv
  <2>2. UNCHANGED <<computes, ntasks, batches>>
    OBVIOUS
  <2>3. ~InBatch'
    BY <1>1 DEF InBatch, Exchange, Waiting
  <2>4. QED
    BY <1>1, <2>1, <2>2, <2>3 DEF JobInv
<1>7. RanInv'
  BY <1>1 DEF IInv, TypeOK, PlaceInv, RanInv, InBatch, HasRun, Finished, Members, Exchange, Waiting
<1>8. CellInv'
  BY <1>1 DEF IInv, TypeOK, PlaceInv, JobInv, CellInv, InBatch, Computed, Exchange, Waiting
<1>9. QED
  BY <1>2, <1>3, <1>4, <1>5, <1>6, <1>7, <1>8 DEF IInv

\* It reports a region that was too small.
LEMMA ReturnAloneInv ==
  ASSUME IInv, ReturnAlone
  PROVE  IInv'
<1> USE ThreadFacts DEF ReturnAlone, Goto, teamVars, barVars, gemmVars, callVars, Return
<1>1. size = 0 /\ ~stop /\ pc'[0] = "ready" /\ ~InBatch'
  BY AloneFacts DEF IInv, TypeOK, InBatch, Exchange, Waiting
<1>2. TypeOK'
  BY <1>1, TeamAssumption, SizeFacts, RanTypes DEF IInv, TypeOK, JobInv, InRun, Places
<1>3. PlaceInv'
  BY <1>1 DEF IInv, TypeOK, PlaceInv, MasterPlaces, Members, Exchange, Waiting
<1>4. RegionInv'
  <2>1. Members' = {}
    BY <1>1 DEF Members
  <2>2. QED
    BY <2>1 DEF RegionInv
<1>5. BarrierInv'
  <2>1. \A t \in Members : pc'[t] \in Waiting <=> pc[t] \in Waiting
    BY DEF IInv, TypeOK, Waiting
  <2>2. QED
    BY <2>1, BarriersStable
<1>6. JobInv'
  BY <1>1, SizeFacts DEF IInv, TypeOK, PlaceInv, JobInv, InBatch, Exchange, Waiting
<1>7. RanInv'
  BY <1>1 DEF IInv, TypeOK, PlaceInv, RanInv, InBatch, HasRun, Finished, Members, Exchange, Waiting
<1>8. CellInv'
  <2>1. computes => Computed'
    BY DEF IInv, CellInv, Computed
  <2>2. gemm' = "shared" => size' > 0
    BY DEF IInv, CellInv
  <2>3. stop' = FALSE /\ (computes' <=> computes)
    BY <1>1
  <2>4. QED
    BY <1>1, <2>1, <2>2, <2>3 DEF CellInv
<1>9. QED
  BY <1>2, <1>3, <1>4, <1>5, <1>6, <1>7, <1>8 DEF IInv

\* A member that arrives at the first barrier is at most one ahead.
LEMMA ArriveTopInv ==
  ASSUME IInv, NEW t \in Threads, ArriveTop(t)
  PROVE  IInv'
<1> USE ThreadFacts DEF ArriveTop, Goto, teamVars, barVars, gemmVars, callVars, Arrive
<1>1. t \in Members /\ 0 \in Members /\ size > 0 /\ Members' = Members
  BY MemberFacts DEF Exchange, Waiting, Members, AllArrived
<1>2. /\ \A u \in Threads : u # t => pc'[u] = pc[u]
      /\ pc[0] # "idle" /\ pc[0] # "done" /\ (InBatch' => InBatch)
  <2>1. pc[t] \in Exchange
    BY DEF Exchange, Waiting
  <2>2. \E to : Goto(t, to)
    OBVIOUS
  <2>3. QED
    BY <2>1, <2>2, MoveFacts
<1>3. TypeOK'
  <2>1. Arrive(t, "top", "top", "wait top") /\ "wait top" \in InRun
    BY DEF InRun, Places
  <2>2. /\ bar' \in [Threads -> Nat] /\ region' \in [Threads -> {"none", "top", "middle", "bottom"}]
        /\ pc' \in [Threads -> Places]
    BY <2>1, ArriveTypes DEF IInv
  <2>3. /\ at' \in [Threads -> Nat] /\ failed' \in BOOLEAN /\ ran' \in [Indices -> {0, 1}]
        /\ cells' \in [Cells -> {"stale", "zero", "value"}] /\ result' \in {0, -1}
    BY DEF IInv, TypeOK
  <2>4. QED
    BY <2>2, <2>3, ExchangeTypes DEF IInv
<1>4. PlaceInv'
  BY <1>1 DEF IInv, TypeOK, PlaceInv, MasterPlaces, Members, Exchange, Waiting
<1>5. RegionInv'
  BY <1>1 DEF IInv, TypeOK, PlaceInv, RegionInv, MasterPlaces, Members, Exchange, Waiting
<1>6. BarrierInv'
  <2>1. region[t] \in {"none", "bottom"}
    BY <1>1 DEF IInv, RegionInv
  <2>2. \A u \in Members : u # t => pc'[u] = pc[u]
    BY ThreadFacts DEF IInv, TypeOK
  <2>3. pc'[t] \in Waiting /\ pc[t] \notin Waiting
    BY DEF IInv, TypeOK, Waiting
  <2>4. region' = [region EXCEPT ![t] = After(region[t])]
    BY <2>1 DEF After
  <2>5. QED
    BY <1>1, <2>2, <2>3, <2>4, ArrivalInOrder
<1>7. JobInv'
  BY <1>1, SizeFacts DEF IInv, TypeOK, PlaceInv, JobInv, InBatch, Exchange, Waiting
<1>8. RanInv'
  <2>1. pc'[0] \in {"enter", "done"} => pc'[0] = pc[0]
    BY <1>2, ThreadFacts DEF IInv, TypeOK
  <2>2. ASSUME NEW u \in Members, InBatch PROVE Finished(u)' <=> Finished(u)
    BY <2>2, TopFinishes
  <2>3. ASSUME NEW u \in Members, NEW k \in Indices, InBatch
        PROVE  HasRun(u, k)' <=> HasRun(u, k)
    BY <2>2, <2>3, ThreadFacts DEF IInv, TypeOK, HasRun
  <2>4. \A u \in Members : pc'[u] = "task" => Begin(u, job.n, size) <= at'[u]
    BY ThreadFacts DEF IInv, TypeOK, RanInv
  <2>5. QED
    BY <1>2, <2>1, <2>3, <2>4, RanStable
<1>9. CellInv'
  BY <1>1 DEF IInv, TypeOK, PlaceInv, JobInv, CellInv, InBatch, Computed, Exchange, Waiting
<1>10. QED
  BY <1>3, <1>4, <1>5, <1>6, <1>7, <1>8, <1>9 DEF IInv

\* It passes when nobody is behind.
LEMMA PassTopInv ==
  ASSUME IInv, NEW t \in Threads, PassTop(t)
  PROVE  IInv'
<1> USE ThreadFacts DEF PassTop, Goto, teamVars, barVars, gemmVars, callVars, AllArrived
<1>1. t \in Members /\ 0 \in Members /\ size > 0 /\ Members' = Members
  BY MemberFacts DEF Exchange, Waiting, Members, AllArrived
<1>2. /\ \A u \in Threads : u # t => pc'[u] = pc[u]
      /\ pc[0] # "idle" /\ pc[0] # "done" /\ (InBatch' => InBatch)
  <2>1. pc[t] \in Exchange
    BY DEF Exchange, Waiting
  <2>2. \E to : Goto(t, to)
    OBVIOUS
  <2>3. QED
    BY <2>1, <2>2, MoveFacts
<1>3. TypeOK'
  <2>1. pc' \in [Threads -> Places]
    BY DEF IInv, TypeOK, InRun, Places
  <2>2. job.n \in Nat
    BY SizeFacts DEF IInv, TypeOK
  <2>3. Begin(t, Columns, size) \in Nat /\ Begin(t, job.n, size) \in Nat
    BY <1>1, <2>2, SliceFacts, TeamAssumption DEF IInv
  <2>4. at' \in [Threads -> Nat]
    BY <2>3 DEF IInv, TypeOK
  <2>5. /\ bar' \in [Threads -> Nat] /\ region' \in [Threads -> {"none", "top", "middle", "bottom"}]
        /\ failed' \in BOOLEAN /\ ran' \in [Indices -> {0, 1}]
        /\ cells' \in [Cells -> {"stale", "zero", "value"}] /\ result' \in {0, -1}
    BY DEF IInv, TypeOK
  <2>6. QED
    BY <2>1, <2>4, <2>5, ExchangeTypes DEF IInv
<1>4. PlaceInv'
  <2>1. team /\ pc[0] \in MasterPlaces /\ MasterPlaces' = MasterPlaces
    BY <1>1 DEF IInv, PlaceInv, MasterPlaces
  <2>2. \A u \in Threads : u # t => pc'[u] = pc[u]
    BY DEF IInv, TypeOK
  <2>3. /\ pc'[t] \in {"left", "touch", "task"} /\ (pc'[t] = "left" <=> stop)
    BY DEF IInv, TypeOK
  <2>4. pc'[0] \in MasterPlaces
    BY <1>1, <2>1, <2>2, <2>3 DEF MasterPlaces, Exchange
  <2>5. QED
    BY <1>1, <2>1, <2>2, <2>3, <2>4 DEF IInv, PlaceInv, Exchange
<1>5. RegionInv'
  <2>1. region[t] = "top"
    BY <1>1 DEF IInv, RegionInv
  <2>2. \A u \in Members : u # t => pc'[u] = pc[u] /\ region'[u] = region[u]
    BY ThreadFacts DEF IInv, TypeOK
  <2>3. /\ pc'[t] \in {"left", "touch", "task"} /\ region'[t] = region[t]
        /\ (pc'[t] = "touch" => job.touch) /\ (pc'[t] = "task" => ~job.touch)
    BY <2>1 DEF IInv, TypeOK
  <2>4. QED
    BY <1>1, <2>1, <2>2, <2>3 DEF IInv, RegionInv
<1>6. BarrierInv'
  <2>1. \A u \in Members : u # t => pc'[u] = pc[u]
    BY ThreadFacts DEF IInv, TypeOK
  <2>2. QED
    BY <1>1, <2>1, PassInOrder DEF AllArrived
<1>7. JobInv'
  <2>1. pc'[0] \notin {"enter", "done"} \/ pc'[0] = pc[0]
    BY <1>2, ThreadFacts DEF IInv, TypeOK
  <2>2. QED
    BY <1>2, <2>1 DEF IInv, JobInv
<1>8. RanInv'
  <2>1. pc'[0] \in {"enter", "done"} => pc'[0] = pc[0]
    BY <1>2, ThreadFacts DEF IInv, TypeOK
  <2>2. ASSUME NEW u \in Members, InBatch PROVE Finished(u)' <=> Finished(u)
    BY DEF IInv, TypeOK, Finished
  <2>3. ASSUME NEW u \in Members, NEW k \in Indices, InBatch
        PROVE  HasRun(u, k)' <=> HasRun(u, k)
    <3>1. CASE u = t
      <4>3. k \in Slice(t, job.n, size) => ~(k < Begin(t, job.n, size))
        BY <1>1, SliceEnds DEF IInv
      <4>4. pc[t] # "task" /\ (pc'[t] = "task" => at'[t] = Begin(t, job.n, size))
        BY DEF IInv, TypeOK
      <4>5. QED
        BY <2>2, <2>3, <3>1, <4>3, <4>4 DEF HasRun
    <3>2. CASE u # t
      BY <2>2, <2>3, <3>2, ThreadFacts DEF IInv, TypeOK, HasRun
    <3>3. QED
      BY <3>1, <3>2
  <2>4. \A u \in Members : pc'[u] = "task" => Begin(u, job.n, size) <= at'[u]
    <3>2. Begin(t, job.n, size) <= Begin(t, job.n, size)
      BY <1>1, SliceStart DEF IInv
    <3>3. pc'[t] = "task" => at'[t] = Begin(t, job.n, size)
      BY DEF IInv, TypeOK
    <3>4. pc'[t] = "task" => Begin(t, job.n, size) <= at'[t]
      BY ONLY <3>2, <3>3
    <3>5. \A u \in Members : u # t => pc'[u] = pc[u] /\ at'[u] = at[u]
      BY ThreadFacts DEF IInv, TypeOK
    <3>6. QED
      BY <3>4, <3>5 DEF IInv, RanInv
  <2>5. QED
    BY <1>2, <2>1, <2>3, <2>4, RanStable
<1>9. CellInv'
  <2>1. pc'[0] = pc[0] \/ pc'[0] \in {"touch", "task"} \/ (stop /\ pc'[0] = "left")
    <3>1. CASE t = 0
      BY <3>1 DEF IInv, TypeOK
    <3>2. CASE t # 0
      BY <1>2, <3>2, ThreadFacts
    <3>3. QED
      BY <3>1, <3>2
  <2>2. QED
    BY <1>2, <2>1 DEF IInv, CellInv, Computed
<1>10. QED
  BY <1>3, <1>4, <1>5, <1>6, <1>7, <1>8, <1>9 DEF IInv

\* The preparation is stored before any task has run.
LEMMA TouchColumnInv ==
  ASSUME IInv, NEW t \in Threads, TouchColumn(t)
  PROVE  IInv'
<1> USE ThreadFacts DEF TouchColumn, Goto, teamVars, barVars, gemmVars, callVars
<1>1. t \in Members /\ 0 \in Members /\ size > 0 /\ Members' = Members
  BY MemberFacts DEF Exchange, Waiting, Members, AllArrived
<1>2. TypeOK'
  <2>1. at' \in [Threads -> Nat]
    BY DEF IInv, TypeOK
  <2>2. cells' \in [Cells -> {"stale", "zero", "value"}]
    BY DEF IInv, TypeOK
  <2>3. QED
    BY <2>1, <2>2 DEF IInv, TypeOK
<1>3. PlaceInv'
  BY <1>1 DEF IInv, TypeOK, PlaceInv, MasterPlaces, Members, Exchange, Waiting
<1>4. RegionInv'
  BY <1>1 DEF IInv, TypeOK, PlaceInv, RegionInv, MasterPlaces, Members, Exchange, Waiting
<1>5. BarrierInv'
  BY BarriersStable
<1>6. JobInv'
  BY <1>1, SizeFacts DEF IInv, TypeOK, PlaceInv, JobInv, InBatch, Exchange, Waiting
<1>7. RanInv'
  BY <1>1 DEF IInv, TypeOK, PlaceInv, RanInv, InBatch, HasRun, Finished, Members, Exchange, Waiting
<1>8. CellInv'
  <2>1. InBatch /\ InBatch'
    BY BetweenFacts DEF Between, InBatch
  <2>2. \A k \in Indices : ran[k] = 0
    BY TouchFacts
  <2>3. computes => owner \in Indices
    BY <2>1, BetweenFacts, SizeFacts DEF Between, IInv, TypeOK, JobInv
  <2>4. ~stop /\ pc[0] \notin {"idle", "ready", "done", "end", "left", "return", "fork", "enter"}
    BY <2>1 DEF InBatch, Exchange, Waiting
  <2>5. computes => ran[owner] = 0
    BY <2>2, <2>3
  <2>6. QED
    BY <2>1, <2>4, <2>5 DEF CellInv
<1>9. QED
  BY <1>2, <1>3, <1>4, <1>5, <1>6, <1>7, <1>8 DEF IInv

\* The middle barrier follows the first in every member.
LEMMA ArriveMiddleInv ==
  ASSUME IInv, NEW t \in Threads, ArriveMiddle(t)
  PROVE  IInv'
<1> USE ThreadFacts DEF ArriveMiddle, Goto, teamVars, barVars, gemmVars, callVars, Arrive
<1>1. t \in Members /\ 0 \in Members /\ size > 0 /\ Members' = Members
  BY MemberFacts DEF Exchange, Waiting, Members, AllArrived
<1>2. /\ \A u \in Threads : u # t => pc'[u] = pc[u]
      /\ pc[0] # "idle" /\ pc[0] # "done" /\ (InBatch' => InBatch)
  <2>1. pc[t] \in Exchange
    BY DEF Exchange, Waiting
  <2>2. \E to : Goto(t, to)
    OBVIOUS
  <2>3. QED
    BY <2>1, <2>2, MoveFacts
<1>3. TypeOK'
  <2>1. Arrive(t, "touch", "middle", "wait middle") /\ "wait middle" \in InRun
    BY DEF InRun, Places
  <2>2. /\ bar' \in [Threads -> Nat] /\ region' \in [Threads -> {"none", "top", "middle", "bottom"}]
        /\ pc' \in [Threads -> Places]
    BY <2>1, ArriveTypes DEF IInv
  <2>3. /\ at' \in [Threads -> Nat] /\ failed' \in BOOLEAN /\ ran' \in [Indices -> {0, 1}]
        /\ cells' \in [Cells -> {"stale", "zero", "value"}] /\ result' \in {0, -1}
    BY DEF IInv, TypeOK
  <2>4. QED
    BY <2>2, <2>3, ExchangeTypes DEF IInv
<1>4. PlaceInv'
  BY <1>1 DEF IInv, TypeOK, PlaceInv, MasterPlaces, Members, Exchange, Waiting
<1>5. RegionInv'
  <2>1. job.touch
    BY <1>1 DEF IInv, RegionInv
  <2>2. \A u \in Members : u # t => pc'[u] = pc[u] /\ region'[u] = region[u]
    BY ThreadFacts DEF IInv, TypeOK
  <2>3. pc'[t] = "wait middle" /\ region'[t] = "middle"
    BY <2>1 DEF IInv, TypeOK
  <2>4. QED
    <3>1. UNCHANGED job
      OBVIOUS
    <3>2. QED
      BY ONLY IInv, <1>1, <2>1, <2>2, <2>3, <3>1 DEF IInv, RegionInv
<1>6. BarrierInv'
  <2>1. region[t] = "top" /\ job.touch
    BY <1>1 DEF IInv, RegionInv
  <2>2. \A u \in Members : u # t => pc'[u] = pc[u]
    BY ThreadFacts DEF IInv, TypeOK
  <2>3. pc'[t] \in Waiting /\ pc[t] \notin Waiting
    BY DEF IInv, TypeOK, Waiting
  <2>4. region' = [region EXCEPT ![t] = After(region[t])]
    BY <2>1 DEF After
  <2>5. QED
    BY <1>1, <2>2, <2>3, <2>4, ArrivalInOrder
<1>7. JobInv'
  BY <1>1, SizeFacts DEF IInv, TypeOK, PlaceInv, JobInv, InBatch, Exchange, Waiting
<1>8. RanInv'
  <2>1. pc'[0] \in {"enter", "done"} => pc'[0] = pc[0]
    BY <1>2, ThreadFacts DEF IInv, TypeOK
  <2>2. ASSUME NEW u \in Members, InBatch PROVE Finished(u)' <=> Finished(u)
    BY <2>2, MiddleFinishes
  <2>3. ASSUME NEW u \in Members, NEW k \in Indices, InBatch
        PROVE  HasRun(u, k)' <=> HasRun(u, k)
    BY <2>2, <2>3, ThreadFacts DEF IInv, TypeOK, HasRun
  <2>4. \A u \in Members : pc'[u] = "task" => Begin(u, job.n, size) <= at'[u]
    BY ThreadFacts DEF IInv, TypeOK, RanInv
  <2>5. QED
    BY <1>2, <2>1, <2>3, <2>4, RanStable
<1>9. CellInv'
  BY <1>1 DEF IInv, TypeOK, PlaceInv, JobInv, CellInv, InBatch, Computed, Exchange, Waiting
<1>10. QED
  BY <1>3, <1>4, <1>5, <1>6, <1>7, <1>8, <1>9 DEF IInv

\* The tasks of a slice begin with its first.
LEMMA PassMiddleInv ==
  ASSUME IInv, NEW t \in Threads, PassMiddle(t)
  PROVE  IInv'
<1> USE ThreadFacts DEF PassMiddle, Goto, teamVars, barVars, gemmVars, callVars, AllArrived
<1>1. t \in Members /\ 0 \in Members /\ size > 0 /\ Members' = Members
  BY MemberFacts DEF Exchange, Waiting, Members, AllArrived
<1>2. /\ \A u \in Threads : u # t => pc'[u] = pc[u]
      /\ pc[0] # "idle" /\ pc[0] # "done" /\ (InBatch' => InBatch)
  <2>1. pc[t] \in Exchange
    BY DEF Exchange, Waiting
  <2>2. \E to : Goto(t, to)
    OBVIOUS
  <2>3. QED
    BY <2>1, <2>2, MoveFacts
<1>3. TypeOK'
  <2>1. pc' \in [Threads -> Places]
    BY DEF IInv, TypeOK, InRun, Places
  <2>2. job.n \in Nat
    BY SizeFacts DEF IInv, TypeOK
  <2>3. Begin(t, job.n, size) \in Nat
    BY <1>1, <2>2, SliceFacts DEF IInv
  <2>4. at' \in [Threads -> Nat]
    BY <2>3 DEF IInv, TypeOK
  <2>5. /\ bar' \in [Threads -> Nat] /\ region' \in [Threads -> {"none", "top", "middle", "bottom"}]
        /\ failed' \in BOOLEAN /\ ran' \in [Indices -> {0, 1}]
        /\ cells' \in [Cells -> {"stale", "zero", "value"}] /\ result' \in {0, -1}
    BY DEF IInv, TypeOK
  <2>6. QED
    BY <2>1, <2>4, <2>5, ExchangeTypes DEF IInv
<1>4. PlaceInv'
  BY <1>1 DEF IInv, TypeOK, PlaceInv, MasterPlaces, Members, Exchange, Waiting
<1>5. RegionInv'
  <2>1. region[t] = "middle" /\ job.touch
    BY <1>1 DEF IInv, RegionInv
  <2>2. \A u \in Members : u # t => pc'[u] = pc[u] /\ region'[u] = region[u]
    BY ThreadFacts DEF IInv, TypeOK
  <2>3. pc'[t] = "task" /\ region'[t] = region[t]
    BY <2>1 DEF IInv, TypeOK
  <2>4. QED
    BY <1>1, <2>1, <2>2, <2>3 DEF IInv, RegionInv
<1>6. BarrierInv'
  <2>1. \A u \in Members : u # t => pc'[u] = pc[u]
    BY ThreadFacts DEF IInv, TypeOK
  <2>2. QED
    BY <1>1, <2>1, PassInOrder DEF AllArrived
<1>7. JobInv'
  BY <1>1, SizeFacts DEF IInv, TypeOK, PlaceInv, JobInv, InBatch, Exchange, Waiting
<1>8. RanInv'
  <2>1. pc'[0] \in {"enter", "done"} => pc'[0] = pc[0]
    BY <1>2, ThreadFacts DEF IInv, TypeOK
  <2>2. ASSUME NEW u \in Members, InBatch PROVE Finished(u)' <=> Finished(u)
    BY DEF IInv, TypeOK, Finished
  <2>3. ASSUME NEW u \in Members, NEW k \in Indices, InBatch
        PROVE  HasRun(u, k)' <=> HasRun(u, k)
    <3>1. CASE u = t
      <4>3. k \in Slice(t, job.n, size) => ~(k < Begin(t, job.n, size))
        BY <1>1, SliceEnds DEF IInv
      <4>4. pc[t] # "task" /\ (pc'[t] = "task" => at'[t] = Begin(t, job.n, size))
        BY DEF IInv, TypeOK
      <4>5. QED
        BY <2>2, <2>3, <3>1, <4>3, <4>4 DEF HasRun
    <3>2. CASE u # t
      BY <2>2, <2>3, <3>2, ThreadFacts DEF IInv, TypeOK, HasRun
    <3>3. QED
      BY <3>1, <3>2
  <2>4. \A u \in Members : pc'[u] = "task" => Begin(u, job.n, size) <= at'[u]
    <3>2. Begin(t, job.n, size) <= Begin(t, job.n, size)
      BY <1>1, SliceStart DEF IInv
    <3>3. pc'[t] = "task" => at'[t] = Begin(t, job.n, size)
      BY DEF IInv, TypeOK
    <3>4. pc'[t] = "task" => Begin(t, job.n, size) <= at'[t]
      BY ONLY <3>2, <3>3
    <3>5. \A u \in Members : u # t => pc'[u] = pc[u] /\ at'[u] = at[u]
      BY ThreadFacts DEF IInv, TypeOK
    <3>6. QED
      BY <3>4, <3>5 DEF IInv, RanInv
  <2>5. QED
    BY <1>2, <2>1, <2>3, <2>4, RanStable
<1>9. CellInv'
  BY <1>1 DEF IInv, TypeOK, PlaceInv, JobInv, CellInv, InBatch, Computed, Exchange, Waiting
<1>10. QED
  BY <1>3, <1>4, <1>5, <1>6, <1>7, <1>8, <1>9 DEF IInv

\* A task is run by the member whose slice it is in, for the first time.
LEMMA RunTaskInv ==
  ASSUME IInv, NEW t \in Threads, RunTask(t)
  PROVE  IInv'
<1> USE ThreadFacts DEF RunTask, Goto, teamVars, barVars, gemmVars, callVars
<1>1. t \in Members /\ 0 \in Members /\ size > 0 /\ Members' = Members
  BY MemberFacts DEF Exchange, Waiting, Members, AllArrived
<1>2. TypeOK'
  <2>1. at[t] \in Indices /\ ran[at[t]] = 0
    BY RunTaskFacts
  <2>2. ran' \in [Indices -> {0, 1}]
    BY <2>1 DEF IInv, TypeOK
  <2>3. cells' \in [Cells -> {"stale", "zero", "value"}]
    BY DEF IInv, TypeOK
  <2>4. at' \in [Threads -> Nat]
    BY DEF IInv, TypeOK
  <2>5. QED
    BY <2>2, <2>3, <2>4 DEF IInv, TypeOK
<1>3. PlaceInv'
  BY <1>1 DEF IInv, TypeOK, PlaceInv, MasterPlaces, Members, Exchange, Waiting
<1>4. RegionInv'
  BY <1>1 DEF IInv, TypeOK, PlaceInv, RegionInv, MasterPlaces, Members, Exchange, Waiting
<1>5. BarrierInv'
  BY BarriersStable
<1>6. JobInv'
  BY <1>1, SizeFacts DEF IInv, TypeOK, PlaceInv, JobInv, InBatch, Exchange, Waiting
<1>7. RanInv'
  <2>1. InBatch /\ InBatch' /\ pc' = pc
    BY BetweenFacts DEF Between, InBatch
  <2>2. at[t] \in Indices /\ at[t] \in Slice(t, job.n, size) /\ Begin(t, job.n, size) <= at[t]
        /\ Begin(t, job.n, size) \in Nat
    BY RunTaskFacts
  <2>3. ASSUME NEW k \in Indices
        PROVE  HasRun(t, k)' <=> HasRun(t, k) \/ k = at[t]
    <3>1. ~Finished(t) /\ ~Finished(t)'
      BY <2>1, BetweenFacts DEF Between, Finished
    <3>2. at'[t] = at[t] + 1 /\ at[t] \in Nat
      BY DEF IInv, TypeOK
    <3>3. k \in Nat
      BY SizeFacts
    <3>4. k < at[t] + 1 <=> k < at[t] \/ k = at[t]
      BY <3>2, <3>3
    <3>5. QED
      BY <2>1, <2>2, <3>1, <3>2, <3>4 DEF HasRun
  <2>4. ASSUME NEW u \in Members, NEW k \in Indices, u # t
        PROVE  HasRun(u, k)' <=> HasRun(u, k)
    BY <2>1, <2>4, ThreadFacts DEF IInv, TypeOK, HasRun, Finished
  <2>5. \A u \in Members : pc'[u] = "task" => Begin(u, job.n, size) <= at'[u]
    <3>1. Begin(t, job.n, size) <= at'[t]
      BY <2>2, SizeFacts DEF IInv, TypeOK
    <3>2. QED
      BY <2>1, <3>1, ThreadFacts DEF IInv, TypeOK, RanInv
  <2>6. \A k \in Indices : ran'[k] = IF k = at[t] THEN 1 ELSE ran[k]
    BY RunTaskFacts DEF IInv, TypeOK
  <2>7. \A k \in Indices : ran'[k] = IF \E u \in Members : HasRun(u, k)' THEN 1 ELSE 0
    BY <1>1, <2>1, <2>3, <2>4, <2>6 DEF IInv, RanInv
  <2>8. pc'[0] \notin {"enter", "done"}
    BY <2>1 DEF InBatch, Exchange, Waiting
  <2>9. QED
    BY <1>1, <2>1, <2>5, <2>7, <2>8 DEF RanInv
<1>8. CellInv'
  <2>1. InBatch /\ ~stop /\ pc[0] \in Exchange /\ InBatch'
    BY BetweenFacts DEF Between, InBatch
  <2>2. at[t] \in Indices
    BY RunTaskFacts
  <2>3. computes => owner \in Indices
    BY <2>1, BetweenFacts, SizeFacts DEF Between, IInv, TypeOK, JobInv
  <2>4. computes /\ ran'[owner] = 1 => Computed'
    <3>1. CASE at[t] = owner
      BY <3>1 DEF Computed
    <3>2. CASE at[t] # owner
      BY <2>1, <2>2, <2>3, <3>2 DEF IInv, TypeOK, CellInv, Computed
    <3>3. QED
      BY <3>1, <3>2
  <2>5. QED
    BY <2>1, <2>4 DEF IInv, CellInv, Exchange, Waiting
<1>9. QED
  BY <1>2, <1>3, <1>4, <1>5, <1>6, <1>7, <1>8 DEF IInv

\* A member arrives at the last barrier when it has run its whole slice.
LEMMA ArriveBottomInv ==
  ASSUME IInv, NEW t \in Threads, ArriveBottom(t)
  PROVE  IInv'
<1> USE ThreadFacts DEF ArriveBottom, Goto, teamVars, barVars, gemmVars, callVars, Arrive
<1>1. t \in Members /\ 0 \in Members /\ size > 0 /\ Members' = Members
  BY MemberFacts DEF Exchange, Waiting, Members, AllArrived
<1>2. /\ \A u \in Threads : u # t => pc'[u] = pc[u]
      /\ pc[0] # "idle" /\ pc[0] # "done" /\ (InBatch' => InBatch)
  <2>1. pc[t] \in Exchange
    BY DEF Exchange, Waiting
  <2>2. \E to : Goto(t, to)
    OBVIOUS
  <2>3. QED
    BY <2>1, <2>2, MoveFacts
<1>3. TypeOK'
  <2>1. Arrive(t, "task", "bottom", "wait bottom") /\ "wait bottom" \in InRun
    BY DEF InRun, Places
  <2>2. /\ bar' \in [Threads -> Nat] /\ region' \in [Threads -> {"none", "top", "middle", "bottom"}]
        /\ pc' \in [Threads -> Places]
    BY <2>1, ArriveTypes DEF IInv
  <2>3. /\ at' \in [Threads -> Nat] /\ failed' \in BOOLEAN /\ ran' \in [Indices -> {0, 1}]
        /\ cells' \in [Cells -> {"stale", "zero", "value"}] /\ result' \in {0, -1}
    BY DEF IInv, TypeOK
  <2>4. QED
    BY <2>2, <2>3, ExchangeTypes DEF IInv
<1>4. PlaceInv'
  BY <1>1 DEF IInv, TypeOK, PlaceInv, MasterPlaces, Members, Exchange, Waiting
<1>5. RegionInv'
  BY <1>1 DEF IInv, TypeOK, PlaceInv, RegionInv, MasterPlaces, Members, Exchange, Waiting
<1>6. BarrierInv'
  <2>1. region[t] = IF job.touch THEN "middle" ELSE "top"
    BY <1>1 DEF IInv, RegionInv
  <2>2. \A u \in Members : u # t => pc'[u] = pc[u]
    BY ThreadFacts DEF IInv, TypeOK
  <2>3. pc'[t] \in Waiting /\ pc[t] \notin Waiting
    BY DEF IInv, TypeOK, Waiting
  <2>4. region' = [region EXCEPT ![t] = After(region[t])]
    BY <2>1 DEF After
  <2>5. QED
    BY <1>1, <2>2, <2>3, <2>4, ArrivalInOrder
<1>7. JobInv'
  BY <1>1, SizeFacts DEF IInv, TypeOK, PlaceInv, JobInv, InBatch, Exchange, Waiting
<1>8. RanInv'
  <2>1. InBatch /\ InBatch' /\ pc'[0] \notin {"enter", "done"}
    BY BetweenFacts DEF Between, IInv, TypeOK, InBatch, Exchange, Waiting
  <2>2. t \in Threads /\ at[t] >= End(t, job.n, size)
    OBVIOUS
  <2>3. ASSUME NEW k \in Indices
        PROVE  HasRun(t, k)' <=> HasRun(t, k)
    <3>1. k \in Slice(t, job.n, size) => k < at[t]
      BY <1>1, <2>2, SliceEnds DEF IInv
    <3>2. ArriveBottom(t)
      BY DEF ArriveBottom
    <3>3. Finished(t)'
      BY <1>1, <3>2, BottomFinishes
    <3>4. pc[t] = "task" /\ Members' = Members /\ UNCHANGED <<job, size>>
      BY <1>1
    <3>5. QED
      BY <3>1, <3>3, <3>4 DEF HasRun
  <2>4. ASSUME NEW u \in Members, NEW k \in Indices, u # t
        PROVE  HasRun(u, k)' <=> HasRun(u, k)
    <3>1. Finished(u)' <=> Finished(u)
      BY <2>4, BottomFinishes
    <3>2. QED
      BY <2>4, <3>1, ThreadFacts DEF IInv, TypeOK, HasRun
  <2>5. \A u \in Members : pc'[u] = "task" => Begin(u, job.n, size) <= at'[u]
    BY ThreadFacts DEF IInv, TypeOK, RanInv
  <2>6. QED
    BY <2>1, <2>3, <2>4, <2>5, RanStable
<1>9. CellInv'
  BY <1>1 DEF IInv, TypeOK, PlaceInv, JobInv, CellInv, InBatch, Computed, Exchange, Waiting
<1>10. QED
  BY <1>3, <1>4, <1>5, <1>6, <1>7, <1>8, <1>9 DEF IInv

\* The master returns when every task has run.
LEMMA PassBottomInv ==
  ASSUME IInv, NEW t \in Threads, PassBottom(t)
  PROVE  IInv'
<1> USE ThreadFacts DEF PassBottom, Goto, teamVars, barVars, gemmVars, callVars, AllArrived, Return
<1>1. t \in Members /\ 0 \in Members /\ size > 0 /\ Members' = Members
  BY MemberFacts DEF Exchange, Waiting, Members, AllArrived
<1>2. /\ \A u \in Threads : u # t => pc'[u] = pc[u]
      /\ pc[0] # "idle" /\ pc[0] # "done" /\ (InBatch' => InBatch)
  <2>1. pc[t] \in Exchange
    BY DEF Exchange, Waiting
  <2>2. \E to : Goto(t, to)
    OBVIOUS
  <2>3. QED
    BY <2>1, <2>2, MoveFacts
<1>3. TypeOK'
  <2>1. pc' \in [Threads -> Places]
    <3>1. pc \in [Threads -> Places] /\ "ready" \in Places /\ "top" \in Places
      BY DEF IInv, TypeOK, InRun, Places
    <3>2. pc' = [pc EXCEPT ![t] = IF t = 0 THEN "ready" ELSE "top"]
      OBVIOUS
    <3>3. QED
      BY ONLY <3>1, <3>2
  <2>2. result' \in {0, -1} /\ failed' \in BOOLEAN
    BY DEF IInv, TypeOK
  <2>3. QED
    BY <2>1, <2>2 DEF IInv, TypeOK
<1>4. PlaceInv'
  <2>1. team /\ pc[0] \in MasterPlaces /\ MasterPlaces' = MasterPlaces
    BY <1>1 DEF IInv, PlaceInv, MasterPlaces
  <2>2. \A u \in Threads : u # t => pc'[u] = pc[u]
    BY DEF IInv, TypeOK
  <2>3. pc'[t] = IF t = 0 THEN "ready" ELSE "top"
    BY DEF IInv, TypeOK
  <2>4. pc'[0] \in MasterPlaces
    BY <1>1, <2>1, <2>2, <2>3 DEF MasterPlaces
  <2>5. t = 0 => ~stop
    BY DEF IInv, PlaceInv
  <2>6. QED
    BY <1>1, <2>1, <2>2, <2>3, <2>4, <2>5 DEF IInv, PlaceInv, Exchange
<1>5. RegionInv'
  <2>1. region[t] = "bottom"
    BY <1>1 DEF IInv, RegionInv
  <2>2. \A u \in Members : u # t => pc'[u] = pc[u] /\ region'[u] = region[u]
    BY ThreadFacts DEF IInv, TypeOK
  <2>3. pc'[t] \in {"ready", "top"} /\ region'[t] = region[t]
    BY <2>1 DEF IInv, TypeOK
  <2>4. QED
    BY <1>1, <2>1, <2>2, <2>3 DEF IInv, RegionInv
<1>6. BarrierInv'
  <2>1. \A u \in Members : u # t => pc'[u] = pc[u]
    BY ThreadFacts DEF IInv, TypeOK
  <2>2. QED
    BY <1>1, <2>1, PassInOrder DEF AllArrived
<1>7. JobInv'
  BY <1>1, SizeFacts DEF IInv, TypeOK, PlaceInv, JobInv, InBatch, Exchange, Waiting
<1>8. RanInv'
  <2>1. /\ pc'[0] \in {"enter", "done"} => pc'[0] = pc[0]
        /\ InBatch' => pc'[0] = pc[0]
    <3>1. CASE t = 0
      <4>1. pc'[0] = "ready"
        BY <3>1 DEF IInv, TypeOK
      <4>2. QED
        BY <4>1 DEF InBatch, Exchange, Waiting
    <3>2. CASE t # 0
      BY <1>2, <3>2, ThreadFacts
    <3>3. QED
      BY <3>1, <3>2
  <2>2. ASSUME InBatch', NEW u \in Members, NEW k \in Indices
        PROVE  HasRun(u, k)' <=> HasRun(u, k)
    <3>1. Finished(u)' <=> Finished(u)
      BY <2>1, <2>2 DEF Finished
    <3>2. pc'[u] = "task" <=> pc[u] = "task"
      BY ThreadFacts DEF IInv, TypeOK
    <3>3. QED
      BY <3>1, <3>2 DEF HasRun
  <2>3. \A u \in Members : pc'[u] = "task" => Begin(u, job.n, size) <= at'[u]
    BY ThreadFacts DEF IInv, TypeOK, RanInv
  <2>4. QED
    <3>1. UNCHANGED <<ran, ntasks, job, size>>
      OBVIOUS
    <3>2. (pc'[0] = "enter" => ran' = NotRun) /\ (pc'[0] = "done" => ran' = AllRun(ntasks'))
      BY <2>1, <3>1 DEF IInv, RanInv
    <3>3. InBatch' => \A k \in Indices : ran'[k] = IF \E u \in Members : HasRun(u, k)' THEN 1 ELSE 0
      BY <1>1, <1>2, <2>2, <3>1 DEF IInv, RanInv
    <3>4. QED
      BY <1>1, <2>3, <3>1, <3>2, <3>3 DEF RanInv, AllRun
<1>9. CellInv'
  <2>1. CASE t = 0
    <3>1. pc'[0] = "ready" /\ InBatch /\ ~stop
      BY <2>1 DEF IInv, TypeOK, PlaceInv, InBatch, Exchange, Waiting
    <3>2. ~InBatch'
      BY <3>1 DEF InBatch, Exchange, Waiting
    <3>3. computes => Computed'
      <4>1. SUFFICES ASSUME computes PROVE Computed
        BY DEF Computed
      <4>2. ran = AllRun(ntasks) /\ ntasks \in Sizes /\ ntasks \in Nat
        BY <2>1, BatchDone DEF PassBottom
      <4>3. owner \in Nat /\ owner < ntasks
        BY <3>1, <4>1 DEF IInv, TypeOK, JobInv
      <4>4. ran[owner] = 1
        BY <4>2, <4>3, SizeFacts DEF AllRun
      <4>5. QED
        BY <3>1, <4>1, <4>4 DEF IInv, CellInv
    <3>4. QED
      BY <1>1, <3>1, <3>2, <3>3 DEF CellInv
  <2>2. CASE t # 0
    <3>1. pc'[0] = pc[0] /\ UNCHANGED <<stop, computes, cells, ran, owner, failed, size, gemm>>
      BY <1>2, <2>2, ThreadFacts
    <3>2. InBatch' <=> InBatch
      BY ONLY <3>1 DEF InBatch
    <3>3. QED
      BY ONLY IInv, <3>1, <3>2 DEF IInv, CellInv, Computed
  <2>3. QED
    BY <2>1, <2>2
<1>10. QED
  BY <1>3, <1>4, <1>5, <1>6, <1>7, <1>8, <1>9 DEF IInv
-----------------------------------------------------------------------------
(* The invariant and what follows from it                                  *)

\* Every step preserves the invariant.
LEMMA NextIInv == IInv /\ [Next]_vars => IInv'
<1> SUFFICES ASSUME IInv, [Next]_vars PROVE IInv'
  OBVIOUS
<1>1. ASSUME NEW g \in {"classical", "shared", "separate"}, NEW touch \in BOOLEAN,
             NEW par \in BOOLEAN, BeginGemm(g, touch, par)
      PROVE  IInv'
  BY <1>1, BeginGemmInv
<1>2. CASE Decline \/ EndBatches \/ StopTeam \/ JoinTeam \/ EndWithoutTeam \/ ReturnGemm
  BY <1>2, DeclineInv, EndBatchesInv, StopTeamInv, JoinTeamInv, EndWithoutTeamInv, ReturnGemmInv
<1>3. CASE ReturnEmpty \/ Publish \/ ReturnAlone
  BY <1>3, ReturnEmptyInv, PublishInv, ReturnAloneInv
<1>4. ASSUME NEW s \in 1 .. N, Fork(s) \/ RunAlone(s) PROVE IInv'
  BY <1>4, ForkInv, RunAloneInv
<1>5. ASSUME NEW n \in Sizes, NEW c \in BOOLEAN, NEW o \in 0 .. N, Call(n, c, o) PROVE IInv'
  BY <1>5, CallInv
<1>6. ASSUME NEW t \in Threads, ExchangeStep(t) PROVE IInv'
  BY <1>6, ArriveTopInv, PassTopInv, TouchColumnInv, ArriveMiddleInv, PassMiddleInv, RunTaskInv,
     ArriveBottomInv, PassBottomInv DEF ExchangeStep
<1>7. CASE UNCHANGED vars \/ Terminated
  <2>1. UNCHANGED vars
    BY <1>7 DEF Terminated
  <2> USE DEF vars, teamVars, barVars, gemmVars, callVars
  <2>2. TypeOK'
    BY <2>1 DEF IInv, TypeOK
  <2>3. PlaceInv' /\ RegionInv'
    BY <2>1 DEF IInv, PlaceInv, RegionInv, MasterPlaces, Members
  <2>4. BarrierInv'
    BY <2>1 DEF IInv, BarrierInv, After, Members
  <2>5. JobInv' /\ CellInv'
    BY <2>1 DEF IInv, JobInv, CellInv, InBatch, Computed
  <2>6. RanInv'
    BY <2>1 DEF IInv, RanInv, InBatch, HasRun, Finished, Members, AllRun
  <2>7. QED
    BY <2>2, <2>3, <2>4, <2>5, <2>6 DEF IInv
<1>8. QED
  BY <1>1, <1>2, <1>3, <1>4, <1>5, <1>6, <1>7 DEF Next, MasterStep

\* The inductive invariant holds in every reachable state.
THEOREM InvariantHolds == Spec => []IInv
BY InitIInv, NextIInv, PTL DEF Spec

\* Every variable keeps its type.
THEOREM TypeCorrect == Spec => []TypeOK
<1>1. IInv => TypeOK
  BY DEF IInv
<1>2. QED
  BY <1>1, InvariantHolds, PTL

\* Every member meets the same barrier regions in the same order, as OpenMP
\* demands, although each decides on the middle one by itself.
THEOREM BarriersMatch == Spec => []SameBarriers
<1>1. IInv => SameBarriers
  BY DEF IInv, BarrierInv, SameBarriers
<1>2. QED
  BY <1>1, InvariantHolds, PTL

\* A GEMM that returns has computed C, whichever task touched which column.
THEOREM GemmsComputed == Spec => []OutputComputed
<1>1. IInv => OutputComputed
  BY DEF IInv, CellInv, Computed, OutputComputed
<1>2. QED
  BY <1>1, InvariantHolds, PTL

\* The master writes the batch and the stop flag only while no other member is
\* where it reads them.
THEOREM TeamFieldsUnread == Spec => PublishedUnread
<1>1. ASSUME IInv, [Next]_vars, job' # job \/ stop' # stop, NEW t \in Members \ {0}
      PROVE  pc[t] \in {"top", "wait top", "wait bottom", "left"}
  <2>1. StopTeam \/ Publish \/ JoinTeam \/ \E s \in 1 .. N : Fork(s)
    <3>1. job' # job => Publish
      BY <1>1 DEF Next, MasterStep, ExchangeStep, Terminated, BeginGemm, Fork, Decline, Call,
         EndBatches, StopTeam, JoinTeam, EndWithoutTeam, ReturnGemm, ReturnEmpty, RunAlone,
         ReturnAlone, ArriveTop, PassTop, TouchColumn, ArriveMiddle, PassMiddle, RunTask,
         ArriveBottom, PassBottom, vars, teamVars
    <3>2. stop' # stop => StopTeam \/ JoinTeam \/ \E s \in 1 .. N : Fork(s)
      BY <1>1 DEF Next, MasterStep, ExchangeStep, Terminated, BeginGemm, Decline, Call,
         EndBatches, Publish, EndWithoutTeam, ReturnGemm, ReturnEmpty, RunAlone,
         ReturnAlone, ArriveTop, PassTop, TouchColumn, ArriveMiddle, PassMiddle, RunTask,
         ArriveBottom, PassBottom, vars, teamVars
    <3>3. QED
      BY <1>1, <3>1, <3>2
  <2>2. CASE StopTeam \/ Publish
    <3>1. size > 0 /\ pc[0] \in Entrance
      BY <1>1, <2>2 DEF StopTeam, Publish, Entrance, IInv, PlaceInv
    <3>2. QED
      BY <1>1, <3>1, MasterOutside
  <2>3. CASE JoinTeam
    BY <2>3 DEF JoinTeam
  <2>4. CASE \E s \in 1 .. N : Fork(s)
    <3>1. size = 0
      BY <1>1, <2>4, AloneFacts DEF Fork
    <3>2. QED
      BY <3>1, NoTeam
  <2>5. QED
    BY <2>1, <2>2, <2>3, <2>4
<1>2. IInv /\ [Next]_vars =>
        [job' # job \/ stop' # stop =>
           \A t \in Members \ {0} : pc[t] \in {"top", "wait top", "wait bottom", "left"}]_vars
  BY <1>1
<1>3. QED
  BY <1>2, InvariantHolds, PTL DEF Spec, PublishedUnread
-----------------------------------------------------------------------------
(* The team implements the executor contract                               *)

InCall == pc[0] \in InRun /\ ~stop

\* The index sets of the two specifications are the same definition.
LEMMA SameIndices == Contract!Indices = Indices /\ Contract!NotRun = NotRun
BY DEF Contract!Indices, Indices, Contract!NotRun, NotRun

\* A step that leaves the master inside or outside run() where it was is
\* invisible to the contract.
LEMMA HiddenStep ==
  ASSUME UNCHANGED <<ntasks, ran, result>>, InCall' <=> InCall
  PROVE  UNCHANGED Contract!vars
BY DEF Contract!vars, InCall

\* A step that runs the tasks K of the batch, none of which had run.
LEMMA InvokeStep ==
  ASSUME NEW K \in SUBSET Indices, K # {}, InCall, InCall',
         \A k \in K : k < ntasks /\ ran[k] = 0,
         ran' = [k \in Indices |-> IF k \in K THEN 1 ELSE ran[k]],
         UNCHANGED <<ntasks, result>>
  PROVE  Contract!Next
<1>1. Contract!Invoke(0, K)
  BY SameIndices DEF Contract!Invoke, InCall
<1>2. QED
  BY <1>1, SameIndices DEF Contract!Next

\* A call that ends with everything run, or with an error, is a return of the
\* contract.
LEMMA ReturnStep ==
  ASSUME IInv, InCall, ~InCall', UNCHANGED <<ntasks, ran>>,
         \/ result' = 0 /\ \A k \in Indices : k < ntasks => ran[k] = 1
         \/ result' = -1 /\ ntasks # 0
  PROVE  Contract!Next
<1>1. ntasks >= 0
  BY SizeFacts DEF IInv, TypeOK
<1>2. Contract!Return(0)
  BY <1>1, SameIndices DEF Contract!Return, InCall
<1>3. QED
  BY <1>2 DEF Contract!Next

\* A call that begins, with a number of tasks the contract knows.
LEMMA CallBegins ==
  ASSUME NEW n \in Sizes, ~InCall, InCall', ntasks' = n, ran' = NotRun, UNCHANGED result
  PROVE  Contract!Next
<1>1. Contract!Call(0, n)
  BY SameIndices DEF Contract!Call, InCall
<1>2. QED
  BY <1>1 DEF Contract!Next

\* Initial states are initial states of the contract.
LEMMA RefinesInit == Init => Contract!Init
<1>1. Init => ~InCall
  BY ThreadFacts DEF Init, InCall, InRun
<1>2. QED
  BY <1>1, SameIndices, ThreadFacts DEF Init, Contract!Init, InCall

\* Every step of the team is a step of the contract or hidden from it.
LEMMA RefinesNext == IInv /\ [Next]_vars => [Contract!Next]_(Contract!vars)
<1> SUFFICES ASSUME IInv, [Next]_vars PROVE [Contract!Next]_(Contract!vars)
  OBVIOUS
<1> USE ThreadFacts DEF Goto, teamVars, barVars, gemmVars, callVars
<1>1. ASSUME NEW g \in {"classical", "shared", "separate"}, NEW touch \in BOOLEAN,
             NEW par \in BOOLEAN, BeginGemm(g, touch, par)
      PROVE  [Contract!Next]_(Contract!vars)
  <2>1. UNCHANGED <<ntasks, ran, result>> /\ ~InCall /\ ~InCall'
    BY <1>1 DEF BeginGemm, IInv, TypeOK, InCall, InRun
  <2>2. QED
    BY <2>1, HiddenStep
<1>2. CASE Decline \/ EndBatches \/ EndWithoutTeam \/ ReturnGemm
  <2>1. UNCHANGED <<ntasks, ran, result>> /\ ~InCall /\ ~InCall'
    BY <1>2 DEF Decline, EndBatches, EndWithoutTeam, ReturnGemm, IInv, TypeOK, InCall, InRun
  <2>2. QED
    BY <2>1, HiddenStep
<1>3. CASE StopTeam \/ JoinTeam \/ \E s \in 1 .. N : Fork(s)
  <2>1. UNCHANGED <<ntasks, ran, result>> /\ ~InCall /\ ~InCall'
    BY <1>3 DEF StopTeam, JoinTeam, Fork, IInv, TypeOK, InCall, InRun
  <2>2. QED
    BY <2>1, HiddenStep
<1>4. ASSUME NEW n \in Sizes, NEW c \in BOOLEAN, NEW o \in 0 .. N, Call(n, c, o)
      PROVE  [Contract!Next]_(Contract!vars)
  <2>1. pc[0] = "ready" /\ pc'[0] = "enter" /\ ~stop /\ UNCHANGED stop
    BY <1>4 DEF Call, IInv, TypeOK, PlaceInv
  <2>2. ~InCall /\ InCall'
    BY <2>1 DEF InCall, InRun
  <2>3. QED
    BY <1>4, <2>2, CallBegins DEF Call
<1>5. CASE ReturnEmpty
  <2>1. InCall /\ ~InCall'
    BY <1>5 DEF ReturnEmpty, Return, IInv, TypeOK, PlaceInv, InCall, InRun
  <2>2. \A k \in Indices : ~(k < ntasks)
    BY <1>5, SizeFacts DEF ReturnEmpty
  <2>3. QED
    BY <1>5, <2>1, <2>2, ReturnStep DEF ReturnEmpty, Return
<1>6. CASE Publish
  <2>1. UNCHANGED <<ntasks, ran, result>> /\ InCall /\ InCall'
    BY <1>6 DEF Publish, IInv, TypeOK, PlaceInv, InCall, InRun
  <2>2. QED
    BY <2>1, HiddenStep
<1>7. ASSUME NEW s \in 1 .. N, RunAlone(s) PROVE [Contract!Next]_(Contract!vars)
  <2> DEFINE K == {k \in Indices : k < ntasks}
  <2>1. ntasks \in Sizes /\ ntasks \in Nat /\ ntasks > 0
    <3>1. ntasks \in Sizes \union {0} /\ ntasks # 0
      BY <1>7 DEF RunAlone, IInv, TypeOK
    <3>2. QED
      BY <3>1, SizeFacts
  <2>2. ran = NotRun /\ ran' = AllRun(ntasks)
    BY <1>7 DEF RunAlone, IInv, RanInv
  <2>3. 0 \in K
    BY <2>1, SizeFacts
  <2>4. ran' = [k \in Indices |-> IF k \in K THEN 1 ELSE ran[k]]
    BY <2>2 DEF NotRun, AllRun
  <2>5. \A k \in K : k < ntasks /\ ran[k] = 0
    BY <2>2 DEF NotRun
  <2>6. InCall /\ InCall' /\ UNCHANGED <<ntasks, result>>
    BY <1>7 DEF RunAlone, IInv, TypeOK, PlaceInv, InCall, InRun
  <2>7. K \in SUBSET Indices /\ K # {}
    BY <2>3
  <2> HIDE DEF K
  <2>8. QED
    BY <2>4, <2>5, <2>6, <2>7, InvokeStep
<1>8. CASE ReturnAlone
  <2>1. InCall /\ ~InCall'
    <3>1. ~stop /\ UNCHANGED stop /\ pc'[0] = "ready"
      BY <1>8, AloneFacts DEF ReturnAlone, Return, IInv, TypeOK
    <3>2. QED
      BY <1>8, <3>1 DEF ReturnAlone, InCall, InRun
  <2>2. ran = AllRun(ntasks) /\ ntasks > 0
    BY <1>8 DEF ReturnAlone, IInv, RanInv, JobInv
  <2>3. \A k \in Indices : k < ntasks => ran[k] = 1
    BY <2>2 DEF AllRun
  <2>4. ntasks # 0
    BY <2>2
  <2>5. UNCHANGED <<ntasks, ran>> /\ (result' = 0 \/ result' = -1)
    BY <1>8 DEF ReturnAlone, Return
  <2>6. QED
    BY <2>1, <2>3, <2>4, <2>5, ReturnStep
<1>9. ASSUME NEW t \in Threads, RunTask(t) PROVE [Contract!Next]_(Contract!vars)
  <2>1. at[t] \in Indices /\ ran[at[t]] = 0 /\ at[t] \in Slice(t, job.n, size)
    BY <1>9, RunTaskFacts DEF RunTask
  <2>2. at[t] < ntasks
    <3>1. t \in Members /\ job.n = ntasks /\ ntasks \in Nat
      BY <1>9, BetweenFacts DEF Between, RunTask
    <3>2. End(t, job.n, size) \in Nat /\ End(t, job.n, size) <= ntasks
      BY <3>1, SliceFacts DEF IInv
    <3>3. at[t] \in Nat /\ at[t] < End(t, job.n, size)
      BY <1>9 DEF RunTask, IInv, TypeOK
    <3>4. QED
      BY <3>1, <3>2, <3>3
  <2>3. ran' = [k \in Indices |-> IF k \in {at[t]} THEN 1 ELSE ran[k]]
    <3>1. ran \in [Indices -> {0, 1}] /\ ran' = [ran EXCEPT ![at[t]] = @ + 1]
      BY <1>9 DEF RunTask, IInv, TypeOK
    <3>2. ran' = [ran EXCEPT ![at[t]] = 1]
      BY <2>1, <3>1
    <3>3. QED
      BY <3>1, <3>2
  <2>4. InCall /\ InCall'
    <3>1. InBatch /\ UNCHANGED <<pc, stop>>
      BY <1>9, BetweenFacts DEF Between, RunTask
    <3>2. QED
      BY <3>1 DEF InBatch, InCall, InRun, Exchange, Waiting
  <2>5. UNCHANGED <<ntasks, result>>
    BY <1>9 DEF RunTask
  <2>6. {at[t]} \in SUBSET Indices /\ {at[t]} # {} /\ \A k \in {at[t]} : k < ntasks /\ ran[k] = 0
    BY ONLY <2>1, <2>2
  <2>7. QED
    BY ONLY <2>3, <2>4, <2>5, <2>6, InvokeStep
<1>10. ASSUME NEW t \in Threads,
              \/ ArriveTop(t) \/ PassTop(t) \/ TouchColumn(t) \/ ArriveMiddle(t)
              \/ PassMiddle(t) \/ ArriveBottom(t)
       PROVE  [Contract!Next]_(Contract!vars)
  <2>1. UNCHANGED <<ntasks, ran, result, stop>>
    BY <1>10 DEF ArriveTop, PassTop, TouchColumn, ArriveMiddle, PassMiddle, ArriveBottom
  <2>2. pc'[0] = pc[0] \/ (pc[0] \in InRun /\ (pc'[0] \in InRun \/ stop))
    <3>1. pc[t] \in InRun /\ \E to : Goto(t, to) /\ (to \in InRun \/ stop)
      <4>1. CASE ArriveTop(t) \/ ArriveMiddle(t) \/ ArriveBottom(t)
        BY <4>1 DEF ArriveTop, ArriveMiddle, ArriveBottom, Arrive, InRun
      <4>2. CASE TouchColumn(t)
        <5>1. pc[t] = "touch" /\ pc' = [pc EXCEPT ![t] = pc[t]]
          BY <4>2 DEF TouchColumn, IInv, TypeOK
        <5>2. QED
          BY <5>1 DEF InRun
      <4>3. CASE PassTop(t) \/ PassMiddle(t)
        BY <4>3 DEF PassTop, PassMiddle, InRun
      <4>4. QED
        BY <1>10, <4>1, <4>2, <4>3
    <3>2. DOMAIN pc = Threads
      BY DEF IInv, TypeOK
    <3>3. PICK to : pc' = [pc EXCEPT ![t] = to] /\ (to \in InRun \/ stop)
      BY <3>1
    <3>4. CASE t = 0
      BY ONLY <3>1, <3>2, <3>3, <3>4, ThreadFacts
    <3>5. CASE t # 0
      BY ONLY <3>2, <3>3, <3>5, ThreadFacts
    <3>6. QED
      BY <3>4, <3>5
  <2>3. InCall' <=> InCall
    BY <2>1, <2>2 DEF InCall
  <2>4. QED
    BY <2>1, <2>3, HiddenStep
<1>11. ASSUME NEW t \in Threads, PassBottom(t) PROVE [Contract!Next]_(Contract!vars)
  <2>1. UNCHANGED <<ntasks, ran, stop>>
    BY <1>11 DEF PassBottom
  <2>2. CASE t = 0
    <3>1. ran = AllRun(ntasks)
      BY <1>11, <2>2, BatchDone
    <3>2. \A k \in Indices : k < ntasks => ran[k] = 1
      BY <3>1 DEF AllRun
    <3>3. pc[0] = "wait bottom" /\ pc'[0] = "ready" /\ ~stop /\ result' = 0
      BY <1>11, <2>2 DEF PassBottom, Return, IInv, TypeOK, PlaceInv
    <3>4. InCall /\ ~InCall'
      BY <3>3 DEF InCall, InRun
    <3>5. QED
      BY <2>1, <3>2, <3>3, <3>4, ReturnStep
  <2>3. CASE t # 0
    <3>1. pc'[0] = pc[0] /\ UNCHANGED result
      BY <1>11, <2>3 DEF PassBottom, IInv, TypeOK
    <3>2. QED
      BY <2>1, <3>1, HiddenStep DEF InCall
  <2>4. QED
    BY <2>2, <2>3
<1>12. CASE UNCHANGED vars \/ Terminated
  BY <1>12, HiddenStep DEF Terminated, vars, InCall
<1>13. QED
  BY <1>1, <1>2, <1>3, <1>4, <1>5, <1>6, <1>7, <1>8, <1>9, <1>10, <1>11, <1>12
     DEF Next, MasterStep, ExchangeStep

\* The OpenMP executor keeps the contract of camblas_executor.h for its one
\* caller: it runs every index of a batch exactly once before it returns 0, in
\* an open team, in a region of its own and inside the caller's region.
THEOREM TeamIsExecutor == Spec => ImplementsExecutor
<1>1. Spec => Contract!Spec
  BY InvariantHolds, RefinesInit, RefinesNext, PTL DEF Spec, Contract!Spec
<1>2. QED
  BY <1>1 DEF ImplementsExecutor
=============================================================================
