------------------------------ MODULE Symmetric ------------------------------
(***************************************************************************)
(* The symmetric product C := alpha * X * X^T + beta * C, X = op(A), of    *)
(* src/symmetric/symmetric.c: one batch packs every block of X both as a   *)
(* left and as a right panel, a second one computes the block pairs on and *)
(* above the diagonal and scatters each into the triangles that are asked  *)
(* for.  Contiguous groups of block pairs, balanced by their work, may be  *)
(* the tasks of the second batch.                                          *)
(*                                                                         *)
(* Panels are addresses in one scratch memory; block sizes are constants.  *)
(***************************************************************************)
EXTENDS BilinearCall, SequencesExt

CONSTANTS
  SB,            \* CAMBLAS_SYMMETRIC_BLOCK
  SymK32, SymK64, \* CAMBLAS_SYMMETRIC_K32 and _K64
  Micro8, Micro12, \* columns of a right micro-panel: 8 and 12
  Lanes,         \* elements of a vector
  MaxPackTasks   \* tasks of the packing batch: 256

VARIABLE panels  \* the scratch: left panels ap, then right panels bp

(***************************************************************************)
(* Geometry.                                                               *)
(***************************************************************************)
KC    == IF call.fp64 THEN SymK64 ELSE SymK32
SNR   == IF call.micro12 THEN Micro12 ELSE Micro8
Group == 3 * Lanes
PaddedGroup == 4 * Lanes
AP_ROWS == IF call.padded THEN CeilDiv(SB, Group) * PaddedGroup ELSE SB
nb == CeilDiv(call.n, SB)
kb == CeilDiv(call.k, KC)
slots == nb * kb
camblas_symmetric_bytes == slots * (AP_ROWS + SB) * KC + call.gap
bp == slots * AP_ROWS * KC + call.gap

RowsOf(rb)  == Least(call.n - rb * SB, SB)
DepthOf(kp) == Least(call.k - kp * KC, KC)

\* Where row i, depth l of a block lies in its left and in its right panel.
LeftIndex(i, l) ==
  IF call.padded THEN (i \div Group) * PaddedGroup * KC + l * PaddedGroup + (i % Group)
  ELSE l * SB + i
RightIndex(i, l) == (i \div SNR) * SNR * KC + l * SNR + (i % SNR)
LeftPanel(rb, kp)  == (rb * kb + kp) * AP_ROWS * KC
RightPanel(rb, kp) == bp + (rb * kb + kp) * SB * KC

\* Where the micro-kernels look for row i, depth l of a left panel; they step
\* through a right panel by whole micro-panels, as RightIndex does.
camblas_micro8_a_index(i, l, ld, group, micro) ==
  LET physical == IF micro = 2 THEN (group \div 3) * 4 ELSE group
  IN IF micro = 0 THEN i + l * ld
     ELSE (i \div group) * physical * ld + l * physical + (i % group)
KernelLeft(i, l) ==
  IF call.padded THEN camblas_micro8_a_index(i, l, KC, 3 * Lanes, 2)
  ELSE camblas_micro8_a_index(i, l, SB, 3 * Lanes, 0)

(***************************************************************************)
(* The packing batch: a task packs a range of slots, a slot is one block   *)
(* at one depth.  Rows past the end are zero, depths past it are not       *)
(* written.                                                                *)
(***************************************************************************)
symmetric_dual_pack(rb, kp) ==
  LET x(i, l) == IF i < RowsOf(rb) THEN ElementA(rb * SB + i, kp * KC + l) ELSE 0
  IN UNION {{<<LeftPanel(rb, kp) + LeftIndex(i, l), x(i, l)>>,
             <<RightPanel(rb, kp) + RightIndex(i, l), x(i, l)>>} :
            i \in 0 .. SB - 1, l \in 0 .. DepthOf(kp) - 1}
chunk == CeilDiv(slots, MaxPackTasks)
PackTasks == 0 .. CeilDiv(slots, chunk) - 1
symmetric_pack(task) ==
  UNION {symmetric_dual_pack(slot \div kb, slot % kb) :
         slot \in task * chunk .. Least((task + 1) * chunk, slots) - 1}

(***************************************************************************)
(* The block pairs in the code's order, their work, and the contiguous     *)
(* groups whose largest work is the least that the workers allow.          *)
(***************************************************************************)
tiles == SetToSortSeq({t \in (0 .. nb - 1) \X (0 .. nb - 1) : t[1] <= t[2]},
                      LAMBDA t, u : t[1] < u[1] \/ (t[1] = u[1] /\ t[2] < u[2]))

\* Only the strips up to the diagonal of a diagonal block are computed.
Strips(rb, cb) == call.diagonal /\ ~call.micro12 /\ rb = cb
Height(rb, cb, j) ==
  IF Strips(rb, cb) THEN Least((j \div Micro8 + 1) * Micro8, RowsOf(rb)) ELSE RowsOf(rb)
pair_weight(t) ==
  MapThenSumSet(LAMBDA j : Height(t[1], t[2], j), 0 .. RowsOf(t[2]) - 1)

\* First fit: where the groups start when none may weigh more than limit.
Dealt(weights, limit) ==
  FoldLeft(LAMBDA g, i : IF g.sum + weights[i] > limit
                         THEN [starts |-> Append(g.starts, i), sum |-> weights[i]]
                         ELSE [g EXCEPT !.sum = @ + weights[i]],
           [starts |-> <<1>>, sum |-> 0], [i \in DOMAIN weights |-> i]).starts
symmetric_groups(weights, workers) ==
  LET total == FoldLeft(LAMBDA x, y : x + y, 0, weights)
      least == Min({l \in Max(ToSet(weights)) .. total : Len(Dealt(weights, l)) <= workers})
  IN Dealt(weights, least)
Tasks ==
  LET pairs  == tiles
      starts == IF call.balance
                THEN symmetric_groups([i \in DOMAIN pairs |-> pair_weight(pairs[i])], call.workers)
                ELSE [i \in DOMAIN pairs |-> i]
  IN [g \in DOMAIN starts |->
        SubSeq(pairs, starts[g], IF g = Len(starts) THEN Len(pairs) ELSE starts[g + 1] - 1)]

(***************************************************************************)
(* One block pair: its product from the panels, then one pass over C for   *)
(* each triangle; with full = 1 the second pass reads what the first left. *)
(***************************************************************************)
product(rb, cb, i, j) ==
  IF i >= Height(rb, cb, j) THEN Garbage
  ELSE MapThenSumSet(LAMBDA kp : MapThenSumSet(
         LAMBDA l : panels[LeftPanel(rb, kp) + KernelLeft(i, l)]
                      * panels[RightPanel(cb, kp) + RightIndex(j, l)],
         0 .. DepthOf(kp) - 1), 0 .. kb - 1)

Accumulated(memory, at, value) ==
  <<at, IF call.beta = 0 THEN value ELSE value + call.beta * memory[at]>>
\* Rows of column j that the first pass stores, columns of row i for the second.
UpperRows(rb, cb, j) == 0 .. (IF rb = cb THEN Least(j + 1, RowsOf(rb)) ELSE RowsOf(rb)) - 1
LowerColumns(rb, cb, i) ==
  (IF rb # cb THEN 0 ELSE IF call.part = "both" THEN i + 1 ELSE i) .. RowsOf(cb) - 1
symmetric_compute(rb, cb) ==
  LET value(i, j) == call.alpha * product(rb, cb, i, j)
      first == IF call.part = "lower" THEN {}
               ELSE UNION {{Accumulated(c, (cb * SB + j) * ldc + rb * SB + i, value(i, j)) :
                              i \in UpperRows(rb, cb, j)} : j \in 0 .. RowsOf(cb) - 1}
      between == Write(c, first)
      second == IF call.part = "upper" THEN {}
                ELSE UNION {{Accumulated(between, (rb * SB + i) * ldc + cb * SB + j, value(i, j)) :
                               j \in LowerColumns(rb, cb, i)} : i \in 0 .. RowsOf(rb) - 1}
  IN second \cup {x \in first : x[1] \notin Addresses(second)}
symmetric_group(pairs) == UNION {symmetric_compute(t[1], t[2]) : t \in ToSet(pairs)}

(***************************************************************************)
(* The call.                                                               *)
(***************************************************************************)
SymmetricInit == panels = [x \in 0 .. camblas_symmetric_bytes - 1 |-> Garbage]

\* Arguments, scratch and vector length, before the first batch.
SymmetricReject ==
  /\ pc = "start" /\ call.algorithm = "symmetric" /\ call.missing > 0
  /\ Return(-1)
  /\ UNCHANGED <<call, a, b, c, panels>>

SymmetricPack ==
  /\ pc = "start" /\ call.algorithm = "symmetric" /\ call.missing = 0
  /\ panels' = Write(panels, UNION {symmetric_pack(t) : t \in PackTasks})
  /\ pc' = "tiles"
  /\ UNCHANGED <<call, a, b, c, status>>

SymmetricPackFails ==
  /\ pc = "start" /\ call.algorithm = "symmetric" /\ call.missing = 0
  /\ Return(-1)
  /\ UNCHANGED <<call, a, b, c, panels>>

SymmetricCompute ==
  /\ pc = "tiles"
  /\ c' = Write(c, UNION {symmetric_group(pairs) : pairs \in ToSet(Tasks)})
  /\ Return(0)
  /\ UNCHANGED <<call, a, b, panels>>

\* The executor's own status is returned, after any of the tasks have run.
SymmetricComputeFails ==
  /\ pc = "tiles"
  /\ \E ran \in SUBSET ToSet(Tasks) :
       c' = Write(c, UNION {symmetric_group(pairs) : pairs \in ran})
  /\ Return(-1)
  /\ UNCHANGED <<call, a, b, panels>>

SymmetricNext ==
  \/ SymmetricReject \/ SymmetricPack \/ SymmetricPackFails
  \/ SymmetricCompute \/ SymmetricComputeFails

\* The symmetric part of OneWriter (module Bilinear): packing tasks fill both
\* panels of every block, and no two groups store in one element of C.
SymmetricOneWriter ==
  /\ pc = "start" /\ call.algorithm = "symmetric" =>
       LET written == [t \in PackTasks |-> Addresses(symmetric_pack(t))]
       IN /\ Disjoint(written)
          /\ Cardinality(UNION {written[t] : t \in PackTasks}) = 2 * nb * SB * call.k
  /\ pc = "tiles" =>
       LET tasks == Tasks
       IN /\ call.balance => Len(tasks) <= call.workers
          /\ Disjoint([t \in DOMAIN tasks |-> Addresses(symmetric_group(tasks[t]))])
=============================================================================
