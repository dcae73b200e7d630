---------------------------- MODULE BilinearCall ----------------------------
(***************************************************************************)
(* One call of a product, C := alpha * A * B + beta * C: its operands in   *)
(* memory, its status, and what it owes the caller.  The algorithms        *)
(* (rectangular Strassen, one- and two-level Strassen, the symmetric       *)
(* product with B = A^T) extend this module.                               *)
(*                                                                         *)
(* Memory is a function from addresses, counted in elements, to integers.  *)
(* Every step of the Strassen routes is linear in A and in B, so an operand   *)
(* with a single non-zero column of A and a single non-zero row of B, for  *)
(* each choice of the two, shows which products of elements reach which    *)
(* element of C, and with which coefficient.                               *)
(***************************************************************************)
EXTENDS SevenProducts, FiniteSetsExt, Slices

CONSTANTS
  Calls,      \* the calls considered: records, see MCBilinear
  Weights,    \* distinct numbers that fill the non-zero column and row
  Garbage,    \* content of memory nobody has written
  MaxFinite   \* stands for FLT_MAX and DBL_MAX

ASSUME BilinearAssumption ==
  /\ MaxFinite \in Nat \ {0}
  /\ Garbage \in Int

VARIABLES
  call,     \* the arguments and the build's switches
  a, b, c,  \* the memory of the three operands
  pc,       \* where the call is
  status    \* what it returned, Running before that

callVars == <<call, a, b, c, pc, status>>

Running  == 2
Infinite == MaxFinite + 1

\* Leading dimensions leave one element between the columns.
Stride(rows) == rows + 1
lda == Stride(IF call.ta THEN call.k ELSE call.m)
ldb == Stride(IF call.tb THEN call.n ELSE call.k)
ldc == Stride(call.m)

\* A matrix, a function of its two indices, in column-major order.
Matrix(rows, columns) == (0 .. rows - 1) \X (0 .. columns - 1)
Stored(rows, columns, value) ==
  [x \in 0 .. Stride(rows) * columns - 1 |->
     IF x % Stride(rows) < rows
     THEN value[x % Stride(rows), x \div Stride(rows)] ELSE Garbage]

StoredOperand(transposed, rows, columns, value) ==
  IF transposed
  THEN Stored(columns, rows, [e \in Matrix(columns, rows) |-> value[e[2], e[1]]])
  ELSE Stored(rows, columns, value)

\* Elements of the operands and of the result by their logical indices.
ElementA(i, q) == a[IF call.ta THEN q + i * lda ELSE i + q * lda]
ElementB(q, j) == b[IF call.tb THEN j + q * ldb ELSE q + j * ldb]
ElementC(i, j) == c[i + j * ldc]

\* Operands whose product is known, and operands that overflow.
ProductInput(x, qa, qb) ==
  /\ a = StoredOperand(x.ta, x.m, x.k,
                       [e \in Matrix(x.m, x.k) |-> IF e[2] = qa THEN Weights[e[1] + 1] ELSE 0])
  /\ b = StoredOperand(x.tb, x.k, x.n,
                       [e \in Matrix(x.k, x.n) |-> IF e[1] = qb THEN Weights[e[2] + 1] ELSE 0])
\* The symmetric product is quadratic in its operand: two columns, so that a
\* product across them shows.  The right operand is the left one.
SymmetricInput(x, qa, qb) ==
  /\ a = StoredOperand(x.ta, x.n, x.k,
                       [e \in Matrix(x.n, x.k) |->
                          IF e[2] = qa THEN Weights[e[1] + 1]
                          ELSE IF e[2] = qb THEN Weights[x.n - e[1]] ELSE 0])
  /\ b = a
InfiniteA(x, r, s) ==
  /\ a = StoredOperand(x.ta, x.m, x.k,
                       [e \in Matrix(x.m, x.k) |-> IF e = <<r, s>> THEN Infinite ELSE 0])
  /\ b = StoredOperand(x.tb, x.k, x.n, [e \in Matrix(x.k, x.n) |-> 0])
InfiniteB(x, r, s) ==
  /\ a = StoredOperand(x.ta, x.m, x.k, [e \in Matrix(x.m, x.k) |-> 0])
  /\ b = StoredOperand(x.tb, x.k, x.n,
                       [e \in Matrix(x.k, x.n) |-> IF e = <<r, s>> THEN Infinite ELSE 0])

\* What C holds before anything is stored in it.
Untouched == Stored(call.m, call.n, [e \in Matrix(call.m, call.n) |-> Garbage])

CallInit ==
  /\ call \in Calls
  /\ \/ \E qa \in 0 .. call.k - 1, qb \in 0 .. call.k - 1 :
          IF call.algorithm = "symmetric" THEN SymmetricInput(call, qa, qb)
          ELSE ProductInput(call, qa, qb)
     \/ /\ call.levels > 0
        /\ \/ \E r \in 0 .. call.m - 1, s \in 0 .. call.k - 1 : InfiniteA(call, r, s)
           \/ \E r \in 0 .. call.k - 1, s \in 0 .. call.n - 1 : InfiniteB(call, r, s)
  /\ c = Untouched
  /\ pc = "start"
  /\ status = Running

Return(value) == status' = value /\ pc' = "done"

\* A memory after some stores, pairs of an address and a value; stores past
\* its end are lost.
Write(memory, stores) ==
  LET touched == {w[1] : w \in stores}
  IN [x \in DOMAIN memory |->
        IF x \in touched THEN (CHOOSE w \in stores : w[1] = x)[2] ELSE memory[x]]
Addresses(stores) == {w[1] : w \in stores}
Disjoint(f) == \A x, y \in DOMAIN f : x # y => f[x] \cap f[y] = {}

Abs(x) == IF x < 0 THEN -x ELSE x

(* Range verdict of rectangular32.h and rectangular64.h. *)
range_verdict(a_peak, b_peak, k, levels) ==
  LET sum_bound     == IF levels = 1 THEN 4 ELSE 8
      product_bound == IF levels = 1 THEN 16 ELSE 128
  IN /\ a_peak <= MaxFinite \div sum_bound
     /\ b_peak <= MaxFinite \div sum_bound
     /\ a_peak # 0 => b_peak <= ((MaxFinite \div product_bound) \div k) \div a_peak

(* The preflight as a pass of its own (rectangular64_range_safe_op): the    *)
(* columns of each stored operand dealt out to the workers.                 *)
column_max(matrix, rows, stride, first, last) ==
  Max({0} \cup {Abs(matrix[r + s * stride]) : r \in 0 .. rows - 1, s \in first .. last - 1})
range_task(worker, matrix, rows, columns, stride) ==
  column_max(matrix, rows, stride, ShareFrom(worker, columns, call.workers),
             ShareFrom(worker + 1, columns, call.workers))
range_safe ==
  LET workers == 0 .. call.workers - 1
      ar == IF call.ta THEN call.k ELSE call.m
      br == IF call.tb THEN call.n ELSE call.k
      peak_a == Max({range_task(w, a, ar, call.m + call.k - ar, lda) : w \in workers})
      peak_b == Max({range_task(w, b, br, call.k + call.n - br, ldb) : w \in workers})
  IN range_verdict(peak_a, peak_b, call.k, call.levels)

Computed(i, j) == MapThenSumSet(LAMBDA q : ElementA(i, q) * ElementB(q, j), 0 .. call.k - 1)

(***************************************************************************)
(* A call that succeeds has stored exactly the product in the triangles of *)
(* C it owes, and nothing elsewhere or between the columns: packing, the   *)
(* tiles products are computed in, and the recombination or the scatter    *)
(* leave no term out and count none twice, beta included                   *)
(* (rectangular32_execute, rectangular64_execute, strassen_execute,        *)
(* camblas_symmetric_f32).                                                 *)
(***************************************************************************)
Owed(i, j) == \/ call.part = "both"
              \/ call.part = "upper" /\ i <= j
              \/ call.part = "lower" /\ i >= j
ProductComputed ==
  status = 0 =>
    /\ \A i \in 0 .. call.m - 1, j \in 0 .. call.n - 1 :
         ElementC(i, j) = IF Owed(i, j) THEN call.alpha * Computed(i, j) + call.beta * Garbage
                          ELSE Garbage
    /\ \A j \in 0 .. call.n - 1 : c[call.m + j * ldc] = Garbage

(***************************************************************************)
(* Until recombination or scatter starts C is what the caller passed: a route     *)
(* that declines after it has packed and multiplied leaves a C on which    *)
(* the classical route starts afresh (the comment at                       *)
(* src/rectangular64.c:1010, "leaves caller C untouched").                 *)
(***************************************************************************)
OutputKept ==
  status = 1 \/ pc \notin {"combine", "done"} =>
    c = Untouched
=============================================================================
