------------------------------- MODULE Strassen -------------------------------
(***************************************************************************)
(* The bridge's square Strassen product, framework/strassen_one_level.h:   *)
(* ordinary or Winograd sums in scratch planes, seven sub-products that    *)
(* the planned GEMM computes one after the other, and the recombination;   *)
(* with two levels each sub-product is a Strassen product again, on copies *)
(* of its operands or on the operands themselves.                          *)
(*                                                                         *)
(* An operand is a reference [mem, at, ld]: a memory, an address and a     *)
(* leading dimension.  frames is the stack of active strassen_execute      *)
(* calls, the innermost last.                                              *)
(***************************************************************************)
EXTENDS BilinearCall, Sequences

CONSTANT PlanePad  \* STRASSEN_PLANE_PAD_BYTES, in elements

VARIABLES
  s,       \* the scratch allocation
  frames,  \* active calls: [n, a, b, c, base, levels, product, combine]
  failed   \* a batch or a sub-product has failed

strassenVars == <<s, frames, failed>>

WINOGRAD == call.variant = "winograd"
FUSED_SUMS == call.variant = "fused"
STRASSEN_PLANES == IF FUSED_SUMS THEN 7 ELSE 17
PRODUCT_BASE == IF FUSED_SUMS THEN 0 ELSE 10

plane(n) == (n \div 2) * (n \div 2) + PlanePad
copies(n) == IF call.direct THEN 0 ELSE 2 * (n \div 2) * (n \div 2)
scratch_levels == IF call.depth_levels = 2 /\ call.n % 4 = 0 THEN 2 ELSE 1
scratch_size ==
  STRASSEN_PLANES * plane(call.n)
    + (IF scratch_levels = 2
       THEN copies(call.n) + STRASSEN_PLANES * plane(call.n \div 2) ELSE 0)

(***************************************************************************)
(* Reading and writing through references.                                 *)
(***************************************************************************)
Memory(mem) == CASE mem = "a" -> a [] mem = "b" -> b [] mem = "c" -> c [] mem = "s" -> s
Read(x, i, j) ==
  LET at == x.at + i + j * x.ld
  IN IF at \in DOMAIN Memory(x.mem) THEN Memory(x.mem)[at] ELSE Garbage

Offset(x, i, j) == [x EXCEPT !.at = @ + i + j * x.ld]
Quadrant(x, h) == [q \in Quadrants |->
  Offset(x, IF q \in {"21", "22"} THEN h ELSE 0, IF q \in {"12", "22"} THEN h ELSE 0)]
PlaneOf(f, p) == [mem |-> "s", at |-> f.base + p * plane(f.n), ld |-> f.n \div 2]

\* The stores of a matrix of values into x, in the columns the task is dealt.
Stores(x, h, cols, value) ==
  {<<x.at + i + j * x.ld, value[i, j]>> : i \in 0 .. h - 1, j \in cols}

(***************************************************************************)
(* The sums that the first batch stores in planes 0 .. 9, element by       *)
(* element, and the recombination of the seven products.                   *)
(***************************************************************************)
ordinary_sums(va, vb) ==
  <<va["11"] + va["22"], vb["11"] + vb["22"], va["21"] + va["22"], vb["12"] - vb["22"],
    vb["21"] - vb["11"], va["11"] + va["12"], va["21"] - va["11"], vb["11"] + vb["12"],
    va["12"] - va["22"], vb["21"] + vb["22"]>>
winograd_sums(va, vb) ==
  LET s1 == va["21"] + va["22"]
      s2 == s1 - va["11"]
      t1 == vb["12"] - vb["11"]
      t2 == vb["22"] - t1
  IN <<s1, s2, va["11"] - va["21"], va["12"] - s2, t1, t2, vb["22"] - vb["12"], t2 - vb["21"]>>

winograd_recombined(m) ==
  LET u2 == m[1] + m[6]
      u3 == u2 + m[7]
      u4 == u2 + m[5]
  IN [q \in Quadrants |->
        CASE q = "11" -> m[1] + m[2] [] q = "12" -> u4 + m[3]
          [] q = "21" -> u3 - m[4]   [] q = "22" -> u3 + m[5]]

(***************************************************************************)
(* Operands of the seven sub-products: a quadrant of A or B, or a plane.   *)
(***************************************************************************)
Q(quadrant) == <<"quadrant", quadrant>>
P(number)   == <<"plane", number>>
left_operands  == <<P(0), P(2), Q("11"), Q("22"), P(5), P(6), P(8)>>
right_operands == <<P(1), Q("11"), P(3), P(4), Q("22"), P(7), P(9)>>
winograd_left  == <<Q("11"), Q("12"), P(3), Q("22"), P(0), P(1), P(2)>>
winograd_right == <<Q("11"), Q("21"), Q("22"), P(7), P(4), P(5), P(6)>>

Operand(f, x, entry) ==
  IF entry[1] = "quadrant" THEN Quadrant(x, f.n \div 2)[entry[2]] ELSE PlaneOf(f, entry[2])
LeftOf(f)  == Operand(f, f.a, At(IF WINOGRAD THEN winograd_left ELSE left_operands, f.product))
RightOf(f) == Operand(f, f.b, At(IF WINOGRAD THEN winograd_right ELSE right_operands, f.product))

\* A factor of the fused build: one quadrant, or the sum of two.
FusedFactor(x, h, first, second, sign, i, j) ==
  Read(Quadrant(x, h)[first], i, j)
    + (IF second = None THEN 0 ELSE sign * Read(Quadrant(x, h)[second], i, j))

\* The GEMM that PlannedGemm models, on two matrices of values.
GemmOf(h, x, y) ==
  [i \in 0 .. h - 1, j \in 0 .. h - 1 |->
     MapThenSumSet(LAMBDA q : x[i, q] * y[q, j], 0 .. h - 1)]

(***************************************************************************)
(* The stack of calls.                                                     *)
(***************************************************************************)
NewFrame(n, x, y, z, base, levels) ==
  [n |-> n, a |-> x, b |-> y, c |-> z, base |-> base, levels |-> levels,
   stage |-> IF FUSED_SUMS THEN "products" ELSE "sums", product |-> 0]

StrassenInit ==
  /\ s = [x \in 0 .. scratch_size - call.missing - 1 |-> Garbage]
  /\ frames = <<>>
  /\ failed = FALSE

f == frames[Len(frames)]
half == f.n \div 2
InFrame(stage) == frames # <<>> /\ ~failed /\ f.stage = stage
Advance(stage) == frames' = [frames EXCEPT ![Len(frames)].stage = stage]
NextProduct(stack) ==
  IF stack[Len(stack)].product < 6
  THEN [stack EXCEPT ![Len(stack)].product = @ + 1, ![Len(stack)].stage = "products"]
  ELSE [stack EXCEPT ![Len(stack)].stage = "combine"]

Columns == UNION {Share(t, half, call.workers) : t \in 0 .. call.workers - 1}
Unchanged == UNCHANGED <<call, a, b>>

\* strassen_one_level, called by the bridge with the caller's C.
StrassenStart ==
  /\ pc = "start" /\ call.algorithm = "strassen" /\ Cardinality(DOMAIN s) >= scratch_size
  /\ pc' = "running"
  /\ frames' = <<NewFrame(call.n, [mem |-> "a", at |-> 0, ld |-> lda],
                          [mem |-> "b", at |-> 0, ld |-> ldb],
                          [mem |-> "c", at |-> 0, ld |-> ldc], 0, scratch_levels)>>
  /\ Unchanged /\ UNCHANGED <<c, status, s, failed>>

\* A scratch that is too small is an error before anything is computed.
StrassenReject ==
  /\ pc = "start" /\ call.algorithm = "strassen" /\ Cardinality(DOMAIN s) < scratch_size
  /\ Return(-1)
  /\ Unchanged /\ UNCHANGED <<c, strassenVars>>

\* strassen_task with combine = 0 on every column.
Sums ==
  /\ InFrame("sums")
  /\ LET values == [i \in 0 .. half - 1, j \in Columns |->
           LET va == [q \in Quadrants |-> Read(Quadrant(f.a, half)[q], i, j)]
               vb == [q \in Quadrants |-> Read(Quadrant(f.b, half)[q], i, j)]
           IN IF WINOGRAD THEN winograd_sums(va, vb) ELSE ordinary_sums(va, vb)]
     IN s' = Write(s, UNION {Stores(PlaneOf(f, p), half, Columns,
                                    [e \in DOMAIN values |-> At(values[e], p)]) :
                             p \in 0 .. (IF WINOGRAD THEN 7 ELSE 9)})
  /\ Advance("products")
  /\ Unchanged /\ UNCHANGED <<c, pc, status, failed>>

\* The planned GEMM of one sub-product into its plane.
SubProduct ==
  /\ InFrame("products") /\ f.levels = 1
  /\ LET inner == 0 .. half - 1
         A == [i \in inner, q \in inner |->
                IF FUSED_SUMS
                THEN FusedFactor(f.a, half, At(left, f.product), At(left2, f.product),
                                 At(sign_a, f.product), i, q)
                ELSE Read(LeftOf(f), i, q)]
         B == [q \in inner, j \in inner |->
                IF FUSED_SUMS
                THEN FusedFactor(f.b, half, At(right, f.product), At(right2, f.product),
                                 At(sign_b, f.product), q, j)
                ELSE Read(RightOf(f), q, j)]
     IN s' = Write(s, Stores(PlaneOf(f, PRODUCT_BASE + f.product), half, inner,
                             GemmOf(half, A, B)))
  /\ frames' = NextProduct(frames)
  /\ Unchanged /\ UNCHANGED <<c, pc, status, failed>>

\* strassen_copy_task: contiguous copies of the child's operands.
CopyAt(which) == [mem |-> "s", ld |-> half,
                  at |-> STRASSEN_PLANES * plane(f.n) + which * half * half]
ChildBaseOverlapping == STRASSEN_PLANES * plane(f.n)
ChildBase == STRASSEN_PLANES * plane(f.n) + copies(f.n)
ValuesOf(x) == [i \in 0 .. half - 1, j \in Columns |-> Read(x, i, j)]
CopyOperands ==
  /\ InFrame("products") /\ f.levels = 2 /\ ~call.direct
  /\ s' = Write(s, Stores(CopyAt(0), half, Columns, ValuesOf(LeftOf(f)))
                     \cup Stores(CopyAt(1), half, Columns, ValuesOf(RightOf(f))))
  /\ Advance("child")
  /\ Unchanged /\ UNCHANGED <<c, pc, status, failed>>

Recurse ==
  /\ InFrame(IF call.direct THEN "products" ELSE "child") /\ f.levels = 2
  /\ frames' = Append([frames EXCEPT ![Len(frames)].stage = "waiting"],
       NewFrame(half, IF call.direct THEN LeftOf(f) ELSE CopyAt(0),
                IF call.direct THEN RightOf(f) ELSE CopyAt(1),
                PlaneOf(f, PRODUCT_BASE + f.product), ChildBase, 1))
  /\ Unchanged /\ UNCHANGED <<c, pc, status, s, failed>>

\* strassen_task with combine = 1 on the columns cols.
CombineOf(cols) ==
  LET Product7(i, j) == [p \in 1 .. 7 |-> Read(PlaneOf(f, PRODUCT_BASE + p - 1), i, j)]
      At4(i, j) == IF WINOGRAD THEN winograd_recombined(Product7(i, j))
                   ELSE Recombined(Product7(i, j))
  IN UNION {Stores(Quadrant(f.c, half)[q], half, cols,
                   [i \in 0 .. half - 1, j \in cols |-> At4(i, j)[q]]) :
            q \in Quadrants}
WriteResult(stores) ==
  IF f.c.mem = "c" THEN c' = Write(c, stores) /\ UNCHANGED s
  ELSE s' = Write(s, stores) /\ UNCHANGED c

CombineChild ==
  /\ InFrame("combine") /\ Len(frames) = 2
  /\ WriteResult(CombineOf(Columns))
  /\ frames' = NextProduct(SubSeq(frames, 1, 1))
  /\ Unchanged /\ UNCHANGED <<pc, status, failed>>

CombineResult ==
  /\ InFrame("combine") /\ Len(frames) = 1
  /\ WriteResult(CombineOf(Columns))
  /\ frames' = <<>>
  /\ pc' = "done" /\ status' = 0
  /\ Unchanged /\ UNCHANGED failed

\* A batch or a sub-product fails: every caller up to the bridge returns the
\* error.  Some workers may have stored their columns of the recombination.
StrassenFails ==
  /\ frames # <<>> /\ ~failed
  /\ \/ f.stage # "combine" /\ UNCHANGED <<c, s>>
     \/ /\ f.stage = "combine"
        /\ \E t \in 0 .. call.workers - 1 : WriteResult(CombineOf(Share(t, half, call.workers)))
  /\ failed' = TRUE /\ frames' = <<>>
  /\ pc' = "done" /\ status' = -1
  /\ Unchanged

StrassenNext == \/ StrassenReject \/ StrassenStart \/ Sums \/ SubProduct \/ CopyOperands \/ Recurse
                \/ CombineChild \/ CombineResult \/ StrassenFails

(***************************************************************************)
(* A parent's sums, the products it has already computed and the copies of *)
(* the current operands survive its child: all a child changes outside its *)
(* own planes is the one plane that receives its result (the carving of    *)
(* one allocation in strassen_scratch_init and strassen_execute).          *)
(***************************************************************************)
ParentArea == 0 .. STRASSEN_PLANES * plane(call.n) + copies(call.n) - 1
ResultPlane == LET x == PlaneOf(frames[1], PRODUCT_BASE + frames[1].product)
               IN x.at .. x.at + plane(call.n) - 1
ParentKept ==
  [][Len(frames) = 2 =>
       \A x \in ParentArea \ ResultPlane : s'[x] = s[x]]_<<s, frames>>
=============================================================================
