-------------------------------- MODULE Routes --------------------------------
(***************************************************************************)
(* Which route of the framework bridge takes a GEMM, and how much memory   *)
(* it needs: the try_* functions of framework_blas_bridge.c, the policies  *)
(* of rectangular32_policy.h, rectangular64_policy.h and shared_grid32.h,  *)
(* and what the functions they call accept.  Sizes count elements.         *)
(*                                                                         *)
(* A call x is in column-major form: [fp64, ta, tb, m, n, k, a, b, lda,    *)
(* ldb, ldc, alpha, beta].  A build z holds the switches of the build and  *)
(* what the process finds out about itself: threads, torch.                *)
(***************************************************************************)
EXTENDS Integers, FiniteSets

Ceil(x, y) == (x + y - 1) \div y
Padded(x, y) == Ceil(x, y) * y
Smaller(x, y) == IF x < y THEN x ELSE y
MiB(x, count) == (count * 1048576) \div (IF x.fp64 THEN 8 ELSE 4)

(***************************************************************************)
(* The executor of a call, and the contexts.                               *)
(***************************************************************************)
UsesSmallPool(z, x) ==
  z.small > 0 /\ z.threads >= 64 /\ x.k <= 256 /\ x.m <= 2048 /\ x.n <= 2048

select_call_executor(z, k, current) ==
  IF ~z.spin THEN current
  ELSE IF z.threads >= 64 /\ ~(z.torch /\ k > 1024) THEN "spin" ELSE "omp"

FirstExecutor(z) ==
  IF z.spin /\ z.threads >= 64 THEN "spin" ELSE IF z.spin \/ z.openmp THEN "omp" ELSE "pool"

\* framework_team_call opens a team for the whole call.
WantsTeam(z, x) ==
  /\ z.team /\ z.threads >= 16 /\ x.m <= 8192 /\ x.n <= 8192 /\ x.k <= 8192
  /\ z.spin => z.threads < 64 \/ (z.torch /\ x.k > 1024)

(***************************************************************************)
(* Output preparation.                                                     *)
(***************************************************************************)
prepares_output(z, x) ==
  LET bounded == IF z.touch_wide
                 THEN x.m <= 8192 /\ x.n <= 8192 /\ x.m * x.n <= MiB(x, z.touch_max)
                 ELSE x.m <= 2048 /\ x.n <= 2048
  IN /\ z.pretouch > 0 /\ x.beta = 0
     /\ \/ z.pretouch = 2
        \/ z.threads >= 16 /\ bounded /\ x.k <= 4096 /\ x.m * x.n >= 262144

(***************************************************************************)
(* The routes in the order in which they are tried.                        *)
(***************************************************************************)
symmetric_policy(z, n, k) ==
  z.threads >= 16 /\ n \in 256 .. 1024 /\ k \in 512 .. 4096
TakesSymmetric(z, x) ==
  /\ z.symmetric > 0
  /\ x.m = x.n /\ x.n \in 1 .. 1024 /\ x.k \in 1 .. 65536
  /\ x.a = x.b /\ x.lda = x.ldb /\ x.ta # x.tb /\ x.alpha # 0
  /\ z.symmetric = 2 \/ symmetric_policy(z, x.n, x.k)
SymmetricBlock == 24
SymmetricDepth(x) == IF x.fp64 THEN 64 ELSE 256
symmetric_elements(x) ==
  Ceil(x.n, SymmetricBlock) * Ceil(x.k, SymmetricDepth(x))
    * (SymmetricBlock + SymmetricBlock) * SymmetricDepth(x)

(* The streaming and the one-batch grid kernel of shared_grid32.h.         *)
TakesStream(z, x, executor, threads) ==
  /\ z.shared /\ ~x.fp64 /\ threads = 64 /\ executor \in {"spin", "omp"}
  /\ x.ta = "N" /\ x.tb = "N" /\ x.alpha = 1 /\ x.beta = 0
  /\ x.m > x.n /\ x.m \in 128 .. 8192 /\ x.n \in 128 .. 2048
  /\ x.k > 1024 /\ x.k <= 4096 /\ x.m % 8 = 0 /\ x.n % 16 = 0
StreamDepthOf(executor) == IF executor = "omp" THEN 512 ELSE 768
StreamRows(executor) == IF executor = "omp" THEN 16 ELSE 32
StreamGroups(x, executor) == Ceil(x.n \div (64 \div StreamRows(executor)), 12)
StreamPanels(x, executor) == StreamGroups(x, executor) * (64 \div StreamRows(executor))
STREAM32_PANELS == 192
stream_elements(x, executor) ==
  x.m * Smaller(x.k, StreamDepthOf(executor))
    + StreamPanels(x, executor) * 12 * StreamDepthOf(executor)

TakesBaseShared(z, x, executor, threads) ==
  /\ z.shared /\ ~x.fp64 /\ threads = 64
  /\ x.ta = "N" /\ x.alpha = 1 /\ x.beta = 0
  /\ x.m >= x.n /\ x.m \in 128 .. 8192 /\ x.n \in 128 .. 2048 /\ x.k \in 128 .. 4096
  /\ x.m % 8 = 0 /\ x.n % 16 = 0
  /\ IF x.k > 1024 THEN z.team /\ x.m > x.n /\ x.tb = "N" /\ executor = "omp"
     ELSE x.m <= 2048 /\ executor = "spin"
SharedRows(x) ==
  IF x.tb = "N" /\ x.m = x.n /\ x.n = x.k /\ x.k <= 1024 /\ x.n % 32 = 0 THEN 8 ELSE 16
SharedColumns(x) == 64 \div SharedRows(x)
shared_elements(x) ==
  x.m * x.k + SharedColumns(x) * Padded(x.n \div SharedColumns(x), 12) * x.k

TakesDot(z, x) ==
  /\ z.dot > 0 /\ x.ta = "T" /\ x.tb = "N" /\ x.m <= 2048 /\ x.n <= 2048 /\ x.k <= 1024
  /\ z.dot = 2 \/ (z.threads >= 16 /\ x.m >= 128 /\ x.n >= 128 /\ x.k >= 64)
TakesCompact(z, x) ==
  /\ z.compact > 0
  /\ z.compact = 2 \/ (z.threads >= 32 /\ x.m >= 256 /\ x.n >= 256 /\ x.k \in 128 .. 1024)
TakesBilinear(z, x) ==
  /\ z.bilinear > 0 /\ x.ta = "N" /\ x.tb = "N" /\ x.m = x.n /\ x.n = x.k
  /\ x.n \in 2 .. 2048 /\ x.n % 2 = 0 /\ x.lda = x.n /\ x.ldb = x.n /\ x.ldc = x.n
  /\ x.alpha = 1 /\ x.beta = 0 /\ (z.bilinear = 2 \/ x.n >= 512)

IsStrassen(z, x) ==
  /\ x.ta = "N" /\ x.tb = "N" /\ x.m = x.n /\ x.n = x.k
  /\ x.lda = x.n /\ x.ldb = x.n /\ x.ldc = x.n /\ x.alpha = 1 /\ x.beta = 0
  /\ x.n = 8192 \/ (x.n = 4096 /\ z.threads <= 32)
(* The sources of the compact and of the bilinear route are not part of the *)
(* repository; any size that grows with the shape serves here.             *)
compact_elements(x) == x.m * x.k + x.k * x.n
bilinear_elements(x) == 8 * x.n * x.n
strassen_elements(n) == 17 * (n \div 2) * (n \div 2)

(* try_rect64_d and try_rect32_s.                                          *)
Even(x) == x.m % 2 = 0 /\ x.n % 2 = 0 /\ x.k % 2 = 0
IsSquare(x) == x.tb = "N" /\ x.m = x.n /\ x.n = x.k /\ x.n \in 512 .. 2048
IsTransposed(x) ==
  x.tb = "T" /\ x.m >= x.n /\ x.m <= 2048 /\ x.n >= 512 /\ x.k \in 256 .. 1024
IsDeep32(x, threads) ==
  threads <= 32 /\ x.tb = "N" /\ x.m >= 4 * x.n /\ x.m <= 8192 /\ x.n \in 256 .. 2048
    /\ x.k > 1024 /\ x.k <= 4096
IsCopyA(x) ==
  x.ta = "T" /\ x.tb = "N" /\ x.m = x.n /\ x.m \in 512 .. 2048 /\ x.k \in 256 .. 1024
CopiesA32(x, threads) == threads <= 32 /\ IsCopyA(x) /\ x.m % 4 = 0 /\ x.k % 4 = 0
rectangular_elements(x) ==
  LET hm == x.m \div 2
      hn == x.n \div 2
      rows == IF x.fp64 THEN 6 ELSE 12
  IN 7 * ((Padded(hm, rows) + Padded(hn, 8)) * (x.k \div 2) + hm * hn)
segment_elements(x, threads) ==
  LET hm == x.m \div 2
      hn == x.n \div 2
      stream == threads \in 16 .. 32 /\ x.m >= 4 * x.n /\ x.k > 1024
      depth == IF stream THEN Smaller(x.k \div 2, 256) ELSE x.k \div 2
  IN 7 * Padded(hm, 12) * depth + 7 * Padded(hn, 8) * depth + 7 * hm * hn

TakesRect64(z, x, threads) ==
  LET deep == threads <= 32 /\ x.tb = "N" /\ x.ta = "N" /\ x.m > x.n /\ x.m <= 8192
                /\ x.n \in 256 .. 2048 /\ x.k > 1024 /\ x.k <= 4096
      wide == threads <= 32 /\ x.tb = "N" /\ x.ta = "N" /\ x.m < x.n /\ x.m \in 128 .. 2048
                /\ x.n <= 2048 /\ x.k \in 256 .. 1024
      copy_a == (threads <= 32 \/ (z.spin /\ threads = 64 /\ ~z.torch)) /\ IsCopyA(x)
  IN /\ z.rect64 /\ x.fp64
     /\ x.ta = "N" \/ copy_a
     /\ x.alpha = 1 /\ x.beta = 0 /\ threads \in 16 .. 64
     /\ IsSquare(x) \/ IsTransposed(x) \/ wide \/ deep \/ copy_a
     /\ Even(x) /\ rectangular_elements(x) <= MiB(x, 512)

TakesRect32(z, x, threads) ==
  /\ z.rect32 /\ ~x.fp64
  /\ x.ta = "N" \/ CopiesA32(x, threads)
  /\ x.alpha = 1 /\ x.beta = 0 /\ threads \in 16 .. 64
  /\ threads > 32 => IsDeep32(x, threads)
  /\ IsSquare(x) \/ IsTransposed(x) \/ IsDeep32(x, threads) \/ CopiesA32(x, threads)
  /\ Even(x) /\ rectangular_elements(x) <= MiB(x, 512)

(***************************************************************************)
(* The workspace of the classical and the Strassen route.                  *)
(***************************************************************************)
workspace_elements(n, k) == Padded(n, 8) * k
WantedWorkspace(z, x) ==
  LET plain == workspace_elements(x.n, x.k) * (IF IsStrassen(z, x) THEN 1 ELSE 4)
      envelope == workspace_elements(x.m + 256, x.k + 256)
      wide == workspace_elements(x.n, x.k) + envelope + envelope \div 4
  IN IF /\ z.reuse_wide_a /\ ~IsStrassen(z, x) /\ z.threads >= 16
        /\ x.m >= x.n /\ x.m <= 8192 /\ x.n <= 2048 /\ x.k <= 4096
        /\ wide <= MiB(x, 256) /\ wide > plain
     THEN wide ELSE plain

\* What the route computes with: a shape of the private short policy gets none.
IsPrivateShort(z, x) ==
  /\ z.private_short /\ x.k <= z.private_k /\ x.m <= 2048 /\ x.n <= 2048
  /\ x.k <= 256 \/ z.threads >= 32

(***************************************************************************)
(* cblas_?syrk: whether the native path takes the call.                    *)
(***************************************************************************)
NativeSyrk(z, x) ==
  /\ z.backend = 0
  /\ \/ z.native_syrk = 1
     \/ z.native_syrk = 2 /\ z.threads >= 64 /\ x.n \in 256 .. 1024 /\ x.k >= 1024
     \/ z.native_syrk = 3 /\ z.symmetric > 0 /\ symmetric_policy(z, x.n, x.k)
===============================================================================
