------------------------------- MODULE MCBridge -------------------------------
EXTENDS Bridge

\* The flags of configs/grace.json with 16 threads.
Production ==
  [backend |-> 0, threads |-> 16, torch |-> FALSE, spin |-> TRUE, openmp |-> TRUE, team |-> TRUE,
   small |-> 0, touch_wide |-> TRUE, touch_max |-> 128, pretouch |-> 3, symmetric |-> 1,
   shared |-> TRUE, dot |-> 0, compact |-> 0, bilinear |-> 0, rect64 |-> TRUE, rect32 |-> TRUE,
   reuse_wide_a |-> TRUE, private_short |-> FALSE, private_k |-> 1024, native_syrk |-> 3]
Production64 == [Production EXCEPT !.threads = 64]
Torch64 == [Production64 EXCEPT !.torch = TRUE]
\* Every experimental route, on the pthread pools.
Experimental ==
  [Production EXCEPT !.threads = 64, !.spin = FALSE, !.openmp = FALSE, !.team = FALSE, !.pretouch = 0,
     !.small = 8, !.dot = 1, !.compact = 1, !.bilinear = 1, !.shared = FALSE, !.native_syrk = 1]
\* OpenMP without team reuse, preparing every output.
PlainOpenMP ==
  [Production EXCEPT !.spin = FALSE, !.team = FALSE, !.pretouch = 2, !.touch_wide = FALSE,
     !.shared = FALSE, !.native_syrk = 1, !.private_short = TRUE, !.reuse_wide_a = FALSE]
\* The spin pool without teams: a grid kernel on OpenMP finds no team.
NoTeam64 == [Torch64 EXCEPT !.team = FALSE]
Vendor == [Production EXCEPT !.backend = 1]

Gemm(fp64, ta, tb, m, n, k) ==
  [kind |-> "gemm", order |-> "column", fp64 |-> fp64, ta |-> ta, tb |-> tb, m |-> m, n |-> n, k |-> k,
   a |-> "A", b |-> "B", c |-> "C", uplo |-> "U",
   lda |-> IF ta = "N" THEN m ELSE k, ldb |-> IF tb = "N" THEN k ELSE n, ldc |-> m,
   alpha |-> 1, beta |-> 0]
\* x' x, with a == b.
Gram(fp64, n, k) == [Gemm(fp64, "T", "N", n, n, k) EXCEPT !.b = "A"]
RowMajor(q) == [q EXCEPT !.order = "row", !.lda = IF q.ta = "N" THEN q.k ELSE q.m,
                         !.ldb = IF q.tb = "N" THEN q.n ELSE q.k, !.ldc = q.n]
Syrk(fp64, order, uplo, ta, n, k, beta) ==
  [Gemm(fp64, ta, "T", n, n, k) EXCEPT !.kind = "syrk", !.order = order, !.uplo = uplo, !.beta = beta,
     !.lda = IF (order = "column") = (ta = "N") THEN n ELSE k]
Query == [Gemm(FALSE, "N", "N", 1, 1, 1) EXCEPT !.kind = "query"]
Edges ==
  LET q == Gemm(FALSE, "N", "N", 8, 6, 4) IN
  { [q EXCEPT !.m = 0], [q EXCEPT !.alpha = 0, !.beta = 2], [q EXCEPT !.k = 0, !.beta = 1],
    [q EXCEPT !.lda = 7], [q EXCEPT !.b = "null"] }

MCScenarios ==
  << \* Workspaces of both precisions, the three kinds of rectangular storage.
    [build |-> Production,
     calls |-> { Gemm(FALSE, "N", "N", 512, 512, 512), RowMajor(Gemm(FALSE, "N", "C", 512, 512, 256)),
                 Gemm(FALSE, "N", "N", 4096, 512, 2048), Gemm(TRUE, "N", "N", 640, 640, 640),
                 [Gemm(FALSE, "N", "N", 700, 300, 300) EXCEPT !.beta = 1] }],
    [build |-> Production,
     calls |-> { Gram(TRUE, 512, 1024), Syrk(TRUE, "column", "U", "N", 512, 512, 0),
                 Syrk(TRUE, "row", "U", "N", 300, 600, 2), Gram(FALSE, 256, 512),
                 Syrk(FALSE, "column", "L", "N", 100, 100, 0) }],
    [build |-> Production, calls |-> Edges \cup { Gemm(TRUE, "N", "N", 4096, 4096, 4096),
                                              Gemm(TRUE, "N", "N", 8192, 8192, 8192) }],
    [build |-> Production64,
     calls |-> { Gemm(FALSE, "N", "N", 1024, 512, 512), Gemm(FALSE, "N", "N", 4096, 512, 2048),
                 Gemm(FALSE, "N", "T", 2048, 512, 1024), Gemm(TRUE, "N", "N", 2048, 2048, 2048) }],
    [build |-> Torch64,
     calls |-> { Gemm(FALSE, "N", "N", 4096, 512, 2048), Gemm(FALSE, "N", "N", 1024, 512, 512),
                 Gram(FALSE, 512, 1024) }],
    [build |-> NoTeam64, calls |-> { Gemm(FALSE, "N", "N", 4096, 512, 2048),
                                     Gemm(FALSE, "N", "N", 1024, 512, 512) }],
    [build |-> Experimental,
     calls |-> { Gemm(FALSE, "N", "N", 256, 256, 256), Gemm(FALSE, "T", "N", 512, 512, 512),
                 Gemm(TRUE, "N", "N", 512, 512, 512), Gemm(TRUE, "N", "T", 512, 300, 256),
                 Gemm(FALSE, "N", "N", 2048, 2048, 2048) }],
    [build |-> PlainOpenMP,
     calls |-> { Syrk(FALSE, "column", "L", "T", 1200, 600, 0),
                 Syrk(FALSE, "row", "U", "T", 900, 300, 0), Syrk(FALSE, "row", "L", "N", 600, 600, 2),
                 Syrk(FALSE, "column", "U", "N", 8, 0, 2), Syrk(FALSE, "column", "U", "N", 8, 0, 1),
                 [Syrk(FALSE, "column", "U", "N", 8, 4, 0) EXCEPT !.lda = 7],
                 [Syrk(FALSE, "column", "U", "N", 8, 4, 0) EXCEPT !.a = "null"] }],
    [build |-> Vendor, calls |-> { Gemm(FALSE, "N", "N", 64, 64, 64), Query,
                                   Syrk(FALSE, "column", "U", "N", 8, 4, 0) }] >>
===============================================================================
