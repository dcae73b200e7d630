------------------------------ MODULE MCBilinear ------------------------------
EXTENDS Bilinear

MCWeights == <<2, 3, 5, 7, 11, 13, 17, 19, 23, 29, 31, 37, 41>>

RectCall(fp64, ta, tb, m, n, k, workers, levels, neon) ==
  [algorithm |-> "rectangular", fp64 |-> fp64, ta |-> ta, tb |-> tb, m |-> m, n |-> n, k |-> k,
   alpha |-> 1, beta |-> 0, part |-> "both",
   workers |-> workers, levels |-> levels, neon |-> neon, segments |-> FALSE, missing |-> 0]

\* Partial tiles in every direction, one and several depth blocks, streamed
\* slabs, both layouts of each operand, both kernels, 1 to 4 workers.
MCRectCalls ==
  { RectCall(FALSE, FALSE, FALSE, 6, 6, 6, 1, 1, FALSE),
    RectCall(FALSE, FALSE, TRUE, 10, 6, 4, 2, 1, TRUE),
    RectCall(FALSE, FALSE, FALSE, 12, 4, 6, 2, 1, TRUE),
    RectCall(FALSE, FALSE, FALSE, 10, 4, 6, 3, 1, TRUE),
    [RectCall(FALSE, FALSE, FALSE, 12, 4, 6, 2, 1, FALSE) EXCEPT !.segments = TRUE],
    RectCall(FALSE, FALSE, TRUE, 10, 10, 4, 4, 0, FALSE),
    RectCall(TRUE, FALSE, FALSE, 8, 8, 8, 4, 1, TRUE),
    RectCall(TRUE, FALSE, FALSE, 6, 6, 6, 4, 1, FALSE),
    RectCall(TRUE, TRUE, FALSE, 6, 6, 6, 3, 1, FALSE),
    RectCall(TRUE, FALSE, TRUE, 8, 4, 4, 4, 1, TRUE),
    RectCall(TRUE, FALSE, FALSE, 6, 4, 6, 2, 1, FALSE),
    RectCall(TRUE, FALSE, FALSE, 4, 10, 4, 3, 0, FALSE),
    [RectCall(TRUE, FALSE, TRUE, 2, 2, 2, 1, 1, FALSE) EXCEPT !.missing = 1] }

StrassenCall(n, workers, variant, depth_levels, direct) ==
  [algorithm |-> "strassen", ta |-> FALSE, tb |-> FALSE, m |-> n, n |-> n, k |-> n,
   alpha |-> 1, beta |-> 0, part |-> "both",
   workers |-> workers, levels |-> 0, variant |-> variant,
   depth_levels |-> depth_levels, direct |-> direct, missing |-> 0]

MCStrassenCalls ==
  { StrassenCall(4, 2, "ordinary", 1, FALSE),
    StrassenCall(6, 2, "winograd", 1, FALSE),
    StrassenCall(6, 4, "fused", 1, FALSE),
    StrassenCall(4, 2, "ordinary", 2, FALSE),
    StrassenCall(4, 1, "winograd", 2, TRUE),
    [StrassenCall(4, 2, "winograd", 2, FALSE) EXCEPT !.missing = 1],
    StrassenCall(8, 3, "winograd", 2, FALSE) }

SymmetricCall(fp64, transposed, n, k, part, workers) ==
  [algorithm |-> "symmetric", fp64 |-> fp64, ta |-> transposed, tb |-> ~transposed,
   m |-> n, n |-> n, k |-> k, alpha |-> 1, beta |-> 0, part |-> part,
   workers |-> workers, levels |-> 0, missing |-> 0, gap |-> 0,
   micro12 |-> FALSE, padded |-> FALSE, diagonal |-> FALSE, balance |-> FALSE]

\* Both triangles and each of them, several blocks of rows and of depth with
\* partial ones, and the builds: balanced groups (with more or fewer workers
\* than groups), diagonal strips, padded left panels, the wide kernel.
MCSymmetricCalls ==
  { [SymmetricCall(FALSE, FALSE, 8, 3, "both", 2) EXCEPT !.beta = 2, !.alpha = 3],
    [SymmetricCall(TRUE, TRUE, 9, 4, "upper", 2) EXCEPT !.padded = TRUE, !.beta = 1, !.gap = 1],
    [SymmetricCall(TRUE, FALSE, 9, 3, "lower", 3) EXCEPT !.diagonal = TRUE, !.balance = TRUE],
    [SymmetricCall(TRUE, FALSE, 13, 3, "both", 4) EXCEPT !.diagonal = TRUE, !.balance = TRUE,
                                                         !.beta = 2],
    [SymmetricCall(FALSE, TRUE, 8, 2, "both", 4) EXCEPT !.micro12 = TRUE, !.diagonal = TRUE,
                                                        !.balance = TRUE],
    [SymmetricCall(FALSE, FALSE, 5, 2, "upper", 1) EXCEPT !.padded = TRUE],
    [SymmetricCall(FALSE, FALSE, 2, 1, "upper", 1) EXCEPT !.missing = 1] }

MCCalls == MCRectCalls \cup MCStrassenCalls \cup MCSymmetricCalls
=============================================================================
