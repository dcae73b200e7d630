---------------------------- MODULE MCGridKernels ----------------------------
(* A 3 x 2 grid, whose threads pack unequal shares, over two depth blocks.   *)
EXTENDS GridKernels
=============================================================================
