-------------------------------- MODULE Gemm --------------------------------
(***************************************************************************)
(* What one GEMM call promises about C (include/camblas.h and the fallback *)
(* statuses of src/packed.h).  C is cut into tiles; c[t] lists what has    *)
(* been done to tile t since the call began: beta applied once, then one   *)
(* product for each depth block, always in the same order.  Whatever route *)
(* the call takes, a tile only ever moves forward along that list: beta is *)
(* never applied twice, no depth block is added twice, and a call that     *)
(* returns 0 has done all of it.  An invalid call does nothing.            *)
(***************************************************************************)
EXTENDS Integers, SequencesExt

CONSTANTS
  Tiles,      \* the tiles of C
  Depth       \* number of depth blocks

VARIABLES
  valid,      \* may the call compute at all?  Fixed by the call's arguments
  beta,       \* "zero", "one" or "other"; fixed
  product,    \* alpha # 0, k > 0 and C is not empty; fixed
  output,     \* C is not empty; fixed
  c,
  result      \* "running", then "ok" (0) or "error" (-1)

vars == <<valid, beta, product, output, c, result>>

\* The list a finished tile shows: 0 for beta, p for the product of block p.
Finished ==
  (IF output /\ beta # "one" THEN <<0>> ELSE <<>>) \o
  (IF product THEN [p \in 1 .. Depth |-> p] ELSE <<>>)

Init ==
  /\ valid \in BOOLEAN
  /\ beta \in {"zero", "one", "other"}
  /\ product \in BOOLEAN
  /\ output \in BOOLEAN
  /\ product => output
  /\ c = [t \in Tiles |-> <<>>]
  /\ result = "running"

Compute ==
  /\ result = "running"
  /\ valid
  /\ DOMAIN c' = Tiles
  /\ \A t \in Tiles : IsPrefix(c[t], c'[t]) /\ IsPrefix(c'[t], Finished)
  /\ UNCHANGED <<valid, beta, product, output, result>>

Return ==
  /\ result = "running"
  /\ \/ /\ valid
        /\ \A t \in Tiles : c[t] = Finished
        /\ result' = "ok"
     \/ result' = "error"
  /\ UNCHANGED <<valid, beta, product, output, c>>

Next == Compute \/ Return

Spec == Init /\ [][Next]_vars
=============================================================================
