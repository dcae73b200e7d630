------------------------------- MODULE Bilinear -------------------------------
(***************************************************************************)
(* The routes of the bridge with an algorithm of their own: a call takes   *)
(* the rectangular, the square or the symmetric one, and nothing of one    *)
(* outlives it in another.                                                 *)
(***************************************************************************)
EXTENDS Rectangular, Strassen, Symmetric

vars == <<callVars, rectVars, strassenVars, panels>>

Init ==
  /\ CallInit
  /\ IF call.algorithm = "rectangular" THEN RectInit
     ELSE scratch = <<>> /\ source_pc = 0 /\ hk = 0 /\ peaks = [a |-> 0, b |-> 0]
  /\ IF call.algorithm = "strassen" THEN StrassenInit
     ELSE s = <<>> /\ frames = <<>> /\ failed = FALSE
  /\ IF call.algorithm = "symmetric" THEN SymmetricInit ELSE panels = <<>>

Next == \/ RectNext /\ UNCHANGED <<strassenVars, panels>>
        \/ StrassenNext /\ UNCHANGED <<rectVars, panels>>
        \/ SymmetricNext /\ UNCHANGED <<rectVars, strassenVars>>

Spec == Init /\ [][Next]_vars

(***************************************************************************)
(* The tasks of a batch own what they write: packing tasks, product tiles  *)
(* with the vectors the kernels store, recombined columns and groups of    *)
(* block pairs are disjoint and leave nothing out, for any number of       *)
(* workers, so the order in which an executor runs them does not matter.   *)
(***************************************************************************)
OneWriter == RectangularOneWriter /\ SymmetricOneWriter
=============================================================================
