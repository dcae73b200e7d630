----------------------------- MODULE MCSpinPool -----------------------------
(* A caller and two helpers, batches of fewer and of more tasks than threads. *)
EXTENDS SpinPool
MCSizes == {0, 2, 4}
=============================================================================
