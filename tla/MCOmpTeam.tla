------------------------------ MODULE MCOmpTeam ------------------------------
(* Teams of up to three threads; batches of fewer and of as many tasks.      *)
EXTENDS OmpTeam
MCSizes == {0, 2, 3}
=============================================================================
