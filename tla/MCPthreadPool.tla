---------------------------- MODULE MCPthreadPool ----------------------------
(* A pool of two workers, two callers and one level of nesting.            *)
EXTENDS PthreadPool
MCSizes == {-1, 0, 1, 2, 3}
MCNestSizes == {1}
=============================================================================
