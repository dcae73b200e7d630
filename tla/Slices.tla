------------------------------- MODULE Slices -------------------------------
(***************************************************************************)
(* How the executors and the kernels deal out an index range 0 .. n-1 to   *)
(* threads: the static slices of the bridge's executors, whose first       *)
(* n % threads members get one index more, and the proportional shares of  *)
(* the shared-grid kernels.                                                *)
(***************************************************************************)
EXTENDS Integers

\* block, tail, begin and end of spin_execute_slice and framework_team_exchange.
Begin(t, n, threads) ==
  t * (n \div threads) + (IF t < n % threads THEN t ELSE n % threads)
EndOverlapping(t, n, threads) == Begin(t, n, threads) + n \div threads + 1
End(t, n, threads) ==
  Begin(t, n, threads) + n \div threads + (IF t < n % threads THEN 1 ELSE 0)

Slice(t, n, threads) == Begin(t, n, threads) .. End(t, n, threads) - 1

\* n * i / parts .. n * (i + 1) / parts, in int division.
ShareFrom(i, n, parts) == (n * i) \div parts
ShareInclusive(i, n, parts) == ShareFrom(i, n, parts) .. ShareFrom(i + 1, n, parts)
Share(i, n, parts) == ShareFrom(i, n, parts) .. ShareFrom(i + 1, n, parts) - 1
=============================================================================
