-------------------------------- MODULE Sums --------------------------------
(* A SUM() query: what the values of a column add up to over a set of rows.   *)
EXTENDS Integers, FiniteSetsExt

SumOver(f, S) == MapThenSumSet(LAMBDA x : f[x], S)
=============================================================================
