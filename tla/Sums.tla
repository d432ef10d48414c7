-------------------------------- MODULE Sums --------------------------------
(***************************************************************************)
(* Sums and products over finite sets, of the values of a function.        *)
(***************************************************************************)
EXTENDS Integers, FiniteSets, FiniteSetsExt

SumOver(f, S) == MapThenSumSet(LAMBDA x : f[x], S)
ProductOver(f, S) == FoldSet(LAMBDA x, n : f[x] * n, 1, S)
=============================================================================
