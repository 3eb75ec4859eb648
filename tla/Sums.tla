-------------------------------- MODULE Sums --------------------------------
(***************************************************************************)
(* Totals over finite sets: of exposures, tokens and slices.               *)
(***************************************************************************)
EXTENDS Integers, FiniteSets, FiniteSetsExt

\* The sum of f[x] over the elements x of S.
SumOf(f, S) == MapThenSumSet(LAMBDA x : f[x], S)
=============================================================================
