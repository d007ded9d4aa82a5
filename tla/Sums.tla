-------------------------------- MODULE Sums --------------------------------
(***************************************************************************)
(* sum(f(x) for x in S) over a finite collection of whole numbers.  The    *)
(* fold of the community modules adds in an order of its own, which does   *)
(* not show in whole numbers.                                              *)
(***************************************************************************)
EXTENDS Integers, FiniteSetsExt

SumOn(f, S) == MapThenSumSet(LAMBDA x : f[x], S)
=============================================================================
