-------------------------------- MODULE Sums --------------------------------
(***************************************************************************)
(* Finite sums: the totals the code computes in a loop over a map or list. *)
(***************************************************************************)
EXTENDS Integers, FiniteSetsExt

SumOver(f, S) == MapThenSumSet(LAMBDA x : f[x], S)

SumOf(f) == SumOver(f, DOMAIN f)
=============================================================================
