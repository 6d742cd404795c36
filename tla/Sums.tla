-------------------------------- MODULE Sums --------------------------------
(* Sums of the values f[x] of a function, for the x of a finite set.        *)
EXTENDS Integers, FiniteSetsExt

Total(f, S) == MapThenSumSet(LAMBDA x : f[x], S)
=============================================================================
