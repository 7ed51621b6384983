-------------------------------- MODULE Sums --------------------------------
(***************************************************************************)
(* The sum of the values of a function over a finite set, as the           *)
(* properties about amounts use it.                                        *)
(***************************************************************************)
EXTENDS FiniteSetsExt

SumOver(F, S) == MapThenSumSet(LAMBDA x : F[x], S)
=============================================================================
