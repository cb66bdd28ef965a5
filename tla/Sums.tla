-------------------------------- MODULE Sums --------------------------------
(***************************************************************************)
(* Totals over finite sets: of the sizes of files, of the rows of a file   *)
(* of the kernel.                                                          *)
(***************************************************************************)
EXTENDS FiniteSetsExt

SumOver(f, S) == MapThenSumSet(LAMBDA x : f[x], S)
=============================================================================
