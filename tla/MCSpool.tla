------------------------------ MODULE MCSpool ------------------------------
(***************************************************************************)
(* Instances of Spool for TLC.                                             *)
(***************************************************************************)
EXTENDS Spool

CONSTANTS w1, w2, w3, w4

\* Two windows fit, except the large ones together; w4 is over the bound alone.
MCSize == [w \in Windows |-> CASE w = w1 -> 1 [] w = w2 -> 2 [] w = w3 -> 2
                               [] OTHER -> 4]
=============================================================================
