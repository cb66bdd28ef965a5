---------------------------- MODULE MCInstaller ----------------------------
(***************************************************************************)
(* An instance of Installer for TLC: two versions, one of which was built  *)
(* twice.                                                                  *)
(***************************************************************************)
EXTENDS Installer

CONSTANTS i1, i2, i3, v1, v2

MCImages == {i1, i2, i3}
MCVersionOf == [i \in MCImages |-> IF i = i3 THEN v2 ELSE v1]
=============================================================================
