----------------------------- MODULE WindowNames -----------------------------
(***************************************************************************)
(* The file names of the spool and their order.                            *)
(*                                                                         *)
(* spool.name formats a window's start instant as 20 digits and the        *)
(* process's sequence number as 6, so that a lexical sort of the directory *)
(* is meant to be chronological.  A name is the pair of numbers it is made *)
(* of; the lexical order of two fixed-width names is the lexicographic     *)
(* order of the pairs.                                                     *)
(***************************************************************************)
EXTENDS Naturals

Name(start, seq) == [start |-> start, seq |-> seq]

\* m sorts before n.
Older(m, n) == \/ m.start < n.start
               \/ m.start = n.start /\ m.seq < n.seq

IsOldest(n, names) == n \in names /\ \A m \in names \ {n} : Older(n, m)
=============================================================================
