----------------------------- MODULE Aggregator -----------------------------
(***************************************************************************)
(* internal/metrics: the Aggregator, which folds samples into windows      *)
(* aligned to the wall clock.                                              *)
(*                                                                         *)
(* A sample has an instant, at; whether it can be rated against another is *)
(* the parameter Derives.  The module leaves to its user where samples     *)
(* come from and what becomes of the window that a step completes.         *)
(***************************************************************************)
EXTENDS Naturals

CONSTANTS
    Derives(_, _)   \* are there rates between a sample and a later one?

VARIABLES
    width,      \* Aggregator.Window
    prev,       \* the last sample: none or one
    current     \* the window in progress: none or one [win, start]

Truncate(at) == at - (at % width)

\* A new Aggregator.
Fresh(w) == width' = w /\ prev' = {} /\ current' = {}

\* Is there a previous sample, and does Derive find rates between the two?
Rated(s) == \E p \in prev : Derives(p, s)

\* Mutant: the boundary belongs to the window before it.
OtherWindowLate(s) == {b \in current : s.at > b.start + width}
\* The window in progress, if the sample does not belong to it.
OtherWindow(s) == {b \in current : b.start # Truncate(s.at)}

\* Mutants: a reset does not close the window; a boundary does not ship it.
CompletedAtBoundaryOnly(s) == IF Rated(s) THEN OtherWindow(s) ELSE {}
CompletedByResetOnly(s) == IF Rated(s) THEN {} ELSE current
\* What Add(s) returns: none or one window.  (Without a previous sample there
\* is no window in progress either.)
Completed(s) == IF Rated(s) THEN OtherWindow(s) ELSE current

\* Does Add(s) open a new window?
Opens(s) == Rated(s) /\ current = OtherWindow(s)

\* Mutant: a sample without rates does not become the previous one.
RememberRated(s) == prev' = IF prev = {} \/ Rated(s) THEN {s} ELSE prev
Remember(s) == prev' = {s}

\* Add(s); win is the identity of the window it may open.
Add(s, win) ==
    /\ Remember(s)
    /\ current' = IF Opens(s)
                  THEN {[win |-> win, start |-> Truncate(s.at)]}
                  ELSE current \ Completed(s)
    /\ UNCHANGED width

\* Flush; the caller takes current.
Flush == current' = {} /\ UNCHANGED <<width, prev>>
=============================================================================
