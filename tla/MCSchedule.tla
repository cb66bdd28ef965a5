----------------------------- MODULE MCSchedule -----------------------------
(***************************************************************************)
(* Instances of Schedule for TLC: three schedules, two of which differ in  *)
(* the width of a window only, the periods of uploads longer than an       *)
(* exchange may take.                                                      *)
(***************************************************************************)
EXTENDS Schedule

Brisk == [interval |-> 1, flush |-> 3, width |-> 4]
Wide == [Brisk EXCEPT !.width = 8]
Slow == [interval |-> 2, flush |-> 4, width |-> 4]
Replies == {Brisk, Wide, Slow}
=============================================================================
