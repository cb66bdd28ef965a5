------------------------------- MODULE Bucket -------------------------------
(***************************************************************************)
(* internal/metrics: what a window reports.                                *)
(*                                                                         *)
(* Swap, whose figures are treated like those of the memory, and what is   *)
(* passed on (the totals, the file systems) are left out; so is the        *)
(* encoding.                                                               *)
(***************************************************************************)
EXTENDS Derive

Metrics == {"CPUBusy", "CPUIOWait", "CPUSteal", "CPUUser", "CPUSystem",
            "MemUsed", "Load1"} \cup IO

\* The zero values.
NoStat == [Min |-> 0, Avg |-> 0, Max |-> 0, N |-> 0]
NoBucket == [Samples |-> 0, BootID |-> 0, Stats |-> [m \in Metrics |-> NoStat],
             Counters |-> [c \in IO \cup {"uptime"} |-> 0]]

\* Mutant: the mean is moved before the new reading is counted.
StatAddCountLate(s, v) ==
    [Min |-> IF s.N = 0 THEN v ELSE Min({s.Min, v}),
     Max |-> IF s.N = 0 THEN v ELSE Max({s.Max, v}),
     N   |-> s.N + 1,
     Avg |-> IF s.N = 0 THEN v ELSE s.Avg + (v - s.Avg) \div s.N]
\* Stat.Add: the mean is moved by the new reading's share of the distance.
StatAdd(s, v) ==
    [Min |-> IF s.N = 0 THEN v ELSE Min({s.Min, v}),
     Max |-> IF s.N = 0 THEN v ELSE Max({s.Max, v}),
     N   |-> s.N + 1,
     Avg |-> s.Avg + (v - s.Avg) \div (s.N + 1)]

\* Bucket.add.
BucketAdd(b, r, s) ==
    [Samples |-> b.Samples + 1,
     BootID |-> s.boot,
     Stats |-> [m \in Metrics |-> StatAdd(b.Stats[m], r[m])],
     Counters |-> [c \in IO \cup {"uptime"} |->
                      IF c = "uptime" THEN s.uptime \div 1000 ELSE s.io[c]]]
=============================================================================
