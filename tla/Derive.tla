------------------------------- MODULE Derive -------------------------------
(***************************************************************************)
(* internal/metrics: the rates between two samples.                        *)
(*                                                                         *)
(* A sample's instant is of the wall clock (Collect's UTC() strips the     *)
(* monotonic reading).  Shares, rates and gauges are in fractions of Unit: *)
(* the whole interval is Unit, which stands for 100 percent.               *)
(***************************************************************************)
EXTENDS Collector

CONSTANT Unit   \* divisible by every interval that occurs

ASSUME UnitAssumption == Unit \in Nat \ {0}

\* Mutant: the order of the two samples is not checked.
DerivesUnordered(prev, cur) ==
    /\ cur.at # prev.at
    /\ cur.boot = prev.boot
    /\ Total(cur.cpu) > Total(prev.cpu)
    /\ \A c \in IO : cur.io[c] >= prev.io[c]
\* Is there an honest derivation?
Derives(prev, cur) ==
    /\ cur.at > prev.at
    /\ cur.boot = prev.boot
    /\ Total(cur.cpu) > Total(prev.cpu)
    /\ \A c \in IO : cur.io[c] >= prev.io[c]

Interval(prev, cur) == Total(cur.cpu) - Total(prev.cpu)

\* A state that moved backwards counts as none.
Share(prev, cur, state) ==
    IF cur.cpu[state] < prev.cpu[state] THEN 0
    ELSE (Unit * (cur.cpu[state] - prev.cpu[state])) \div Interval(prev, cur)

Rate(prev, cur, c) == (Unit * (cur.io[c] - prev.io[c])) \div (cur.at - prev.at)

\* Mutant: waiting for the disk is left in the busy share.
BusyWithWait(prev, cur) == Unit - Share(prev, cur, "idle")
Busy(prev, cur) == Unit - Share(prev, cur, "idle") - Share(prev, cur, "iowait")

SaturatingSub(a, b) == IF a < b THEN 0 ELSE a - b

Rates(prev, cur) ==
    LET rates ==
            [CPUBusy   |-> Busy(prev, cur),
             CPUIOWait |-> Share(prev, cur, "iowait"),
             CPUIdle   |-> Share(prev, cur, "idle"),
             CPUUser   |-> Share(prev, cur, "user") + Share(prev, cur, "nice"),
             CPUSystem |-> Share(prev, cur, "system"),
             CPUSteal  |-> Share(prev, cur, "steal"),
             MemUsed   |-> Unit * SaturatingSub(cur.mem.Total, cur.mem.Available),
             Load1     |-> Unit * cur.load.One]
    IN  [m \in DOMAIN rates \cup IO |->
            IF m \in IO THEN Rate(prev, cur, m) ELSE rates[m]]
=============================================================================
