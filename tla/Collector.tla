------------------------------ MODULE Collector ------------------------------
(***************************************************************************)
(* internal/collect: the sample that a reading of the kernel's files gives.*)
(*                                                                         *)
(* A kernel is what the files show: boot; uptime, in hundredths of a       *)
(* second; load, three averages; cpu, a value for each column; mem, in     *)
(* kibibytes; nets and disks, a row of counters for each name listed.  The *)
(* patterns that names are matched with are two sets of names.  A file     *)
(* that is missing or does not parse is broken.                            *)
(***************************************************************************)
EXTENDS Integers, Sums

CONSTANTS
    VirtualNames,   \* interfaces: lo, and those with one of the prefixes
    WholeDiskNames  \* disks that are no partition and no virtual device

Files == {"stat", "meminfo", "loadavg", "uptime", "net/dev", "diskstats",
          "boot_id", "statfs"}
CPUStates == {"user", "nice", "system", "idle", "iowait", "irq", "softirq", "steal"}
CPUColumns == CPUStates \cup {"guest", "guest_nice"}
IO == {"NetRx", "NetTx", "DiskRead", "DiskWrite"}
SectorSize == 512

\* The guest columns are contained in user and nice.
parseCPU(k) == [s \in CPUStates |-> k.cpu[s]]

parseMemory(k) == [f \in DOMAIN k.mem |-> 1024 * k.mem[f]]

parseLoad(k) == [One |-> k.load[1], Five |-> k.load[2], Fifteen |-> k.load[3]]

\* In milliseconds.
parseUptime(k) == 10 * k.uptime

Physical(k) == DOMAIN k.nets \ VirtualNames
Whole(k) == DOMAIN k.disks \cap WholeDiskNames

\* Of the columns, the two that rates are derived from.
parseNet(k, c) == SumOver([d \in Physical(k) |-> k.nets[d][c]], Physical(k))
parseDiskIO(k, c) ==
    SumOver([d \in Whole(k) |-> SectorSize * k.disks[d][c]], Whole(k))

Reading(k, at) ==
    [at |-> at, boot |-> k.boot, uptime |-> parseUptime(k), load |-> parseLoad(k),
     mem |-> parseMemory(k), cpu |-> parseCPU(k),
     io |-> [c \in IO |-> IF c \in {"NetRx", "NetTx"} THEN parseNet(k, c)
                                                      ELSE parseDiskIO(k, c)]]

\* Mutant: a broken file yields zeroes.
CollectPartial(k, at, broken) ==
    {IF "net/dev" \in broken
     THEN [Reading(k, at) EXCEPT !.io.NetRx = 0, !.io.NetTx = 0] ELSE Reading(k, at)}
\* None or one: a file that is broken fails the whole sample.
Collect(k, at, broken) == IF broken = {} THEN {Reading(k, at)} ELSE {}

\* CPUTimes.Total.
Total(cpu) == cpu["user"] + cpu["nice"] + cpu["system"] + cpu["idle"]
                  + cpu["iowait"] + cpu["irq"] + cpu["softirq"] + cpu["steal"]
=============================================================================
