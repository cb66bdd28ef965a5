----------------------------- MODULE MCSampling -----------------------------
(***************************************************************************)
(* Instances of Sampling for TLC: what a kernel shows in the order in      *)
(* which its counters grow, and a second boot.                             *)
(***************************************************************************)
EXTENDS Sampling, TLC

\* Means are exact in the instances.
ASSUME MeansExact == UnitSuffices

CPU(user, idle, iowait) ==
    [s \in CPUColumns |-> CASE s \in {"user", "guest"} -> user [] s = "idle" -> idle
                            [] s = "iowait" -> iowait [] OTHER -> 0]
Net(n) == [c \in {"NetRx", "NetTx"} |-> IF c = "NetRx" THEN n ELSE 2 * n]
Disk(n) == [c \in {"DiskRead", "DiskWrite"} |-> n]

Kernel(boot, cpu, used, nets, disks) ==
    [boot |-> boot, uptime |-> 100 * cpu["user"], load |-> <<used, 0, 0>>, cpu |-> cpu,
     mem |-> [Total |-> 4, Available |-> 4 - used], nets |-> nets, disks |-> disks]

\* Every state of the CPU grows or stands still.  An interface and a disk join;
\* others grow while they are gone; an interface is reset; the machine is
\* rebooted.
Growing(m) ==
    CASE m = 1 -> Kernel(1, CPU(0, 0, 0), 0, ("eth0" :> Net(0)) @@ ("lo" :> Net(0)),
                         ("sda" :> Disk(0)) @@ ("sda1" :> Disk(0)))
      [] m = 2 -> Kernel(1, CPU(1, 0, 1), 1,
                         ("eth0" :> Net(1)) @@ ("eth1" :> Net(2)) @@ ("lo" :> Net(4)),
                         ("sda" :> Disk(1)) @@ ("sda1" :> Disk(1)) @@ ("sdb" :> Disk(1)))
      [] m = 3 -> Kernel(1, CPU(2, 1, 1), 3, ("eth0" :> Net(4)) @@ ("lo" :> Net(5)),
                         ("sda" :> Disk(3)) @@ ("sda1" :> Disk(2)))
      [] m = 4 -> Kernel(1, CPU(2, 3, 2), 2, ("eth0" :> Net(0)) @@ ("lo" :> Net(6)),
                         ("sda" :> Disk(4)) @@ ("sda1" :> Disk(3)))
      [] m = 5 -> Kernel(2, CPU(2, 4, 2), 2, ("eth0" :> Net(1)) @@ ("lo" :> Net(1)),
                         ("sda" :> Disk(1)) @@ ("sda1" :> Disk(0)))

\* Time accounted as waiting is given back, as Linux does on several CPUs.
Returned(m) == CASE m = 1 -> Kernel(1, CPU(0, 0, 1), 0, "eth0" :> Net(0), "sda" :> Disk(0))
                 [] m = 2 -> Kernel(1, CPU(0, 3, 0), 0, "eth0" :> Net(0), "sda" :> Disk(0))
=============================================================================
