------------------------------ MODULE Sampling ------------------------------
(***************************************************************************)
(* One life of the sampling loop: a clock that may be set between any two  *)
(* readings, counters that may be reset, files that may break, an          *)
(* Aggregator that folds the readings, until a signal ends it: Agent.Run   *)
(* without uploads, or printWindows.  What do the windows contain?         *)
(*                                                                         *)
(* A reading is the position of a successful Collect in the life of the    *)
(* process.  A window is identified by the reading that opened it.         *)
(***************************************************************************)
EXTENDS Bucket, Functions, FiniteSets

CONSTANTS
    Instants,       \* wall-clock readings
    Moments,        \* in the life of the machine
    Shows(_),       \* what its kernel shows at one
    Widths,         \* window widths the platform may ask for
    MaxReadings     \* bound: readings in the life of the process

ASSUME SamplingAssumption ==
    /\ Instants \subseteq Nat
    /\ Widths \subseteq Nat \ {0}
    /\ MaxReadings \in Nat

\* The columns of the kernel's files are unsigned numbers.
ASSUME KernelAssumption ==
    \A m \in Moments :
        LET k == Shows(m)
        IN  /\ \A s \in CPUStates : k.cpu[s] \in Nat
            /\ {"Total", "Available"} \subseteq DOMAIN k.mem
            /\ {k.mem["Total"], k.mem["Available"], k.load[1]} \subseteq Nat
            /\ IsFiniteSet(DOMAIN k.nets) /\ IsFiniteSet(DOMAIN k.disks)
            /\ \A d \in DOMAIN k.nets :
                  k.nets[d]["NetRx"] \in Nat /\ k.nets[d]["NetTx"] \in Nat
            /\ \A d \in DOMAIN k.disks :
                  k.disks[d]["DiskRead"] \in Nat /\ k.disks[d]["DiskWrite"] \in Nat

VARIABLES
    running,
    width, prev, current,
    contents,       \* the Bucket of each window
    \* history
    taken,          \* how many readings there were
    read,           \* the readings
    seen,           \* the moments they were taken at
    unrated,        \* those that gave no rates
    folded,         \* the readings in each window
    closed          \* windows handed on: [win, start, width]

vars == <<running, width, prev, current, contents, taken, read, seen,
          unrated, folded, closed>>

Agg == INSTANCE Aggregator

Readings == 1..MaxReadings
Stamp(windows) == {[win |-> b.win, start |-> b.start, width |-> width] : b \in windows}
AllWindows == closed \cup Stamp(current)

Init ==
    /\ running = TRUE
    /\ width \in Widths /\ prev = {} /\ current = {}
    /\ contents = [n \in Readings |-> NoBucket]
    /\ taken = 0 /\ read = [n \in {} |-> {}] /\ seen = [n \in {} |-> {}]
    /\ unrated = {} /\ folded = [n \in Readings |-> {}] /\ closed = {}

\* Agent.sample with a Collect that succeeds; one that fails changes nothing.
Sample(m, s) ==
    /\ taken < MaxReadings
    /\ taken' = taken + 1
    /\ read' = [n \in 1..taken' |-> IF n = taken' THEN s ELSE read[n]]
    /\ seen' = [n \in 1..taken' |-> IF n = taken' THEN m ELSE seen[n]]
    /\ Agg!Add(s, taken')
    /\ closed' = closed \cup Stamp(Agg!Completed(s))
    /\ IF Agg!Rated(s)
       THEN /\ UNCHANGED unrated
            /\ folded' = [n \in Readings |->
                  IF \E b \in current' : b.win = n THEN folded[n] \cup {taken'}
                                                   ELSE folded[n]]
            /\ \E b \in current', p \in prev :
                  contents' = [contents EXCEPT ![b.win] = BucketAdd(@, Rates(p, s), s)]
       ELSE unrated' = unrated \cup {taken'} /\ UNCHANGED <<folded, contents>>
    /\ UNCHANGED running

\* applyConfig with another window width.
Reconfigure(w) ==
    /\ running /\ w # width
    /\ closed' = closed \cup Stamp(current)
    /\ Agg!Fresh(w)
    /\ UNCHANGED <<running, contents, taken, read, seen, unrated, folded>>

\* shutdown, or the end of printWindows: the window in progress is handed on.
Stop ==
    /\ running
    /\ running' = FALSE
    /\ closed' = closed \cup Stamp(current) /\ Agg!Flush
    /\ UNCHANGED <<contents, taken, read, seen, unrated, folded>>

Next ==
    \/ \E m \in Moments, at \in Instants, broken \in {{}} \cup {{f} : f \in Files} :
          running /\ \E s \in Collect(Shows(m), at, broken) : Sample(m, s)
    \/ \E w \in Widths : Reconfigure(w)
    \/ Stop

Spec == Init /\ [][Next]_vars

-----------------------------------------------------------------------------
\* Every reading that gave rates is in exactly one window, in progress or
\* handed on, across boundaries, resets, clock steps, changes of width and the
\* end of the loop; one that gave none is in no window.
Conservation ==
    \A n \in 1..taken :
        Cardinality({b \in AllWindows : n \in folded[b.win]})
            = IF n \in unrated THEN 0 ELSE 1

\* A window never spans a reset: its readings follow one another without a gap.
NoMixing ==
    \A b \in AllWindows : \A n \in 1..taken :
        (\E m, k \in folded[b.win] : m <= n /\ n <= k) => n \in folded[b.win]

\* What is in a window was rated against the reading just before it, taken
\* earlier, in the same boot and with no counter that fell in between.
RatedAgainstLast ==
    \A b \in AllWindows : \A n \in folded[b.win] :
        n > 1 /\ Derives(read[n - 1], read[n])

\* A reading is inside the bounds of its window.
InsideWindow ==
    \A b \in AllWindows : \A n \in folded[b.win] :
        b.start <= read[n].at /\ read[n].at < b.start + b.width

\* A reading that gave rates completes a window only when it belongs to a
\* later one, although the clock may be set back between any two readings (the
\* promise of Aggregator.Add's comment).
CompletedByLater ==
    [][taken' # taken /\ taken' \notin unrated' =>
          \A b \in closed' \ closed : read'[taken'].at >= b.start + b.width]_vars

\* Busy, waiting and idle partition the interval, none of them negative, and
\* user, system and steal are parts of busy (the promise of Rates' comments).
SharesPartition ==
    \A b \in closed : \A n \in folded[b.win] :
        LET r == Rates(read[n - 1], read[n])
        IN  /\ r.CPUBusy >= 0
            /\ r.CPUBusy + r.CPUIOWait + r.CPUIdle = Unit
            /\ r.CPUUser + r.CPUSystem + r.CPUSteal <= r.CPUBusy

\* Unit is large enough for the means of windows to be exact: a mean of n
\* values is moved by an (n+1)-th part of a distance.
UnitSuffices ==
    \A m, p \in Moments, i, j \in Instants :
        LET before == Reading(Shows(p), i)
            now == Reading(Shows(m), j)
        IN  Derives(before, now) =>
                \A x \in Metrics, n \in 1..(MaxReadings - 2) :
                    Rates(before, now)[x] % (n * (n + 1)) = 0

\* What a window that is handed on reports, accumulated reading by reading, is
\* about exactly its readings: their number, their boot, the least, mean and
\* greatest of each metric and the counters of the last (Bucket.add, Stat.Add).
WindowReports ==
    \A b \in closed :
        LET report == contents[b.win]
            rates == [n \in folded[b.win] |-> Rates(read[n - 1], read[n])]
            values(m) == [n \in folded[b.win] |-> rates[n][m]]
        IN  /\ report.Samples = Cardinality(folded[b.win])
            /\ \A n \in folded[b.win] : report.BootID = read[n].boot
            /\ \A c \in IO : report.Counters[c] = read[Max(folded[b.win])].io[c]
            /\ \A m \in Metrics :
                  /\ report.Stats[m].Min = Min(Range(values(m)))
                  /\ report.Stats[m].Max = Max(Range(values(m)))
                  /\ report.Stats[m].Avg * report.Samples
                        = SumOver(values(m), folded[b.win])

\* What an interface or disk can have carried since an earlier reading: if its
\* counter fell or is new, at most what it shows now.
Carried(rows, before, d, c) ==
    IF d \in DOMAIN before /\ rows[d][c] >= before[d][c]
    THEN rows[d][c] - before[d][c] ELSE rows[d][c]

\* What the machine can have carried, in bytes.
NetCarried(k, p, c) ==
    SumOver([d \in DOMAIN k.nets |-> Carried(k.nets, p.nets, d, c)], Physical(k))
DiskCarried(k, p, c) ==
    SumOver([d \in DOMAIN k.disks |-> SectorSize * Carried(k.disks, p.disks, d, c)],
            Whole(k))

\* The traffic of a reading in a window is never more than the physical
\* interfaces and the whole disks carried, whichever of them come, go and are
\* reset in between and whichever readings fail (Collect, parseNet, parseDiskIO).
TrafficNotInvented ==
    \A b \in closed : \A n \in folded[b.win] : \A c \in IO :
        LET now == Shows(seen[n])  before == Shows(seen[n - 1])
        IN  read[n].io[c] - read[n - 1].io[c]
              <= IF c \in {"NetRx", "NetTx"} THEN NetCarried(now, before, c)
                                             ELSE DiskCarried(now, before, c)
=============================================================================
