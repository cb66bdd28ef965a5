# kloudy-agent in TLA+

A model of kloudy-agent: the daemon that samples a machine's counters once a
second, folds them into windows of ten, keeps the windows in a spool directory
and uploads them to the platform. The modules describe the parts of the program
that keep state and the way they work together; TLC checks them on small
instances, and TLAPS proves the main results for every instance.

## The system

| part | code | state | operations |
| --- | --- | --- | --- |
| agent loop | `internal/agent/agent.go` | settings, failures, retryAt, the aggregator | Run's two selects; sample, persist, upload, handleFailure, applyConfig, shutdown |
| spool | `internal/spool/spool.go` | a directory with one file per window; in memory only a sequence number | Add (write, rename, enforceCap), Peek, Discard; Stats reads |
| upload client | `internal/ship/ship.go` | none | Send, classify |
| backoff | `internal/ship/backoff.go` | none (the loop keeps the failures) | Delay, Spread |
| wire contract | `internal/wire/wire.go` | none | Config.Apply |
| window aggregation | `internal/metrics/bucket.go` | last sample, window in progress | Aggregator.Add, Flush |
| rates | `internal/metrics/derive.go` | none | Derive |
| statistics of a window | `internal/metrics/bucket.go` | the Bucket | Bucket.add, Stat.Add |
| collector | `internal/collect/*.go` | none | Collect and its parsers |
| command | `cmd/kloudy-agent/main.go` | flags | run, printWindows, withSignals |
| installer, unit | `deploy/*` | files on the machine | install and upgrade; restart the service |

The process has one goroutine. It waits in a select on the sampler's ticker, the
uploader's ticker and the signal context; everything else happens inside the
branch that was taken. So the calls of the spool, the aggregator and the client
never overlap. What is concurrent is the surroundings: tickers that fire while
an upload blocks, a clock that may be set, a signal that arrives at any moment,
a platform whose answer may be lost after it has acted, storage that fails or
decays, and a kill between any two file operations.

A reading flows through the parts as follows. `sample` collects, and
`Aggregator.Add` either folds the reading into the window in progress or hands
back a window that is complete; `persist` gives that window to `Spool.Add`.
`upload` peeks at the oldest windows, sends them, discards them when they were
accepted or refused for good, and adopts the schedule that came with the answer;
a new window width closes the window in progress and replaces the aggregator.
`shutdown` spools the window in progress and uploads once more.

What is hard about it, and what should hold:

* **Spool.** Kills between the file operations, operations that fail, several
  evictions in one Add, files that disappear between Peek and Discard, a new
  process that has forgotten its sequence number. A published window must stay
  until it is discarded, evicted or found corrupt; the oldest goes first;
  evictions are reported; the directory fits its bound; only a kill leaves a
  temporary file behind.
* **Loop and client.** Every outcome of an exchange, in every order, with
  signals and restarts in between. No window disappears between aggregator and
  spool; only what the platform has settled is deleted; what was acknowledged is
  not sent again; everything stored is settled in the end; a signal ends the
  process.
* **Schedule.** Two tickers that keep one tick each, an exchange that blocks the
  only goroutine, a backoff that is looked at only when the uploader ticks, a
  reply that restarts both tickers. Readings are not too far apart, a backlog is
  sent in time and drains, a signal ends the process within one exchange.
* **Collector.** Interfaces that come, go and are reset behind one sum; files
  that cannot be read. No traffic is reported that no interface or disk carried.
* **Aggregation.** Resets, boundaries, clock steps and changes of width in any
  order. Every rated reading is in exactly one window, inside its bounds, rated
  against the reading just before it; no window spans a reset; a window reports
  exactly its readings.
* **Rates.** Counters that fall, alone or hidden by others that grow. The shares
  of the CPU partition the interval.
* **Wire contract.** Arithmetic that wraps, replies that are only partly valid,
  sequences of partial replies. The schedule stays in bounds; a reply is adopted
  whole or not at all.
* **Installer.** A script that is cut off between any two effects, run again with
  another release or other settings, beside a systemd that restarts the agent
  from whatever is on the disk. Success means what it says; nothing unverified
  runs; the token is never readable by others; another run repairs.

`PROJECT.json` lists the hazards at their lines, with the properties that cover
them and a note for those that none covers.

## Modules

| module | models |
| --- | --- |
| `WindowNames` | the names of the files and their order |
| `Sums` | totals over finite sets: the sizes of files, the rows of a kernel's file |
| `WindowStore` | the abstract store: a durable, bounded FIFO |
| `Spool` | the spool package, one action per file operation |
| `Wire` | `Config.Apply` |
| `Ship` | the order of the checks in `Client.Send`, and `classify` |
| `Collector` | the sample that `Collect` makes of the kernel's files |
| `Derive` | whether two samples give rates, and the rates |
| `Aggregator`, `Bucket` | `Aggregator.Add` and `Flush`; what a window accumulates |
| `Sampling` | one life of the sampling loop, composed of the four before |
| `Agent` | the loop, composed of an instance of `Spool`, one of `Aggregator`, and `Wire` and `Ship` |
| `Schedule` | the loop again, with time: tickers, spread, backoff, exchanges, backlog |
| `Installer` | `install.sh`, beside systemd |
| `SpoolProofs`, `StoreProofs`, `SamplingProofs`, `AgentProofs`, `ScheduleProofs`, `InstallerProofs` | theorems |
| `SumProofs` | the lemmas on sums, quotients, minima and maxima that they share |
| `MCSpool`, `MCSampling`, `MCAgent`, `MCSchedule`, `MCInstaller` | values of the constants for TLC |

Operators whose comment says "Mutant" are wrong versions of the definition that
follows them. They are not used by any specification; each shows that a property
fails when the code has that fault.

### Spool

`dir` is the directory, a function from names to a window and the state of its
file: good, corrupt (opens but does not decode) or unreadable. `op` is the point
the running call has reached and `todo`, `batch`, `pending`, `dropped` are its
local variables; all of these and `seq` are lost in a crash, `dir` and `temps`
are not. The actions follow the code:

* Add: `BeginAdd` (the name, `Spool.name`), `CreateTemp`, `WriteTemp`, `Rename`;
  then enforceCap: `Measure` lists the directory and sizes the files,
  `EvictOldest` is each turn of the loop, `EndAdd` calls OnDrop and returns.
  `RefuseAdd`, `FailAdd` and `FailEvict` are the error returns. An
  Add that fails once its temporary file exists removes it, unless that fails as
  well. A file whose Stat fails is in `unsized`: it stays out of `TotalBytes`, and
  enforceCap returns no error for it.
* Peek: `BeginPeek` lists the directory, `TakeGood`, `DropCorrupt` and
  `FailPeek` are the three outcomes of one file, `EndPeek` returns.
* Discard: `BeginDiscard`, `DiscardNext`, `FailDiscard`, `EndDiscard`.

`Faults` says which operations may fail. `fate` records what became of each
window, so that properties can tell a window that was evicted from one that was
lost, and `excused` whether the last enforceCap was killed, failed, or had no
size of a file that stayed. The names are pairs of a start instant and a
sequence number. Starts may come in any order, because the clock can be set
back. `RestartOverlap = FALSE` is the one assumption about a restarted process:
its windows do not have the start instant of a file that its predecessor left
behind. The run `spool_name_collision` shows what happens without it.

### Agent

`phase` is where the goroutine stands: in one of the two selects, or inside a
call; while `phase` is inside a spool call, `SpoolStep` takes the steps of
`Spool` and the action named `...Done` continues when the call has returned.
`settings`, `current`, `prev` and `width` are the fields of the program;
`deferred` stands for "retryAt is ahead". An exchange is one action,
`SendReturns`, with an attempt: where it broke off, the status, whether the body
decodes, and what the platform did (took the batch in, refused it, did nothing,
or nobody knows). The agent's reaction follows from the first three by
`Ship!Send`; the history variables `processed` and `refused` follow from the
last. A tick that arrives during the backoff changes nothing and is not a step.

### Schedule

The same loop with the contents taken out and time put in. `sampler`,
`uploader`, `spread`, `retry` and `sending` are countdowns (the last counts up);
`Advance` moves all of them by one tick and is enabled only while the goroutine
waits: everything that is due is done before time goes on. `sampleDue` and
`uploadDue` are the tickers' channels, which hold one tick; `ResetTickers`
discards it. `UploadTick` is `upload` up to `Send`; `Reply` and `Fail` are what
comes after: `Reply` with `applyConfig` (`Adopt`: another width closes the
window in progress and starts with a new aggregator, any change restarts both
tickers), `Fail` with a delay drawn by `Delays` from the number of failures. A
cancelled context ends an exchange of the loop at once, and not the one of
`shutdown`. `backlog` is the number of windows in the spool, which `Spooled`
caps; a window closes when a reading comes after its end, at a change of width
and at shutdown. The wall clock is kept modulo `Cycle`, a multiple of every
width. `Ceiling` computes the doubling the way `Delay`'s loop does, with the
comparison after each doubling.

### Collector, Derive, Aggregator, Bucket and Sampling

What a kernel shows at a moment is a record of its files. `Collector!Collect`
makes a sample of it, or none if a file is broken: the guest columns are left
out of the CPU, kibibytes and sectors become bytes, interfaces and disks are
summed over the names that are not virtual and no partitions. `Derive` compares
wall-clock instants (`Collect` returns its instant through `UTC()`, which strips
the monotonic reading) and rejects a sample that is not later than the one
before, a new boot, a total that did not grow, and a byte counter that fell.
Shares, rates and gauges are multiples of 1/`Unit`, and `Unit` is divisible by
everything that divides it in the instances, so that quotients and means are
exact; the floating point of the code is not modelled. `UnitSuffices` says that
every rate is divisible by what the running mean of a window divides it by;
`MCSampling` has TLC evaluate it for the instances. `KernelAssumption` says that
the columns of the kernel's files are natural numbers.

`Aggregator` takes the verdict as a parameter. `Sampling` gives it `Derive`'s, a
clock that is set at will, and a kernel (the constant `Shows`) that is read at
any of its moments; it records which readings were folded into which window
(`folded`) beside what the window accumulates (`contents`, by `Bucket`). `Stop`
is the end of the loop, in `Agent.shutdown` and in `printWindows`. `Agent` has a
simpler `Derives`, in which every break of the counters is a new boot.

### Installer

A request is a version, a checksum and the settings; the checksum is modelled by
the image that has it, which prints the version. A run that finds a binary
printing the version keeps it, as the script does, without comparing its checksum
with the one asked for: with an image rebuilt under the same version the old one
stays (`Wanted` says so, and `asked` has the checksums of all runs so far).

`step` is the command that comes next. Each action is one command, or one of the
effects of a command that can be cut off between two: `mv` is a rename if the
temporary directory is on the file system of `/usr/local/bin` (`sameFS`, chosen
at the start) and otherwise removes, begins and completes a copy; the
configuration is truncated and then written line by line; so is the unit.
`Abort` ends a run anywhere. systemd keeps `loaded`, `enabled` and the `service`,
which `Launched` starts from what the disk holds: without an account, a whole
binary, or both lines of the configuration it does not stay up. `Restart=always`
is `Exited` and `Relaunch`; a reboot forgets everything but the disk and
`enabled`.

## Runs

Each run finishes within three minutes on two cores. Deadlock is checked except
in `sampling` and `rates_negative`, where the loop ends, and in `installer` and
`installer_half_written`, where the number of runs and mishaps is bounded.

| run | question | result |
| --- | --- | --- |
| `spool` | Is anything overwritten, reordered, evicted in silence or left behind, and does the directory keep its bound? | holds |
| `spool_name_collision` | ... if windows of a restarted process may share a start instant? | violated |
| `spool_silent_eviction` | ... are evictions reported if a Remove can fail? | violated |
| `sampling` | What do windows contain and report, do the shares partition the interval, is traffic invented? | holds |
| `rates_negative` | ... do the shares, if the time of one CPU state is given back? | violated |
| `agent_safety` | Is a window ever lost between the parts, or deleted unsettled, is a reply adopted to the letter or not at all, and is the spool still the store? | holds |
| `config_overflow` | ... is a reply rejected, if its number of seconds wraps around into range? | violated |
| `agent_live` | Is every window settled in the end, never sent after an acknowledgement, and does a signal stop the process? | holds |
| `schedule` | Is a backlog sent in time, does it drain, are readings close enough, does a signal end the process in time? | holds |
| `schedule_unison` | Does the first upload have the offset that was drawn? | violated |
| `installer` | Does success mean installed, does only what was verified run, does another run repair, does the service come back? | holds |
| `installer_half_written` | Does an install that is cut off ever leave a part of a binary? | violated |

The violated ones are findings; `PROJECT.json` quotes the line that promises the
property and says what the run shows. Three more promises do not hold and are in
the model as the code has them. Peek returns an error at a file it cannot open
(`FailPeek`), so that one bad file can hold up those behind it. enforceCap passes
over a file whose Stat fails (spool.go:219) and returns no error, so that an Add
can leave the directory over its bound, against spool.go:208 ("deletes the oldest
windows until the spool fits its bound"): `CapHolds` excuses the directory then,
and `AddFits` needs that Stat does not fail. A 404 or 408 that says nothing of the
payload has the batch deleted (ship.go:180), as the table of the repository's
README says of every other 4xx, though nobody refused it.

Bounds. `spool` has three windows of sizes 1, 2 and 4 under a cap of 3, so that
an Add can evict none, one or two files and one window is larger than the cap
alone; two starts, so that two windows can share one; one kill; writes and
listings that fail, any set of files that cannot be sized, files that decay and
files that cannot be opened. Removals that fail are in `agent_safety`, which also
checks `ImplementsStore`, and in `spool_silent_eviction`.

`sampling` has the instants 1 to 3, widths of two and three, four readings and
five states of the kernel. In the first three the CPU states grow or stand still
while one interface and one disk join and leave and others grow; in the fourth
an interface was reset; the fifth is after a reboot. They may be read in any
order, and any file may be broken. Readings at 1, 2 and 3 put two of them into
one window of width two, from 2 to 4, so that a reading is folded into an open
window and a mean is moved; with width three the last of them completes the
window before it. `rates_negative` has two states between which waiting time was
given back.

`agent_safety` has two windows and three instants under a cap that holds one of
them, batches of one, all eleven outcomes of an exchange (`EveryAttempt`:
accepted, a reply that does not decode, one that is cut off, no connection,
refused, two other client errors, a batch that cannot be encoded, a bad token,
throttling, a fault of the platform), failing writes, removals and sizings
(failing listings and files that cannot be opened are in `spool`), one crash,
replies that change the width, leave it, or ask for one out of bounds beside an
interval within them; corrupt files are in `agent_live`. `agent_live` has
batches of two, one window that the platform always refuses, one crash, any
number of signals, and corrupt files. In it windows end by a reset, a change of
width or shutdown; its two instants are too few for one to be completed at a
boundary, which `agent_safety` has. `EveryAttempt` has a verdict that fits each
reply: a client error that `classify` takes for a refusal is one. A Duration has
8 bits in these instances and nothing that a reply asks for wraps; in
`config_overflow` it may ask for 258 seconds, which wrap around to two.

`schedule` has three schedules (a reading every tick, an upload every 3 and
windows of 4 ticks; the same with windows of 8; 2, 4 and 4), exchanges of up to
2, delays of up to 1, 2, 4 and 6 after one to four failures, batches of 2
windows and a spool of 5: so a backlog can be of several batches, an exchange
outlast two ticks of the sampler, and the ceiling reach the cap between two
doublings. What `ReadingGap` and `BacklogDrains` rest on holds for these numbers
and the defaults of the program: the period of the uploads is longer than an
exchange and than the interval, and the windows that close in a period and an
exchange are fewer than a batch. A reply may ask for less (wire.go allows a
flush of 10 seconds, an interval of 60; an exchange may take 30), and then the
gaps between readings are not bounded; this is listed as a hazard, no comment
promises otherwise. `BacklogDrains` is also about a width that stays as it is
from some time on: a platform that changes it with every reply adds the window
in progress to the backlog with every batch that it takes.

`installer` has three images, of which two print the same version, two settings,
three runs and two mishaps (reboots or exits of the agent; aborts are not
counted): a run that succeeds, one that is cut off, and one that has to cope,
each for the same or another image. `installer_half_written` needs one run and
no mishap.

Fairness. `Agent!FairSpec`: weak fairness of the steps that end by themselves:
file operations, the timers of spread and backoff, an exchange (the HTTP client
has a timeout), and `Start`, because the unit says `Restart=always`. Strong
fairness of `UploadTick` and `Shutdown`: a select with several channels ready
chooses at random, so a channel that is ready again and again is served. Strong
fairness of an answer that settles a batch: without it a platform that never
answers keeps every window for ever, as it should. Nothing is assumed of
samples, signals, crashes or faults. Removal of files does not fail in this run:
with a directory that cannot be written nothing can be settled.

`Schedule!FairSpec`: weak fairness of all that is not a signal, that is, time
goes on and the goroutine runs. That the platform answers is a premise of
`BacklogDrains`, not a fairness.

`Installer!FairSpec`: weak fairness of the script, which goes on unless it is
aborted, and of `Relaunch`: systemd restarts without a limit, because one start
in five seconds stays under its default of five in ten.

## Proofs

| theorem | statement | assumes |
| --- | --- | --- |
| `SpoolProofs!TypeCorrect` | `Spec => []TypeOK` | - |
| `SpoolProofs!NoWindowOverwritten` | `Spec => []NothingLost` | `~RestartOverlap` |
| `SpoolProofs!DirectoryFits` | `Spec => []CapHolds` | - |
| `SpoolProofs!AddFits` | `Spec => []AddKeepsBound` (not checked by a run) | Stat does not fail |
| `SpoolProofs!EveryEvictionReported` | `Spec => []EvictionsReported` | Remove does not fail |
| `SpoolProofs!OnlyKillsLeaveTemps` | `Spec => []TempsFromKills` | Remove does not fail |
| `StoreProofs!SpoolImplementsStore` | `Spec => ImplementsStore` | `~RestartOverlap` |
| `AgentProofs!UsesSpool` | `Spec => S!Spec` | - |
| `AgentProofs!AgentTypes` | `Spec => []TypeOK` | - |
| `AgentProofs!AgentLosesNothing` | `Spec => []NothingLost` | `~RestartOverlap` |
| `AgentProofs!AgentImplementsStore` | `Spec => ImplementsStore` | `~RestartOverlap` |
| `AgentProofs!WindowsAreHandedOn` | `Spec => []NothingVanishes` | - |
| `AgentProofs!DeletesOnlySettled` | `Spec => []DiscardOnlySettled` | `Honest` |
| `AgentProofs!NeverResent` | `Spec => []NoResend` | Remove does not fail |
| `ScheduleProofs!SignalEndsInTime` | `Spec => []StopsInTime` | - |
| `ScheduleProofs!BacklogRetried` | `Spec => []RetryInTime` | - |
| `ScheduleProofs!ReadingsClose` | `Spec => []ReadingGap` | `WideApart` |
| `InstallerProofs!SuccessIsTrue` | `Spec => []SuccessMeansInstalled` | - |
| `InstallerProofs!RenameKeepsWhole` | `Spec => [](sameFS => NeverHalfWritten)` | - |
| `InstallerProofs!OnlyVerifiedRuns`, `TokenStaysPrivate` | `Spec => []OnlyVerified`, `Spec => []TokenPrivate` | - |
| `AgentProofs!SettingsBounded` | `Spec => []SettingsInBounds` | - |
| `AgentProofs!RejectsWhole`, `AdoptsToTheLetter` | `Spec => AllOrNothing`, `Spec => Adopted` | no product overflows |
| `SamplingProofs!EveryReadingOnce` | `Spec => []Conservation` | - |
| `SamplingProofs!NoWindowSpansAReset`, `ReadingsInside` | `Spec => []NoMixing`, `Spec => []InsideWindow` | - |
| `SamplingProofs!AlwaysAgainstTheLast` | `Spec => []RatedAgainstLast` | - |
| `SamplingProofs!LaterCompletes` | `Spec => CompletedByLater` | - |
| `SamplingProofs!ReportsAreTrue` | `Spec => []WindowReports` | `UnitSuffices` |
| `SamplingProofs!NoTrafficInvented` | `Spec => []TrafficNotInvented` | - |
| `SamplingProofs!SharesAddUp` | `Spec => []SharesPartition` | `Steady` |

They hold for all values of the constants that the named ASSUMEs of the modules
allow: windows, starts, sizes, caps, crashes, faults, widths, kernels,
schedules, images, versions. These ASSUMEs are types, signs and orders that the code's
own constants have (`Agent!SpoolConstants` repeats those of `Spool`, and the
lower bounds of wire.go are positive), `Schedule!CountedFarEnough`, which says
that counting failures stops only where the delay has reached its cap, and
`Sampling!KernelAssumption`. The last column is another matter:

* `~RestartOverlap`, no overflow and `Steady` are refuted in the violated runs
  `spool_name_collision`, `config_overflow` and `rates_negative`. `Steady` says
  that no CPU state gives time back within a boot, which Linux does not promise
  for iowait.
* "Remove does not fail" is `"remove" \notin Faults`. `spool_silent_eviction`
  refutes `EvictionsReported` without it. `EvictionsReported` and `NoResend`
  speak of the time until a first kill.
* "Stat does not fail" is `"stat" \notin Faults`; without it an Add
  that returns no error may leave the directory over its bound. `CapHolds` needs no such assumption because it
  excuses the directory (`excused`) from an enforceCap that was killed, that failed
  or that had no size of a file that stayed, until one gets through.
* `Honest` says that the platform means its replies: one that the agent reads as
  success or refusal tells what became of the batch. A 404 or a 408 that judges no
  payload is not honest in this sense: the agent deletes its batch all the same,
  and `DiscardOnlySettled` does not hold.
* `sameFS` in `RenameKeepsWhole` says that `mv` renames; `installer_half_written`
  refutes `NeverHalfWritten` without it.
* `UnitSuffices` says that `Unit` divides finely enough for means to be exact. It
  is about the scale of the model, and true of a `Unit` that is large enough for
  the instance; with floating point in its place a mean is rounded.
* `WideApart` says that in every schedule the period of the uploads is longer
  than an exchange may take and than the interval of the readings. It is true of
  the program's defaults (60 seconds, 30 and 1); a reply may ask for less, and
  then `ReadingGap` is not promised (see Bounds).

*Sums.* `SumOver` is a fold of the community modules. `SumStep` unfolds it to
the recursion it is defined by, whose solution exists and is unique, and from it
come what a sum is when an element is added or removed, and comparisons of sums.
The library's principles of induction take an operator as parameter, which the
provers cannot instantiate; the inductions here look at a smallest
counterexample instead, which `WFMin` gives.

*Spool.* `NothingLost` alone is not inductive: nothing in it says that the name
an Add has chosen is free. `NamesFresh` does: every file in the directory is
inherited or has a sequence number that the process has already used, the
pending name has the newest number, and its start is not that of an inherited
file. `Once` (files hold stored windows, no two the same), `NamesFresh`, `Kept`
(each stored window has a file) and `TypeOK` make `SafeInv`. Only `NamesFresh`
and `Kept` need `~RestartOverlap`: the theorems about evictions, temporary files
and the cap do without. For the evictions, `Counted` relates the number of
evicted windows to `reported + dropped`. For the cap, outside enforceCap's loop
files only go, a file less is not more bytes (`RemoveFits`), and the loop ends
where the bound holds (`Bounded`). For the refinement, `CallInv` says what a
Peek has collected: the sound files it has passed over are none, and everything
it took is older than what it has still to read; from it each step is a Put,
Evict, Purge, Offer, Release or Withdraw of the store, or a stutter.

*Agent.* Every step of the agent is a step of its spool or leaves it alone,
given only that windows open at aligned starts (`AlignedStarts`) and are new
when they are persisted; that is `UsesSpool`. `Proved` is an instance of
`StoreProofs` over the agent's variables, so the spool's theorems become
theorems about the agent: `AgentLosesNothing` and `AgentImplementsStore` follow
from them and `UsesSpool` without another look at the steps. `Settled` says that
a Discard under way visits only files of settled windows, `Ending` that shutdown
and a change of width have taken the window in progress; `Onward` and `SameList`
are what any step of the spool does to the fates and to that list. `AgentTypes`
needs `InStep` (which call of the spool runs in which phase) and `Present`
(between Peek and Discard the batch is in the directory): what is sent is a set
of windows only because nothing can have removed them in between. `NeverResent`
needs `Told`: a window that was acknowledged and is still stored is on the list
of the Discard that is under way, and a Discard that does not fail gets through
its list before the loop goes on.

*Schedule.* `InTime`: after the signal time passes only in the last exchange,
and `stopping = sending` there. `Paced` follows the two tickers: either no
reading is due and the next one comes in time (`Pending`), or one is due, or
both tickers were restarted after an exchange (`Restarted`), which with
`WideApart` happens at most once between two readings. `Waiting` bounds the time
that a backlog has waited by what is left of the delay and of the period
(`Due`). What the doubling loop of `Delay` computes is a recursive function;
`CeilingIs` shows that it is `Min(Cap, Base * 2^(n-1))`, by showing that this
solves the recursion (`CeilNext`) and that a least number at which two solutions
differ is contradictory. `Doubling`, 2^(n+1) = 2 * 2^n, comes from the number of
subsets of a set, because the provers know nothing else of powers.

*Installer.* `Inv` says for each position of the script what this run has
achieved, and nothing of a run that failed: the next one starts from whatever is
there, and needs only that a binary that prints the version is a whole one and
has a checksum that some run was given. Between its two effects a copy is `"cut"`,
which does not print a version and cannot be started.

*Sampling.* The invariant `Inv` has the last reading as the one that is
remembered (`Last`) and in the window in progress, which starts where that
reading is truncated to; one window for each reading that opened one; and
`OneWindow`, which is `Conservation` without cardinalities. `SampleCases`
reduces a reading to three ways of changing the windows: `Breaks`, `Joins` and
`OpensOne`. `LaterCompletes` also needs `SameWindow`: two instants less than a
width after the same start are truncated to it. `Sampled` keeps the moments at
which the readings were taken. `NetBetween` and `DiskBetween` compare the sums of
two moments row by row (`Gained`: an interface or disk that is gone can only make
the difference smaller). `Floors`: quotients that are rounded down add up
to no more than the quotient of the sum, and so the parts of busy to no more
than busy. `Reported` is what `ReportsAreTrue` needs: every window has readings
and its report is about them (`About`); `ReportCases` reduces a reading to none
or one window that it is folded into, and `MeanMoves` is `Stat.Add`'s update of
the mean: it is exact because the number of readings and its successor both
divide the distance.

*Replies.* `SettingsMove` says that settings change when the process starts and
when a reply is adopted. `Answered`: a reply waits to be adopted only while its
batch is discarded or, if it changes the width, while the window in progress is
spooled; `WhileAnswered`: nothing else touches the schedule and that window in the
meantime. `NoWrap` shows that a Duration computed from a number of seconds is the
product itself when the product fits.

Only model-checked: liveness and what depends on fairness (`EventuallySettled`,
`StopsEventually`, `BacklogDrains`, `RerunRepairs`, `ServiceReturns`), which is
out of the prover's reach. Every other property of a passing run is a theorem.

## Not modelled

* Texts: the encoding of a window (it rounds to two decimals) and of a request,
  the files of `/proc` character by character, names, logging.
* Figures that no rate uses: packets, errors, operations, the figures of statfs.
  Swap is treated like memory and left out; totals and file systems are passed on.
* Floating point: quotients and means are exact.
* A reply that says fewer windows were accepted than were sent: the program
  logs the number and discards the batch all the same.
* `--once` and `--version`, the validation of endpoint, token and flags, the
  checks of the installer before its first effect, the build files.
* Sequence numbers of more than six digits (they no longer sort as numbers), an
  unsynced directory after a power loss, two processes on one directory, two
  installers at once.

## Left for later

1. A fleet of two agents over `Schedule`, for the retries that fall into step.
2. `Agent` with the counters of `Sampling`, so that what a window reports is
   carried through the spool.
3. The escape from the fairness of `BacklogDrains`: how many windows are left
   after so many accepted batches, as a safety property.
