------------------------------ MODULE Schedule ------------------------------
(***************************************************************************)
(* internal/agent and internal/ship: when the agent does what it does.     *)
(*                                                                         *)
(* Time passes in ticks.  The two tickers, the timer of the spread, the    *)
(* backoff and the running exchange are countdowns; time passes only while *)
(* the goroutine has nothing to do at once.  A ticker that fires while the *)
(* goroutine is busy keeps one tick, and Reset discards it.                *)
(*                                                                         *)
(* Simplifications: calls of the spool take no time and do not fail; a     *)
(* restart takes no time; counters are not reset and the clock is not set. *)
(***************************************************************************)
EXTENDS Integers, FiniteSetsExt

CONSTANTS
    Flags,          \* [interval, flush, width] of the command line
    Schedules,      \* what a reply can change them to; width is Settings.Window
    Cycle,          \* the wall clock is kept modulo this
    Timeout,        \* ship.DefaultTimeout, of every exchange
    Base, Cap,      \* Backoff.Base and Cap
    MaxBatch,       \* Agent.MaxBatch
    MaxBacklog,     \* the windows that fit into the spool
    MaxFailures     \* bound: failures are counted up to here

ASSUME ScheduleAssumption ==
    /\ {Flags} \cup Schedules \subseteq
          [interval : Nat \ {0}, flush : Nat \ {0}, width : Nat \ {0}]
    /\ {Cycle, Timeout, Base, Cap, MaxBatch, MaxBacklog, MaxFailures}
          \subseteq Nat \ {0}
    /\ Base <= Cap

\* A window of any width is aligned on the cycle too.
ASSUME WholeWindows == \A s \in {Flags} \cup Schedules : Cycle % s.width = 0

\* From MaxFailures on the ceiling is the cap, so that counting further would
\* change nothing.
ASSUME CountedFarEnough == Cap <= Base * 2^(MaxFailures - 1)

VARIABLES
    phase,      \* "down", "spread", "loop", or in an exchange: "send", "final"
    term,       \* the context is cancelled
    settings,   \* Agent.Settings
    spread,     \* time left of the random offset
    sampler, sampleDue,     \* time to the next tick; a tick waits
    uploader, uploadDue,
    sending,    \* how long the exchange has taken
    failures,   \* Agent.failures
    retry,      \* time left until retryAt
    backlog,    \* windows in the spool
    clock,      \* the wall clock, modulo Cycle
    window,     \* the Aggregator: "none", "first", "open", "over"
    \* history
    gap,        \* time since the last reading, or since the loop was entered
    paced,      \* the interval in force then
    waited,     \* how long a backlog has waited for an exchange
    stopping,   \* time since the signal
    posted,     \* the uploader's first tick has been handled
    offset, age \* until then: the spread, and the time since the start

tickers == <<sampler, sampleDue, uploader, uploadDue>>
posting == <<posted, offset, age>>
vars == <<phase, term, settings, spread, tickers, sending, failures, retry,
          backlog, clock, window, gap, paced, waited, stopping, posting>>

-----------------------------------------------------------------------------
(***************************************************************************)
(* Backoff.                                                                *)
(***************************************************************************)

\* Mutant: compared with the cap only after the last doubling.
CeilingUncapped(n) == Base * 2^(n - 1)
\* The ceiling after n failures: doubled for all but the first.
Ceiling(n) ==
    LET doubled[k \in 1..MaxFailures] ==
            IF k = 1 THEN Base ELSE Min({2 * doubled[k - 1], Cap})
    IN  doubled[n]

\* What Delay can draw.
Delays(n) == 0..(Ceiling(n) - 1)

-----------------------------------------------------------------------------
(***************************************************************************)
(* The life of the process.                                                *)
(***************************************************************************)

Init ==
    /\ phase = "down" /\ term = FALSE /\ settings = Flags /\ spread = 0
    /\ sampler = 1 /\ sampleDue = FALSE /\ uploader = 1 /\ uploadDue = FALSE
    /\ sending = 0 /\ failures = 0 /\ retry = 0
    /\ backlog \in 0..MaxBacklog /\ clock \in 0..(Cycle - 1) /\ window = "none"
    /\ gap = 0 /\ paced = 1 /\ waited = 0 /\ stopping = 0
    /\ posted = TRUE /\ offset = 0 /\ age = 0

ResetTickers(s) ==
    /\ sampler' = s.interval /\ sampleDue' = FALSE
    /\ uploader' = s.flush /\ uploadDue' = FALSE

\* Both tickers run from here on, then the spread is drawn.
Start ==
    /\ phase = "down"
    /\ phase' = "spread" /\ term' = FALSE /\ settings' = Flags
    /\ ResetTickers(Flags)
    /\ spread' \in 0..(Flags.flush - 1)
    /\ failures' = 0 /\ retry' = 0 /\ window' = "none"
    /\ waited' = 0 /\ stopping' = 0
    /\ posted' = FALSE /\ offset' = spread' /\ age' = 0
    /\ UNCHANGED <<sending, backlog, clock, gap, paced>>

EnterLoop ==
    /\ phase = "spread" /\ spread = 0
    /\ phase' = "loop"
    /\ gap' = 0 /\ paced' = settings.interval
    /\ UNCHANGED <<term, settings, spread, tickers, sending, failures, retry,
                   backlog, clock, window, waited, stopping, posting>>

Terminate ==
    /\ phase \in {"spread", "loop", "send"} /\ ~term
    /\ term' = TRUE
    /\ UNCHANGED <<phase, settings, spread, tickers, sending, failures, retry,
                   backlog, clock, window, gap, paced, waited, stopping, posting>>

\* Must the goroutine act before time goes on?  A cancelled context ends an
\* exchange of the loop at once.
Urgent ==
    \/ phase = "down"
    \/ phase = "spread" /\ (spread = 0 \/ term)
    \/ phase = "loop" /\ (sampleDue \/ uploadDue \/ term)
    \/ phase = "send" /\ (sending = Timeout \/ term)
    \/ phase = "final" /\ sending = Timeout

Less(countdown) == IF countdown = 0 THEN 0 ELSE countdown - 1

Advance ==
    /\ ~Urgent
    /\ spread' = Less(spread) /\ retry' = Less(retry)
    /\ sampler' = IF sampler = 1 THEN settings.interval ELSE sampler - 1
    /\ sampleDue' = (sampleDue \/ sampler = 1)
    /\ uploader' = IF uploader = 1 THEN settings.flush ELSE uploader - 1
    /\ uploadDue' = (uploadDue \/ uploader = 1)
    /\ sending' = IF phase \in {"send", "final"} THEN sending + 1 ELSE 0
    /\ clock' = (clock + 1) % Cycle
    /\ window' = IF window = "open" /\ clock' % settings.width = 0 THEN "over"
                                                                  ELSE window
    /\ gap' = IF phase \in {"loop", "send"} THEN gap + 1 ELSE gap
    /\ waited' = IF phase \in {"spread", "loop"} /\ backlog > 0 THEN waited + 1 ELSE 0
    /\ stopping' = IF term THEN stopping + 1 ELSE 0
    /\ age' = IF posted THEN 0 ELSE age + 1
    /\ UNCHANGED <<phase, term, settings, failures, backlog, paced, posted, offset>>

-----------------------------------------------------------------------------
(***************************************************************************)
(* The branches of the select, and what an exchange comes to.              *)
(***************************************************************************)

\* persist of one window, when there are n.
Spooled(n) == Min({n + 1, MaxBacklog})
\* Is there a window for Flush to close?
Open == window \in {"open", "over"}

\* sample: the first reading only becomes the previous one, the second opens a
\* window, one beyond its end closes it; a Collect that fails changes nothing.
Sample ==
    /\ phase = "loop" /\ sampleDue
    /\ sampleDue' = FALSE /\ gap' = 0 /\ paced' = settings.interval
    /\ \/ UNCHANGED <<window, backlog>>
       \/ /\ window' = IF window = "none" THEN "first" ELSE "open"
          /\ backlog' = IF window = "over" THEN Spooled(backlog) ELSE backlog
    /\ UNCHANGED <<phase, term, settings, spread, sampler, uploader, uploadDue,
                   sending, failures, retry, clock, waited, stopping, posting>>

\* upload, up to Send; nothing is due inside the backoff or with no backlog.
UploadTick ==
    /\ phase = "loop" /\ uploadDue
    /\ uploadDue' = FALSE
    /\ phase' = IF retry = 0 /\ backlog > 0 THEN "send" ELSE "loop"
    /\ waited' = IF phase' = "send" THEN 0 ELSE waited
    /\ posted' = TRUE /\ offset' = 0 /\ age' = 0
    /\ UNCHANGED <<term, settings, spread, sampler, sampleDue, uploader, sending,
                   failures, retry, backlog, clock, window, gap, paced, stopping>>

\* Mutants: one call of upload sends until nothing is left; a batch is one window.
AfterExchangeAll ==
    IF backlog' > 0 THEN phase ELSE IF phase = "final" THEN "down" ELSE "loop"
BatchOfOne == Min({1, backlog})
AfterExchange == IF phase = "final" THEN "down" ELSE "loop"
Batch == Min({MaxBatch, backlog})

\* applyConfig: another width closes the window in progress and takes a new
\* Aggregator; any change restarts both tickers, unless Run has ended.
Adopt(s) ==
    /\ settings' = s
    /\ IF s.width # settings.width
       THEN window' = "none" /\ backlog' = IF Open THEN Spooled(backlog - Batch)
                                                   ELSE backlog - Batch
       ELSE UNCHANGED window /\ backlog' = backlog - Batch
    /\ IF s # settings /\ phase = "send" THEN ResetTickers(s) ELSE UNCHANGED tickers

\* The exchange succeeds: the batch is discarded, the backoff cleared, and the
\* schedule of the reply adopted.
Reply(s) ==
    /\ phase \in {"send", "final"}
    /\ failures' = 0 /\ retry' = 0
    /\ Adopt(s)
    /\ phase' = AfterExchange /\ sending' = 0
    /\ UNCHANGED <<term, spread, clock, gap, paced, waited, stopping, posting>>

\* It fails, or the batch is rejected and dropped.
Fail ==
    /\ phase \in {"send", "final"}
    /\ failures' = Min({failures + 1, MaxFailures})
    /\ retry' \in Delays(failures')
    /\ backlog' \in {backlog, backlog - Batch}
    /\ phase' = AfterExchange /\ sending' = 0
    /\ UNCHANGED <<term, settings, spread, tickers, clock, window, gap, paced,
                   waited, stopping, posting>>

\* shutdown: the window in progress is spooled, and if there is anything to
\* send, it is sent once, whatever the backoff.
Shutdown ==
    /\ phase \in {"spread", "loop"} /\ term
    /\ backlog' = IF Open THEN Spooled(backlog) ELSE backlog
    /\ window' = "none" /\ retry' = 0 /\ spread' = 0
    /\ phase' = IF backlog' > 0 THEN "final" ELSE "down"
    /\ UNCHANGED <<term, settings, tickers, sending, failures, clock, gap, paced,
                   waited, stopping, posting>>

Work ==
    \/ Start \/ EnterLoop
    \/ Sample \/ UploadTick \/ Shutdown
    \/ \E s \in Schedules \cup {settings} : Reply(s)
    \/ Fail
    \/ Advance

Next == Work \/ Terminate

Spec == Init /\ [][Next]_vars

\* Time goes on, and the goroutine does what it has to before it does.
FairSpec == Spec /\ WF_vars(Work)

-----------------------------------------------------------------------------
(***************************************************************************)
(* Properties.                                                             *)
(***************************************************************************)

\* What the loop owes a backlog: whatever came before (failures, a change of
\* schedule, a restart), it is sent once the delay for that many failures and
\* one period have passed (Agent.upload, Backoff.Delay).
RetryInTime ==
    phase \in {"spread", "loop"} =>
        waited < settings.flush +
            (IF failures = 0 THEN 1 ELSE Min({Cap, Base * 2^(failures - 1)}))

\* An exchange holds up the only goroutine, and Reset discards a tick that was
\* waiting: even so, two readings are never further apart than one exchange and
\* the intervals before and after it.
ReadingGap == phase \in {"loop", "send"} => gap <= paced + Timeout + settings.interval

\* A signal ends the process within one exchange (Agent.shutdown).
StopsInTime == stopping <= Timeout

\* While the platform takes everything and leaves the width of windows alone
\* (every change of it adds the window in progress to the backlog), the backlog
\* sinks to one batch in the end and stays there (Agent.MaxBatch).
BacklogDrains ==
    \A s \in {Flags} \cup Schedules :
        <>[](failures = 0 /\ ~term /\ settings.width = s.width)
            => <>[](backlog <= MaxBatch)

\* The first tick of the uploader keeps the offset that was drawn at the start
\* (the promise of Agent.Run's comment).
ScheduleOffset ==
    phase = "loop" /\ uploadDue /\ ~posted => age % Flags.flush = offset
=============================================================================
