------------------------------- MODULE Agent -------------------------------
(***************************************************************************)
(* internal/agent: the loop that samples, spools and uploads, composed of  *)
(* the Aggregator, the Spool, the verdicts of Ship and the Config of Wire. *)
(*                                                                         *)
(* The program has one goroutine.  phase is where it stands: waiting in    *)
(* one of Run's two selects ("spread", "loop") or inside a call, whose     *)
(* file operations are the steps of Spool.  Around it, concurrently, the   *)
(* tickers fire, the clock runs, a signal arrives, the platform answers,   *)
(* storage decays and the process is killed.                               *)
(*                                                                         *)
(* Simplifications: of the consecutive failures and the delay drawn from   *)
(* them only "is retryAt still ahead" is kept, which a failure may or may  *)
(* not cause because the drawn delay may be zero; a sample whose Collect   *)
(* fails is no step; a failing first Collect is no start.                  *)
(***************************************************************************)
EXTENDS Wire, Ship, FiniteSets

CONSTANTS
    Windows, Starts, Size, MaxBytes, MaxBatch, MaxCrashes, Faults,
    RestartOverlap,     \* of Spool
    Flags,              \* the settings of the command line
    Configs,            \* the configs that a reply can carry
    Attempts,           \* the outcomes that an exchange can have
    Poison              \* windows that the platform refuses in any batch

ASSUME AgentAssumption ==
    /\ Flags \in [Fields -> Nat \ {0}]
    /\ Configs \subseteq [Fields -> Int]
    /\ \A a \in Attempts : /\ a.broke \in Stages /\ a.status \in Nat
                           /\ a.decodes \in BOOLEAN
                           /\ a.verdict \in {"taken", "refused", "none", "unknown"}
    /\ Poison \subseteq Windows

\* What Spool assumes of its constants.
ASSUME SpoolConstants ==
    /\ Starts \subseteq Nat
    /\ Size \in [Windows -> Nat]
    /\ MaxBytes \in Nat
    /\ MaxBatch \in Nat \ {0}
    /\ MaxCrashes \in Nat
    /\ Faults \subseteq {"write", "remove", "scan", "stat", "read", "corrupt"}
    /\ RestartOverlap \in BOOLEAN
    /\ IsFiniteSet(Windows)

\* Starts are the instants at which samples are taken and windows open.
ASSUME AlignedStarts ==
    \A at \in Starts, d \in {Flags["window"]} \cup Lo["window"]..Hi["window"] :
        at - (at % d) \in Starts

VARIABLES
    dir, temps, seq, op, pending, todo, batch, dropped, unsized, result,
    fate, reported, inherited, crashes, excused,     \* of Spool
    width, prev, current,                \* of Aggregator
    phase,
    final,      \* is this the upload of shutdown?
    term,       \* the context is cancelled
    settings,   \* Agent.Settings
    deferred,   \* retryAt is in the future
    answer,     \* what Send returned: [kind, config]
    \* history
    opened,     \* windows that the Aggregator has opened
    processed,  \* windows that the platform has taken in
    refused,    \* windows refused for good: by the platform, or by the
                \* encoder, which would refuse the batch every time
    acked       \* windows whose acceptance this agent has been told of

spoolVars == <<dir, temps, seq, op, pending, todo, batch, dropped, unsized,
               result, fate, reported, inherited, crashes, excused>>
aggVars == <<width, prev, current>>
loopVars == <<phase, final, term, settings, deferred, answer>>
historyVars == <<opened, processed, refused, acked>>
vars == <<spoolVars, aggVars, loopVars, historyVars>>

\* Of the counters of a sample only the boot is kept: every break of them
\* is a new boot.
Samples == [at : Starts, boot : {1, 2}]
Derives(p, s) == s.at > p.at /\ s.boot = p.boot

S == INSTANCE Spool
Agg == INSTANCE Aggregator

Waiting == {"spread", "loop"}
NoAnswer == [kind |-> "retryable", config |-> [f \in Fields |-> 0]]
BatchWindows == {S!Holding(n) : n \in batch}

Init ==
    /\ S!Init
    /\ width = Flags["window"] /\ prev = {} /\ current = {}
    /\ phase = "down" /\ final = FALSE /\ term = FALSE
    /\ settings = Flags /\ deferred = FALSE /\ answer = NoAnswer
    /\ opened = {} /\ processed = {} /\ refused = {} /\ acked = {}

-----------------------------------------------------------------------------
(***************************************************************************)
(* The life of the process.                                                *)
(***************************************************************************)

\* Everything but the spool directory starts anew, the schedule included.
Start ==
    /\ phase = "down"
    /\ S!Open
    /\ phase' = "spread" /\ final' = FALSE /\ term' = FALSE
    /\ settings' = Flags /\ deferred' = FALSE /\ answer' = NoAnswer
    /\ Agg!Fresh(Flags["window"])
    /\ UNCHANGED historyVars

\* The timer of the random offset.
SpreadElapses ==
    /\ phase = "spread"
    /\ phase' = "loop"
    /\ UNCHANGED <<spoolVars, aggVars, final, term, settings, deferred, answer,
                   historyVars>>

\* SIGTERM or SIGINT.
Terminate ==
    /\ phase # "down" /\ ~term
    /\ term' = TRUE
    /\ UNCHANGED <<spoolVars, aggVars, phase, final, settings, deferred, answer,
                   historyVars>>

Exit ==
    /\ phase = "exit"
    /\ S!Close
    /\ phase' = "down"
    /\ UNCHANGED <<aggVars, final, term, settings, deferred, answer, historyVars>>

\* The window in progress is lost with the process.
Crash ==
    /\ phase # "down"
    /\ S!Crash
    /\ phase' = "down" /\ current' = {} /\ prev' = {}
    /\ opened' = opened \ {b.win : b \in current}
    /\ term' = FALSE /\ final' = FALSE /\ deferred' = FALSE /\ answer' = NoAnswer
    /\ UNCHANGED <<width, settings, processed, refused, acked>>

-----------------------------------------------------------------------------
(***************************************************************************)
(* Sampling.                                                               *)
(***************************************************************************)

\* persist: a spool that fails loses the window, which is only logged.
Persist(windows) ==
    IF windows = {} THEN UNCHANGED spoolVars
    ELSE \E b \in windows : S!BeginAdd(b.win, b.start) \/ S!RefuseAdd(b.win)

Unborn == {w \in Windows : fate[w] = "new" /\ w \notin opened}

SampleTick(s) ==
    /\ phase = "loop"
    /\ Agg!Opens(s) => S!CanStart(Agg!Truncate(s.at))
    /\ Persist(Agg!Completed(s))
    /\ \E w \in IF Agg!Opens(s) THEN Unborn ELSE Windows : Agg!Add(s, w)
    /\ opened' = opened \cup {b.win : b \in current'}
    /\ phase' = IF Agg!Completed(s) = {} THEN "loop" ELSE "persist"
    /\ UNCHANGED <<final, term, settings, deferred, answer,
                   processed, refused, acked>>

PersistDone ==
    /\ phase = "persist" /\ op = "idle"
    /\ phase' = "loop"
    /\ UNCHANGED <<spoolVars, aggVars, final, term, settings, deferred, answer,
                   historyVars>>

-----------------------------------------------------------------------------
(***************************************************************************)
(* Uploading.                                                              *)
(***************************************************************************)

\* Mutant: the last upload returns to the loop.
AfterUploadLoop == "loop"
AfterUpload == IF final THEN "exit" ELSE "loop"

\* upload; a tick inside the backoff interval is no step.
UploadTick ==
    /\ phase = "loop" /\ ~deferred
    /\ S!BeginPeek \/ S!RefusePeek
    /\ phase' = "peek"
    /\ UNCHANGED <<aggVars, final, term, settings, deferred, answer, historyVars>>

PeekDone ==
    /\ phase = "peek" /\ op = "idle"
    /\ phase' = IF result = "error" \/ batch = {} THEN AfterUpload ELSE "send"
    /\ UNCHANGED <<spoolVars, aggVars, final, term, settings, deferred, answer,
                   historyVars>>

\* The platform's side of an exchange.  Its verdict on the batch is not always
\* known to the agent: "taken" may be lost on the way back, and after a timeout
\* or a server fault either may be true.
Takes == BatchWindows \cap Poison = {}
Possible(attempt) == attempt.verdict = "taken" => Takes

TakenIn(attempt) ==
    CASE attempt.verdict = "taken" -> {BatchWindows}
      [] attempt.verdict = "unknown" -> {{}} \cup (IF Takes THEN {BatchWindows} ELSE {})
      [] OTHER -> {{}}

\* handleFailure; the delay that is drawn may be zero.
BackOff == deferred' \in BOOLEAN

\* Mutants: a refused payload is kept; an accepted one is.
DropsOnlyOk(kind) == kind = "ok"
DropsOnlyRejected(kind) == kind = "rejected"
\* Does this outcome end with Discard?
Drops(kind) == kind \in {"ok", "rejected"}

\* Send returns.
SendReturns(attempt, c) ==
    /\ phase = "send" /\ Possible(attempt)
    /\ \E wins \in TakenIn(attempt) : processed' = processed \cup wins
    /\ refused' = IF attempt.verdict = "refused" THEN refused \cup BatchWindows
                                                 ELSE refused
    /\ acked' = IF Send(attempt) = "ok" THEN acked \cup BatchWindows ELSE acked
    /\ answer' = IF Send(attempt) = "ok" THEN [kind |-> "ok", config |-> c]
                                         ELSE NoAnswer
    /\ IF Send(attempt) = "ok" THEN UNCHANGED deferred ELSE BackOff
    /\ IF Drops(Send(attempt)) THEN S!BeginDiscard /\ phase' = "discard"
                               ELSE UNCHANGED spoolVars /\ phase' = AfterUpload
    /\ UNCHANGED <<aggVars, final, term, settings, opened>>

NewSettings == Apply(answer.config, settings)

\* Discard has returned, with or without an error.  After a success the
\* backoff is cleared and applyConfig runs: a new width first closes and
\* spools the window in progress.
DiscardDone ==
    /\ phase = "discard" /\ op = "idle"
    /\ deferred' = IF answer.kind = "ok" THEN FALSE ELSE deferred
    /\ IF NewSettings["window"] # settings["window"] /\ current # {}
       THEN /\ Persist(current) /\ Agg!Flush
            /\ phase' = "reconfig" /\ UNCHANGED <<settings, answer>>
       ELSE /\ settings' = NewSettings
            /\ IF NewSettings["window"] # settings["window"]
               THEN Agg!Fresh(NewSettings["window"]) ELSE UNCHANGED aggVars
            /\ phase' = AfterUpload /\ answer' = NoAnswer
            /\ UNCHANGED spoolVars
    /\ UNCHANGED <<final, term, historyVars>>

\* Mutant: the old aggregator goes on.
ReconfigDoneKeeps ==
    /\ phase = "reconfig" /\ op = "idle"
    /\ settings' = NewSettings
    /\ phase' = AfterUpload /\ answer' = NoAnswer
    /\ UNCHANGED <<spoolVars, aggVars, final, term, deferred, historyVars>>
ReconfigDone ==
    /\ phase = "reconfig" /\ op = "idle"
    /\ settings' = NewSettings
    /\ Agg!Fresh(NewSettings["window"])
    /\ phase' = AfterUpload /\ answer' = NoAnswer
    /\ UNCHANGED <<spoolVars, final, term, deferred, historyVars>>

\* The clock passes retryAt.
BackoffElapses ==
    /\ deferred
    /\ deferred' = FALSE
    /\ UNCHANGED <<spoolVars, aggVars, phase, final, term, settings, answer,
                   historyVars>>

-----------------------------------------------------------------------------
(***************************************************************************)
(* Shutdown: spool the window in progress, then one last upload.           *)
(***************************************************************************)

\* Mutant: the window in progress is not spooled.
ShutdownHasty ==
    /\ phase \in Waiting /\ term
    /\ UNCHANGED spoolVars /\ Agg!Flush
    /\ phase' = "flush"
    /\ UNCHANGED <<final, term, settings, deferred, answer, historyVars>>
Shutdown ==
    /\ phase \in Waiting /\ term
    /\ Persist(current) /\ Agg!Flush
    /\ phase' = "flush"
    /\ UNCHANGED <<final, term, settings, deferred, answer, historyVars>>

FlushDone ==
    /\ phase = "flush" /\ op = "idle"
    /\ S!BeginPeek \/ S!RefusePeek
    /\ phase' = "peek" /\ final' = TRUE /\ deferred' = FALSE
    /\ UNCHANGED <<aggVars, term, settings, answer, historyVars>>

-----------------------------------------------------------------------------
SpoolStep ==
    /\ S!Step
    /\ UNCHANGED <<aggVars, loopVars, historyVars>>

Decay ==
    /\ \E n \in S!Files : S!Spoil(n)
    /\ UNCHANGED <<aggVars, loopVars, historyVars>>

Upload ==
    \/ UploadTick \/ PeekDone
    \/ \E attempt \in Attempts, c \in Configs : SendReturns(attempt, c)
    \/ DiscardDone \/ ReconfigDone

Next ==
    \/ Start \/ SpreadElapses \/ Terminate \/ Exit \/ Crash
    \/ \E s \in Samples : SampleTick(s)
    \/ PersistDone
    \/ Upload
    \/ BackoffElapses
    \/ Shutdown \/ FlushDone
    \/ SpoolStep \/ Decay

Spec == Init /\ [][Next]_vars

\* Outcomes that settle a batch.
Settling == {a \in Attempts : Send(a) \in {"ok", "rejected"}}

(***************************************************************************)
(* Fairness.  systemd restarts the agent, timers and timeouts end, file    *)
(* operations return: weak fairness.  Go's select picks at random among    *)
(* the channels that are ready, so none is passed over forever, and the    *)
(* platform, tried again and again, gives a verdict now and then: strong   *)
(* fairness.  Nothing is assumed of crashes, signals and samples.          *)
(***************************************************************************)
FairSpec ==
    /\ Spec
    /\ WF_vars(Start) /\ WF_vars(SpreadElapses) /\ WF_vars(Exit)
    /\ WF_vars(SpoolStep) /\ WF_vars(PersistDone) /\ WF_vars(PeekDone)
    /\ WF_vars(DiscardDone) /\ WF_vars(ReconfigDone) /\ WF_vars(FlushDone)
    /\ WF_vars(BackoffElapses)
    /\ WF_vars(\E a \in Attempts, c \in Configs : SendReturns(a, c))
    /\ SF_vars(\E a \in Settling, c \in Configs : SendReturns(a, c))
    /\ SF_vars(UploadTick) /\ SF_vars(Shutdown)

-----------------------------------------------------------------------------
(***************************************************************************)
(* Properties.                                                             *)
(***************************************************************************)

\* Types, and the agreement of the loop with the call it is in: the spool is
\* between calls whenever the loop waits or an exchange is under way, and the
\* Aggregator runs at the width of the settings outside a change of it.
TypeOK ==
    /\ S!TypeOK
    /\ width \in Nat \ {0} /\ prev \subseteq Samples /\ Cardinality(prev) <= 1
    /\ current \subseteq [win : Windows, start : Nat] /\ Cardinality(current) <= 1
    /\ phase \in Waiting \cup {"down", "persist", "peek", "send", "discard",
                              "reconfig", "flush", "exit"}
    /\ final \in BOOLEAN /\ term \in BOOLEAN /\ deferred \in BOOLEAN
    /\ settings \in [Fields -> Int]
    /\ answer.kind \in Kinds /\ answer.config \in [Fields -> Int]
    /\ opened \subseteq Windows /\ processed \subseteq Windows
    /\ refused \subseteq Windows /\ acked \subseteq Windows
    /\ (phase = "down") = (op = "down")
    /\ phase \in Waiting \cup {"send", "exit"} => op = "idle"
    /\ phase \in Waiting => width = settings["window"]

\* A window, once opened, is in the Aggregator or accounted for by the spool:
\* shutdown, a change of width and a reset hand it on (Agent.shutdown,
\* Agent.applyConfig, Agent.sample).
NothingVanishes ==
    \A w \in opened : fate[w] = "new" => \E b \in current : b.win = w

\* What the agent deletes after an exchange, the platform has taken in or has
\* refused for good, or it cannot be encoded: never on a timeout, a server
\* fault, throttling, a bad token or a garbled reply (Client.Send, Agent.upload,
\* Agent.handleFailure).
DiscardOnlySettled ==
    \A w \in Windows : fate[w] = "discarded" => w \in processed \cup refused

\* Until a first kill, and without failing removals, a window that was
\* acknowledged is not sent again, whatever is added, evicted or reconfigured in between.
NoResend ==
    crashes = 0 /\ phase = "send" => BatchWindows \cap acked = {}

\* No window is overwritten, through any number of lives of the agent.
NothingLost == S!NothingLost

\* Under the calls that the loop makes of it, and while operations on its files
\* fail, the spool is still the abstract store.
ImplementsStore == S!ImplementsStore

\* Whatever the replies, a value the agent runs on is its own flag or within
\* the bounds of wire.go (Config.Apply).
SettingsInBounds ==
    \A f \in Fields : settings[f] = Flags[f] \/ InBounds(f, settings[f])

InRange(c) == \A f \in Sent(c) : InBounds(f, Asked(c, f))

\* One value that is out of range rejects the whole reply (the promise of
\* Config.Apply's comment): neither the schedule nor the window in progress is
\* touched on its account (Agent.applyConfig).
AllOrNothing ==
    [][answer.kind = "ok" /\ phase' # "down" /\ ~InRange(answer.config)
          => UNCHANGED <<settings, width, prev, current>>]_vars

\* A reply whose values are all in range is adopted to the letter, also when a
\* window had to be spooled first: what it sent takes effect, what it left out
\* stays.
Adopted ==
    [][answer.kind = "ok" /\ answer' = NoAnswer /\ phase' # "down"
       /\ InRange(answer.config)
          => \A f \in Fields :
                settings'[f] = IF f \in Sent(answer.config)
                               THEN Asked(answer.config, f) ELSE settings[f]]_vars

\* Every stored window is delivered, refused or given up in the end: no lost
\* reply, refused neighbour, backoff, restart or change of schedule holds it
\* back for ever.
EventuallySettled ==
    \A w \in Windows : fate[w] = "stored" ~> fate[w] # "stored"

\* A signal ends the process, wherever the loop is and whatever the platform
\* does.
StopsEventually == term ~> phase = "down"
=============================================================================
