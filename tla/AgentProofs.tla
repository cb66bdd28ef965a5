---------------------------- MODULE AgentProofs ----------------------------
(***************************************************************************)
(* Theorems about the composed agent, for every set of windows, every      *)
(* fault, every number of crashes and every schedule the replies can set.  *)
(***************************************************************************)
EXTENDS Agent, FiniteSetTheorems, TLAPS

Widths == {Flags["window"]} \cup Lo["window"]..Hi["window"]

Shape ==
    /\ fate \in [Windows -> S!Fates]
    /\ current = {} \/ \E b \in current : current = {b}
    /\ current \subseteq [win : Windows, start : Starts]
    /\ width \in Widths /\ settings \in [Fields -> Int] /\ settings["window"] \in Widths
    /\ answer.config \in [Fields -> Int]
    /\ opened \subseteq Windows

\* A Discard that is under way visits only files of settled windows.
Settled ==
    op = "discard" => \A n \in todo \cap S!Files : S!Holding(n) \in processed \cup refused

\* Once shutdown or a change of width has taken the window in progress there is
\* none.
Ending ==
    /\ phase \in {"reconfig", "flush", "exit", "down"} => current = {}
    /\ final /\ phase # "down" =>
          current = {} /\ phase \in {"peek", "send", "discard", "reconfig", "exit"}

\* The platform means what it says: a reply that settles a batch, as the agent
\* reads it, tells what has become of it.  A 404 or 408 that judges no payload,
\* which classify takes for a refusal, is not honest in this sense.
Honest ==
    \A a \in Attempts : /\ Send(a) = "ok" => a.verdict = "taken"
                        /\ Send(a) = "rejected" => a.verdict = "refused"

Inv == /\ Shape /\ Ending /\ NothingVanishes
       /\ Honest => Settled /\ DiscardOnlySettled

-----------------------------------------------------------------------------
(***************************************************************************)
(* What the steps of the spool do to the fates of the windows.             *)
(***************************************************************************)

\* No window is new again, and none becomes discarded but by a Discard.
Onward ==
    /\ fate' \in [Windows -> S!Fates]
    /\ \A w \in Windows : fate'[w] = "new" => fate[w] = "new"
    /\ \A w \in Windows : fate'[w] = "discarded" =>
          \/ fate[w] = "discarded"
          \/ op = "discard" /\ \E n \in todo \cap S!Files : w = S!Holding(n)

\* A Discard goes on with what is left of its list.
SameList ==
    op' = "discard" =>
        /\ op = "discard" /\ todo' \subseteq todo /\ S!Files' \subseteq S!Files
        /\ \A n \in S!Files' : S!Holding(n)' = S!Holding(n)

LEMMA StepOnward ==
    ASSUME fate \in [Windows -> S!Fates], S!Step
    PROVE  Onward /\ SameList
<1> USE DEF Onward, SameList, S!Fates, S!Files
<1>1. CASE \/ S!CreateTemp \/ S!WriteTemp \/ S!Measure
           \/ S!EndAdd \/ S!FailEvict
    BY <1>1 DEF S!CreateTemp, S!WriteTemp, S!Measure, S!EndAdd,
                S!FailEvict
<1>2. ASSUME NEW f \in pending, S!FailAdd(f) \/ S!Rename(f) PROVE Onward /\ SameList
    BY <1>2 DEF S!FailAdd, S!Rename
<1>3. ASSUME NEW n \in S!Files, S!EvictOldest(n) PROVE Onward /\ SameList
    BY <1>3 DEF S!EvictOldest, S!Lose
<1>4. ASSUME NEW n \in todo, S!TakeGood(n) \/ S!DropCorrupt(n) \/ S!FailPeek(n)
      PROVE  Onward /\ SameList
    BY <1>4 DEF S!TakeGood, S!DropCorrupt, S!FailPeek, S!Reading, S!Lose
<1>5. CASE S!EndPeek \/ S!EndDiscard
    BY <1>5 DEF S!EndPeek, S!EndDiscard
<1>6. ASSUME NEW n \in todo, S!FailDiscard(n) PROVE Onward /\ SameList
    BY <1>6 DEF S!FailDiscard
<1>7. ASSUME NEW n \in todo, S!DiscardNext(n) PROVE Onward /\ SameList
    <2>1. CASE n \in S!Files
        <3>1. dir' = S!Without(n) /\ fate' = [fate EXCEPT ![S!Holding(n)] = "discarded"]
              /\ op = "discard" /\ todo' = todo \ {n}
            BY <1>7, <2>1 DEF S!DiscardNext, S!Lose
        <3>2. S!Files' \subseteq S!Files /\ \A m \in S!Files' : dir'[m] = dir[m]
            BY <3>1 DEF S!Without
        <3> QED
            BY <2>1, <3>1, <3>2 DEF S!Holding
    <2>2. CASE n \notin S!Files
        BY <1>7, <2>2 DEF S!DiscardNext, S!Holding
    <2> QED
        BY <2>1, <2>2
<1> QED
    BY <1>1, <1>2, <1>3, <1>4, <1>5, <1>6, <1>7
       DEF S!Step, S!AddStep, S!PeekStep, S!DiscardStep

\* What a call begins with.
LEMMA CallOnward ==
    ASSUME fate \in [Windows -> S!Fates], op # "discard",
           S!BeginPeek \/ S!RefusePeek
    PROVE  fate' = fate /\ op' # "discard"
BY DEF S!BeginPeek, S!RefusePeek

LEMMA PersistOnward ==
    ASSUME Shape, NEW windows \in SUBSET current, Persist(windows)
    PROVE  /\ fate' \in [Windows -> S!Fates]
           /\ windows # {} => op' # "discard"
           /\ windows = {} => UNCHANGED spoolVars
           /\ \A w \in Windows : fate'[w] = "new" => fate[w] = "new"
           /\ \A b \in windows : fate'[b.win] # "new"
           /\ \A w \in Windows : fate'[w] = "discarded" => fate[w] = "discarded"
<1>1. CASE windows = {}
    BY <1>1 DEF Persist, spoolVars, Shape
<1>2. CASE windows # {}
    <2>1. PICK b \in windows : S!BeginAdd(b.win, b.start) \/ S!RefuseAdd(b.win)
        BY <1>2 DEF Persist
    <2>2. windows = {b} /\ b.win \in Windows
        BY <2>1 DEF Shape
    <2>3. /\ op' # "discard"
          /\ \/ fate' = [fate EXCEPT ![b.win] = "adding"]
             \/ fate' = [fate EXCEPT ![b.win] = "failed"]
        BY <2>1 DEF S!BeginAdd, S!RefuseAdd
    <2> QED
        BY <1>2, <2>2, <2>3 DEF Shape, S!Fates
<1> QED
    BY <1>1, <1>2

LEMMA AddShape ==
    ASSUME Shape, NEW s \in Samples, NEW w \in Windows, Agg!Add(s, w)
    PROVE  /\ current' = {} \/ \E b \in current' : current' = {b}
           /\ current' \subseteq [win : Windows, start : Starts]
           /\ width' = width
<1>1. Agg!Truncate(s.at) \in Starts
    BY AlignedStarts DEF Agg!Truncate, Shape, Widths, Samples
<1>2. [win |-> w, start |-> Agg!Truncate(s.at)] \in [win : Windows, start : Starts]
    BY <1>1
<1> QED
    BY <1>2 DEF Agg!Add, Shape

LEMMA ApplyWidth ==
    ASSUME NEW c \in [Fields -> Int], NEW old \in [Fields -> Int], old["window"] \in Widths
    PROVE  Apply(c, old) \in [Fields -> Int] /\ Apply(c, old)["window"] \in Widths
<1>1. \A f \in Fields : Duration(c[f]) \in Int
    <2>1. \A x \in Int : Duration(x) \in Int
        BY WireAssumption DEF Duration, Wrapped
    <2> QED
        BY <2>1
<1>2. CASE \A f \in Sent(c) : InBounds(f, Duration(c[f]))
    <2>1. "window" \in Fields
        BY DEF Fields
    <2>2. Apply(c, old) = [f \in Fields |-> IF f \in Sent(c) THEN Duration(c[f]) ELSE old[f]]
        BY <1>2 DEF Apply
    <2>3. "window" \in Sent(c) => Duration(c["window"]) \in Lo["window"]..Hi["window"]
        BY <1>1, <1>2, <2>1, WireAssumption DEF InBounds
    <2> QED
        BY <1>1, <2>1, <2>2, <2>3 DEF Widths
<1>3. CASE ~ \A f \in Sent(c) : InBounds(f, Duration(c[f]))
    BY <1>3 DEF Apply
<1> QED
    BY <1>2, <1>3

-----------------------------------------------------------------------------
(***************************************************************************)
(* The invariant, action by action.                                        *)
(***************************************************************************)

LEMMA InitInv == Init => Inv
<1> SUFFICES ASSUME Init PROVE Inv
    OBVIOUS
<1>1. /\ fate = [w \in Windows |-> "new"] /\ op = "down" /\ opened = {} /\ current = {}
      /\ width = Flags["window"] /\ settings = Flags /\ answer = NoAnswer
    BY DEF Init, S!Init
<1>2. Flags \in [Fields -> Int] /\ "window" \in Fields /\ NoAnswer.config \in [Fields -> Int]
    BY AgentAssumption DEF NoAnswer, Fields
<1>3. Shape
    BY <1>1, <1>2 DEF Shape, Widths, S!Fates
<1> QED
    BY <1>1, <1>3 DEF Init, Inv, Ending, Settled, DiscardOnlySettled, NothingVanishes

\* A step that moves neither window nor verdict.
LEMMA QuietStep ==
    ASSUME Inv, fate' = fate, op' # "discard" \/ UNCHANGED <<op, todo, dir>>,
           UNCHANGED <<current, opened, processed, refused>>,
           Shape', Ending'
    PROVE  Inv'
BY DEF Inv, Settled, DiscardOnlySettled, NothingVanishes, S!Files, S!Holding

LEMMA LifeStep ==
    ASSUME Inv, \/ Start \/ SpreadElapses \/ Terminate \/ Exit \/ PersistDone
                \/ PeekDone \/ BackoffElapses \/ UploadTick \/ FlushDone
    PROVE  Inv'
<1> USE DEF Inv, Shape, Ending
<1>1. CASE Start
    <2>1. /\ fate' = fate /\ op' = "idle" /\ width' = Flags["window"] /\ current' = {}
          /\ settings' = Flags /\ answer' = NoAnswer /\ UNCHANGED <<opened, processed, refused>>
        BY <1>1 DEF Start, S!Open, Agg!Fresh, historyVars
    <2>2. Flags \in [Fields -> Int] /\ "window" \in Fields /\ NoAnswer.config \in [Fields -> Int]
        BY AgentAssumption DEF NoAnswer, Fields
    <2>3. Shape'
        BY <2>1, <2>2 DEF Widths
    <2>4. phase = "down" /\ phase' = "spread" /\ final' = FALSE
        BY <1>1 DEF Start
    <2> QED
        BY <2>1, <2>3, <2>4 DEF Settled, DiscardOnlySettled, NothingVanishes
<1>2. CASE SpreadElapses \/ Terminate \/ BackoffElapses
    BY <1>2, QuietStep DEF SpreadElapses, Terminate, BackoffElapses,
                           spoolVars, aggVars, historyVars
<1>3. CASE PersistDone \/ PeekDone
    BY <1>3, QuietStep DEF PersistDone, PeekDone, AfterUpload, spoolVars, aggVars, historyVars
<1>4. CASE Exit
    BY <1>4, QuietStep DEF Exit, S!Close, aggVars, historyVars
<1>5. CASE UploadTick \/ FlushDone
    BY <1>5, QuietStep
       DEF UploadTick, FlushDone, S!BeginPeek, S!RefusePeek, aggVars, historyVars
<1> QED
    BY <1>1, <1>2, <1>3, <1>4, <1>5

LEMMA CrashStep == ASSUME Inv, Crash PROVE Inv'
<1> USE DEF Inv, Shape
<1>1. /\ fate' = [w \in Windows |-> IF fate[w] = "adding" THEN "crashed" ELSE fate[w]]
      /\ op' = "down" /\ phase' = "down" /\ current' = {} /\ final' = FALSE
      /\ opened' = opened \ {b.win : b \in current} /\ answer' = NoAnswer
      /\ UNCHANGED <<width, settings, processed, refused>>
    BY DEF Crash, S!Crash
<1>2. NoAnswer.config \in [Fields -> Int]
    BY DEF NoAnswer
<1>3. Shape'
    BY <1>1, <1>2 DEF S!Fates
<1>4. \A w \in opened' : fate'[w] # "new"
    BY <1>1 DEF NothingVanishes
<1>5. Honest => DiscardOnlySettled'
    BY <1>1 DEF DiscardOnlySettled
<1> QED
    BY <1>1, <1>3, <1>4, <1>5 DEF Ending, Settled, NothingVanishes

LEMMA WorkStep == ASSUME Inv, SpoolStep PROVE Inv'
<1> USE DEF Inv, Shape
<1>1. Onward /\ SameList
    BY StepOnward DEF SpoolStep
<1>2. UNCHANGED <<width, prev, current, phase, final, settings, answer,
                  opened, processed, refused>>
    BY DEF SpoolStep, aggVars, loopVars, historyVars
<1>3. Shape' /\ Ending'
    BY <1>1, <1>2 DEF Onward, Ending
<1>4. Honest => DiscardOnlySettled'
    BY <1>1, <1>2 DEF Onward, DiscardOnlySettled, Settled
<1>5. Honest => Settled'
    <2> SUFFICES ASSUME Honest, op' = "discard", NEW n \in todo' \cap S!Files'
                 PROVE  S!Holding(n)' \in processed' \cup refused'
        BY DEF Settled
    <2> QED
        BY <1>1, <1>2 DEF SameList, Settled
<1>6. NothingVanishes'
    BY <1>1, <1>2 DEF Onward, NothingVanishes
<1> QED
    BY <1>3, <1>4, <1>5, <1>6

LEMMA DecayStep == ASSUME Inv, Decay PROVE Inv'
<1> USE DEF Inv, Shape
<1>1. PICK n \in S!Files : S!Spoil(n)
    BY DEF Decay
<1>2. /\ S!Files' = S!Files /\ \A m \in S!Files : S!Holding(m)' = S!Holding(m)
      /\ UNCHANGED <<fate, op, todo>>
    BY <1>1 DEF S!Spoil, S!Files, S!Holding
<1>3. UNCHANGED <<width, current, phase, final, settings, answer, opened, processed, refused>>
    BY DEF Decay, aggVars, loopVars, historyVars
<1> QED
    BY <1>2, <1>3 DEF Ending, Settled, DiscardOnlySettled, NothingVanishes

LEMMA SampleStep ==
    ASSUME Inv, NEW s \in Samples, SampleTick(s)
    PROVE  Inv'
<1> USE DEF Inv, Shape
<1> DEFINE done == Agg!Completed(s)
<1>1. /\ phase = "loop" /\ phase' \in {"loop", "persist"}
      /\ opened' = opened \cup {b.win : b \in current'}
      /\ Persist(done)
      /\ UNCHANGED <<final, settings, answer, processed, refused>>
    BY DEF SampleTick
<1>2. PICK w \in IF Agg!Opens(s) THEN Unborn ELSE Windows : Agg!Add(s, w)
    BY DEF SampleTick
<1>3. w \in Windows
    BY <1>2 DEF Unborn
<1>4. /\ current' = {} \/ \E b \in current' : current' = {b}
      /\ current' \subseteq [win : Windows, start : Starts]
      /\ width' = width
    BY <1>2, <1>3, AddShape
<1>5. done \in SUBSET current
    BY DEF Agg!Completed, Agg!OtherWindow
<1>6. /\ fate' \in [Windows -> S!Fates]
      /\ done # {} => op' # "discard"
      /\ done = {} => UNCHANGED spoolVars
      /\ \A v \in Windows : fate'[v] = "new" => fate[v] = "new"
      /\ \A b \in done : fate'[b.win] # "new"
      /\ \A v \in Windows : fate'[v] = "discarded" => fate[v] = "discarded"
    BY <1>1, <1>5, PersistOnward
<1>7. Shape' /\ Ending'
    BY <1>1, <1>4, <1>6 DEF Ending
<1>8. Honest => Settled' /\ DiscardOnlySettled'
    BY <1>1, <1>6 DEF Settled, DiscardOnlySettled, S!Files, S!Holding, spoolVars
<1>9. NothingVanishes'
    <2> SUFFICES ASSUME NEW v \in opened, fate'[v] = "new"
                 PROVE  \E b \in current' : b.win = v
        BY <1>1 DEF NothingVanishes
    <2>1. PICK b \in current : b.win = v
        BY <1>6 DEF NothingVanishes
    <2>2. b \notin done /\ current = {b}
        BY <1>6, <2>1
    <2>3. ~Agg!Opens(s)
        BY <2>2 DEF Agg!Opens, Agg!Completed
    <2>4. b \in current'
        BY <1>2, <2>2, <2>3 DEF Agg!Add
    <2> QED
        BY <2>1, <2>4
<1> QED
    BY <1>7, <1>8, <1>9

LEMMA SendStep ==
    ASSUME Inv, NEW a \in Attempts, NEW c \in Configs, SendReturns(a, c)
    PROVE  Inv'
<1> USE DEF Inv, Shape
<1>1. /\ phase = "send" /\ phase' \in {AfterUpload, "discard"}
      /\ answer' \in {[kind |-> "ok", config |-> c], NoAnswer}
      /\ UNCHANGED <<width, prev, current, final, settings, opened>>
    BY DEF SendReturns, aggVars
<1>2. fate' = fate
    BY DEF SendReturns, S!BeginDiscard, spoolVars
<1>3. processed \subseteq processed' /\ refused \subseteq refused'
    BY DEF SendReturns
<1>4. Shape' /\ Ending'
    <2>1. c \in [Fields -> Int] /\ NoAnswer.config \in [Fields -> Int]
        BY AgentAssumption DEF NoAnswer
    <2>2. answer'.config \in [Fields -> Int]
        BY <1>1, <2>1
    <2> QED
        BY <1>1, <1>2, <2>2 DEF Ending, AfterUpload
<1>5. NothingVanishes' /\ (Honest => DiscardOnlySettled')
    BY <1>1, <1>2, <1>3 DEF DiscardOnlySettled, NothingVanishes
<1>6. Honest => Settled'
    <2> SUFFICES ASSUME Honest PROVE Settled'
        OBVIOUS
    <2>1. CASE Drops(Send(a))
        <3>1. todo' = batch /\ dir' = dir
            BY <2>1 DEF SendReturns, S!BeginDiscard
        <3>2. CASE Send(a) = "ok"
            <4>1. TakenIn(a) = {BatchWindows}
                BY <3>2 DEF Honest, TakenIn
            <4>2. BatchWindows \subseteq processed'
                BY <4>1 DEF SendReturns
            <4> QED
                BY <3>1, <4>2 DEF Settled, BatchWindows, S!Files, S!Holding
        <3>3. CASE Send(a) = "rejected"
            <4>1. BatchWindows \subseteq refused'
                BY <3>3 DEF Honest, SendReturns
            <4> QED
                BY <3>1, <4>1 DEF Settled, BatchWindows, S!Files, S!Holding
        <3> QED
            BY <2>1, <3>2, <3>3 DEF Drops
    <2>2. CASE ~Drops(Send(a))
        BY <1>3, <2>2 DEF SendReturns, spoolVars, Settled, S!Files, S!Holding
    <2> QED
        BY <2>1, <2>2
<1> QED
    BY <1>4, <1>5, <1>6

\* Handing the window in progress to the spool.
LEMMA HandOver ==
    ASSUME Inv, Persist(current), current' = {}, Shape', Ending',
           UNCHANGED <<opened, processed, refused>>
    PROVE  Inv'
<1> USE DEF Inv, Shape
<1>1. /\ current # {} => op' # "discard"
      /\ current = {} => UNCHANGED spoolVars
      /\ \A v \in Windows : fate'[v] = "new" => fate[v] = "new"
      /\ \A b \in current : fate'[b.win] # "new"
      /\ \A v \in Windows : fate'[v] = "discarded" => fate[v] = "discarded"
    BY PersistOnward
<1>2. Honest => Settled' /\ DiscardOnlySettled'
    BY <1>1 DEF Settled, DiscardOnlySettled, S!Files, S!Holding, spoolVars
<1>3. NothingVanishes'
    BY <1>1 DEF NothingVanishes
<1> QED
    BY <1>2, <1>3

LEMMA ReplyStep ==
    ASSUME Inv, DiscardDone \/ ReconfigDone \/ Shutdown
    PROVE  Inv'
<1> USE DEF Inv, Shape
<1>1. NewSettings \in [Fields -> Int] /\ NewSettings["window"] \in Widths
    BY ApplyWidth DEF NewSettings
<1>2. NoAnswer.config \in [Fields -> Int]
    BY DEF NoAnswer
<1>3. CASE Shutdown
    <2>1. /\ Persist(current) /\ current' = {} /\ phase' = "flush" /\ phase \in {"spread", "loop"}
          /\ UNCHANGED <<width, final, settings, answer, opened, processed, refused>>
        BY <1>3 DEF Shutdown, Waiting, Agg!Flush, historyVars
    <2>2. Shape' /\ Ending'
        BY <2>1, PersistOnward DEF Ending
    <2> QED
        BY <2>1, <2>2, HandOver
<1>4. CASE ReconfigDone
    <2>1. /\ op = "idle" /\ phase = "reconfig" /\ phase' = AfterUpload
          /\ UNCHANGED <<spoolVars, final, opened, processed, refused>>
          /\ settings' = NewSettings /\ width' = NewSettings["window"] /\ current' = {}
          /\ answer' = NoAnswer
        BY <1>4 DEF ReconfigDone, Agg!Fresh, historyVars
    <2>2. Shape' /\ Ending'
        BY <1>1, <1>2, <2>1 DEF Ending, AfterUpload, spoolVars
    <2> QED
        BY <2>1, <2>2, QuietStep DEF Ending, spoolVars
<1>5. CASE DiscardDone
    <2>1. /\ op = "idle" /\ phase = "discard"
          /\ UNCHANGED <<final, opened, processed, refused>>
        BY <1>5 DEF DiscardDone, historyVars
    <2>2. CASE NewSettings["window"] # settings["window"] /\ current # {}
        <3>1. /\ Persist(current) /\ current' = {} /\ phase' = "reconfig"
              /\ UNCHANGED <<width, settings, answer>>
            BY <1>5, <2>2 DEF DiscardDone, Agg!Flush
        <3>2. Shape' /\ Ending'
            BY <2>1, <2>2, <3>1, PersistOnward DEF Ending
        <3> QED
            BY <2>1, <3>1, <3>2, HandOver
    <2>3. CASE ~(NewSettings["window"] # settings["window"] /\ current # {})
        <3>1. /\ phase' = AfterUpload /\ settings' = NewSettings /\ answer' = NoAnswer
              /\ UNCHANGED spoolVars
              /\ IF NewSettings["window"] # settings["window"]
                 THEN Agg!Fresh(NewSettings["window"]) ELSE UNCHANGED aggVars
            BY <1>5, <2>3 DEF DiscardDone
        <3>2. current' = current /\ width' \in Widths
            BY <1>1, <2>3, <3>1 DEF Agg!Fresh, aggVars
        <3>3. Shape' /\ Ending'
            BY <1>1, <1>2, <2>1, <3>1, <3>2 DEF Ending, AfterUpload, spoolVars
        <3> QED
            BY <2>1, <3>1, <3>2, <3>3, QuietStep DEF spoolVars
    <2> QED
        BY <2>2, <2>3
<1> QED
    BY <1>3, <1>4, <1>5

LEMMA InvStep == Inv /\ [Next]_vars => Inv'
<1>1. ASSUME Inv, UNCHANGED vars PROVE Inv'
    BY <1>1 DEF Inv, Shape, Ending, Settled, DiscardOnlySettled, NothingVanishes,
                S!Files, S!Holding, vars, spoolVars, aggVars, loopVars, historyVars
<1>2. ASSUME Inv, Next PROVE Inv'
    BY <1>2, LifeStep, CrashStep, SampleStep, SendStep, ReplyStep, WorkStep, DecayStep
       DEF Next, Upload
<1> QED
    BY <1>1, <1>2

LEMMA Invariance == Spec => []Inv
<1> QED
    BY InitInv, InvStep, PTL DEF Spec

-----------------------------------------------------------------------------
\* As long as the platform means what its replies say, the agent deletes only
\* what was settled, under any faults, kills, signals and schedules.
THEOREM DeletesOnlySettled == ASSUME Honest PROVE Spec => []DiscardOnlySettled
<1>1. Inv => DiscardOnlySettled
    BY DEF Inv
<1> QED
    BY <1>1, Invariance, PTL

\* A window that was opened is handed on by whatever ends it: the boundary, a
\* reset, a change of width or the shutdown.
THEOREM WindowsAreHandedOn == Spec => []NothingVanishes
<1>1. Inv => NothingVanishes
    BY DEF Inv
<1> QED
    BY <1>1, Invariance, PTL

-----------------------------------------------------------------------------
(***************************************************************************)
(* The composition.  What is proved of Spool is true of the agent's spool. *)
(***************************************************************************)

\* A step of the agent is a step of the spool or leaves it alone.
LEMMA SpoolSteps == Inv /\ [Next]_vars => [S!Next]_S!vars
<1>1. ASSUME Inv, NEW windows \in SUBSET current, Persist(windows)
      PROVE  [S!Next]_S!vars
    <2>1. CASE windows = {}
        BY <1>1, <2>1 DEF Persist, spoolVars, S!vars
    <2>2. CASE windows # {}
        <3>1. PICK b \in windows : S!BeginAdd(b.win, b.start) \/ S!RefuseAdd(b.win)
            BY <1>1, <2>2 DEF Persist
        <3>2. b.win \in Windows /\ b.start \in Starts
            BY <1>1, <3>1 DEF Inv, Shape
        <3> QED
            BY <3>1, <3>2 DEF S!Next, S!Call
    <2> QED
        BY <2>1, <2>2
<1>2. ASSUME Inv, Next PROVE [S!Next]_S!vars
    <2>1. CASE Start \/ Exit \/ Crash \/ UploadTick \/ FlushDone \/ SpoolStep \/ Decay
        BY <2>1 DEF Start, Exit, Crash, UploadTick, FlushDone, SpoolStep, Decay, S!Next, S!Call
    <2>2. CASE SpreadElapses \/ Terminate \/ PersistDone \/ PeekDone \/ ReconfigDone
               \/ BackoffElapses
        BY <2>2 DEF SpreadElapses, Terminate, PersistDone, PeekDone, ReconfigDone,
                    BackoffElapses, spoolVars, S!vars
    <2>3. ASSUME NEW s \in Samples, SampleTick(s) PROVE [S!Next]_S!vars
        <3>1. Agg!Completed(s) \in SUBSET current
            BY DEF Agg!Completed, Agg!OtherWindow
        <3> QED
            BY <1>1, <1>2, <2>3, <3>1 DEF SampleTick
    <2>4. ASSUME NEW a \in Attempts, NEW c \in Configs, SendReturns(a, c)
          PROVE  [S!Next]_S!vars
        BY <2>4 DEF SendReturns, spoolVars, S!vars, S!Next, S!Call
    <2>5. CASE DiscardDone \/ Shutdown
        BY <1>1, <1>2, <2>5 DEF DiscardDone, Shutdown, spoolVars, S!vars
    <2> QED
        BY <1>2, <2>1, <2>2, <2>3, <2>4, <2>5 DEF Next, Upload
<1>3. UNCHANGED vars => UNCHANGED S!vars
    BY DEF vars, spoolVars, S!vars
<1> QED
    BY <1>2, <1>3

\* The composition: whatever the loop does, it makes only the calls that the
\* spool's own specification allows, in their order, one at a time, so that what
\* is proved of Spool is true of the agent's spool.
THEOREM UsesSpool == Spec => S!Spec
<1>1. Init => S!Init
    BY DEF Init
<1> QED
    BY <1>1, SpoolSteps, Invariance, PTL DEF Spec, S!Spec

\* Spool's theorems, about the agent's variables.
Proved == INSTANCE StoreProofs

LEMMA SpoolProofsApply ==
    /\ Proved!IsFiniteSet(Windows)
    /\ Faults \subseteq Proved!FaultKinds
BY SpoolConstants DEF Proved!IsFiniteSet, IsFiniteSet, Proved!FaultKinds

\* The two instances of Spool are the same specification.
LEMMA SameSpool ==
    /\ [S!Next]_S!vars <=> [Proved!Next]_Proved!vars
    /\ S!Init <=> Proved!Init
    /\ S!TypeOK <=> Proved!TypeOK
    /\ S!NothingLost <=> Proved!NothingLost
BY DEF S!Init, S!TypeOK, S!NothingLost, S!Next, S!vars,
       S!Call, S!Step, S!AddStep, S!PeekStep, S!DiscardStep, S!Open, S!Close, S!Crash,
       S!Spoil, S!CanStart, S!NextSeq, S!BeginAdd, S!RefuseAdd, S!CreateTemp,
       S!WriteTemp, S!Measure, S!Cleaned,
       S!FailAdd, S!Rename, S!MustEvict, S!Lose, S!EvictOldest, S!OnDrop, S!EndAdd,
       S!FailEvict, S!BeginPeek, S!RefusePeek, S!PeekMore, S!Reading, S!TakeGood,
       S!DropCorrupt, S!EndPeek, S!FailPeek, S!BeginDiscard, S!DiscardNext,
       S!FailDiscard, S!EndDiscard, S!Name, S!Older, S!IsOldest, S!Files, S!Holding,
       S!Contents, S!Bytes, S!TotalBytes, S!Without, S!WinNames, S!FileStates, S!Fates,
       S!IsFiniteSet, S!Cardinality, S!SumOver, S!MapThenSumSet, S!MapThenFoldSet,
       Proved!Init, Proved!TypeOK, Proved!NothingLost, Proved!Next,
       Proved!vars, Proved!Call, Proved!Step, Proved!AddStep, Proved!PeekStep,
       Proved!DiscardStep, Proved!Open, Proved!Close, Proved!Crash, Proved!Spoil,
       Proved!CanStart, Proved!NextSeq, Proved!BeginAdd, Proved!RefuseAdd,
       Proved!CreateTemp, Proved!WriteTemp, Proved!Measure,
       Proved!Cleaned, Proved!FailAdd, Proved!Rename,
       Proved!MustEvict, Proved!Lose, Proved!EvictOldest, Proved!OnDrop, Proved!EndAdd,
       Proved!FailEvict, Proved!BeginPeek, Proved!RefusePeek, Proved!PeekMore,
       Proved!Reading, Proved!TakeGood, Proved!DropCorrupt, Proved!EndPeek,
       Proved!FailPeek, Proved!BeginDiscard, Proved!DiscardNext, Proved!FailDiscard,
       Proved!EndDiscard, Proved!Name, Proved!Older, Proved!IsOldest, Proved!Files,
       Proved!Holding, Proved!Contents, Proved!Bytes, Proved!TotalBytes,
       Proved!Without, Proved!WinNames, Proved!FileStates, Proved!Fates,
       Proved!IsFiniteSet, Proved!Cardinality, Proved!SumOver, Proved!MapThenSumSet,
       Proved!MapThenFoldSet

LEMMA SameSpec == S!Spec <=> Proved!Spec
BY SameSpool, PTL DEF S!Spec, Proved!Spec

\* The agent overwrites no window either, through any number of its lives.
THEOREM AgentLosesNothing ==
    ASSUME ~RestartOverlap PROVE Spec => []NothingLost
<1>1. Proved!Spec => []Proved!NothingLost
    BY SpoolConstants, SpoolProofsApply, Proved!NoWindowOverwritten DEF Proved!FaultKinds
<1>2. Proved!NothingLost => NothingLost
    BY SameSpool DEF NothingLost
<1> QED
    BY <1>1, <1>2, UsesSpool, SameSpec, PTL

\* So are the stores that the two are said to implement.
LEMMA SameStore ==
    /\ S!Store!Init <=> Proved!Store!Init
    /\ [S!Store!Next]_S!Store!vars <=> [Proved!Store!Next]_Proved!Store!vars
BY DEF S!Store!Init, S!Store!Next, S!Store!vars, S!Store!Names, S!Store!Put,
       S!Store!Range, S!Store!Remove, S!Store!Evict, S!Store!IsOldest, S!Store!Older,
       S!Store!Spoil, S!Store!Purge, S!Store!Offer, S!Store!Cardinality,
       S!Store!Release, S!Store!Withdraw,
       S!Contents, S!Files, S!Holding, S!Bytes, S!SumOver, S!MapThenSumSet,
       S!MapThenFoldSet,
       Proved!Store!Init, Proved!Store!Next, Proved!Store!vars, Proved!Store!Names,
       Proved!Store!Put, Proved!Store!Range, Proved!Store!Remove, Proved!Store!Evict,
       Proved!Store!IsOldest, Proved!Store!Older, Proved!Store!Spoil,
       Proved!Store!Purge, Proved!Store!Offer, Proved!Store!Cardinality,
       Proved!Store!Release, Proved!Store!Withdraw,
       Proved!Contents, Proved!Files, Proved!Holding, Proved!Bytes, Proved!SumOver,
       Proved!MapThenSumSet, Proved!MapThenFoldSet

\* Under the loop's calls the spool is the abstract store: a bounded FIFO that
\* gives a window up only after it was offered, or spoiled, or as the oldest of too
\* many.
THEOREM AgentImplementsStore ==
    ASSUME ~RestartOverlap PROVE Spec => ImplementsStore
<1>1. Proved!Spec => Proved!ImplementsStore
    BY SpoolConstants, SpoolProofsApply, Proved!SpoolImplementsStore DEF Proved!FaultKinds
<1> QED
    BY <1>1, UsesSpool, SameSpec, SameStore, PTL
       DEF ImplementsStore, S!ImplementsStore, S!Store!Spec, Proved!ImplementsStore,
           Proved!Store!Spec

-----------------------------------------------------------------------------
(***************************************************************************)
(* The types, and the loop and the spool in step with each other.          *)
(***************************************************************************)

\* The steps of an Add.
AddOps == {"create", "write", "rename", "scan", "evict"}

\* Where the loop stands says what the spool may be doing.
InStep ==
    /\ phase \in Waiting \cup {"down", "persist", "peek", "send", "discard",
                              "reconfig", "flush", "exit"}
    /\ phase = "down" <=> op = "down"
    /\ phase \in Waiting \cup {"send", "exit"} => op = "idle"
    /\ phase \in {"persist", "reconfig", "flush"} => op \in AddOps \cup {"idle"}
    /\ phase = "peek" => op \in {"peek", "idle"}
    /\ phase = "discard" => op \in {"discard", "idle"}

\* What was peeked at is still there when it is sent.
Present == phase \in {"peek", "send"} /\ op = "idle" => batch \subseteq S!Files

LoopTypes ==
    /\ prev \subseteq Samples /\ (prev = {} \/ \E s \in prev : prev = {s})
    /\ final \in BOOLEAN /\ term \in BOOLEAN /\ deferred \in BOOLEAN
    /\ answer.kind \in Kinds
    /\ processed \subseteq Windows /\ refused \subseteq Windows /\ acked \subseteq Windows
    /\ width = settings["window"]

TypeInv == Inv /\ Proved!TypeOK /\ Proved!CallInv /\ InStep /\ Present /\ LoopTypes

LEMMA TypeInvInit == Init => TypeInv
<1> SUFFICES ASSUME Init PROVE TypeInv
    OBVIOUS
<1>1. Proved!Init
    BY SameSpool DEF Init
<1>2. Proved!TypeOK
    BY <1>1, SpoolConstants, SpoolProofsApply, Proved!TypeInit DEF Proved!FaultKinds
<1>3. Proved!CallInv
    BY <1>1 DEF Proved!Init, Proved!CallInv
<1>4. InStep /\ Present /\ LoopTypes
    BY <1>1 DEF Init, Proved!Init, InStep, Present, LoopTypes, Waiting, NoAnswer, Kinds
<1> QED
    BY <1>2, <1>3, <1>4, InitInv DEF TypeInv

\* How far a step of the spool takes the call it belongs to.
LEMMA StepOp ==
    ASSUME S!Step
    PROVE  \/ op \in AddOps /\ op' \in AddOps \cup {"idle"}
           \/ op = "peek" /\ op' \in {"peek", "idle"}
           \/ op = "discard" /\ op' \in {"discard", "idle"}
BY DEF AddOps, S!Step, S!AddStep, S!PeekStep, S!DiscardStep, S!CreateTemp,
       S!WriteTemp, S!FailAdd, S!Rename, S!Measure, S!EvictOldest,
       S!EndAdd, S!FailEvict, S!TakeGood, S!DropCorrupt, S!FailPeek,
       S!Reading, S!EndPeek, S!DiscardNext, S!FailDiscard, S!EndDiscard

\* Handing windows over leaves the spool idle or in an Add.
LEMMA PersistOp ==
    ASSUME NEW windows, Persist(windows), op = "idle"
    PROVE  op' \in {"create", "idle"}
BY DEF Persist, S!BeginAdd, S!RefuseAdd, spoolVars

LEMMA InStepStep ==
    ASSUME InStep, Next
    PROVE  InStep'
<1> USE DEF InStep, AddOps, Waiting
<1>1. CASE Start \/ Exit \/ Crash
    BY <1>1 DEF Start, S!Open, Exit, S!Close, Crash, S!Crash
<1>2. CASE SpreadElapses \/ Terminate \/ PersistDone \/ PeekDone \/ ReconfigDone \/ BackoffElapses
    BY <1>2 DEF SpreadElapses, Terminate, PersistDone, PeekDone, ReconfigDone, BackoffElapses,
                AfterUpload, spoolVars
<1>3. ASSUME NEW s \in Samples, SampleTick(s) PROVE InStep'
    <2>1. CASE Agg!Completed(s) = {}
        BY <1>3, <2>1 DEF SampleTick, Persist, spoolVars
    <2>2. CASE Agg!Completed(s) # {}
        BY <1>3, <2>2, PersistOp DEF SampleTick
    <2> QED
        BY <2>1, <2>2
<1>4. CASE UploadTick \/ FlushDone
    BY <1>4 DEF UploadTick, FlushDone, S!BeginPeek, S!RefusePeek
<1>5. ASSUME NEW a \in Attempts, NEW c \in Configs, SendReturns(a, c) PROVE InStep'
    BY <1>5 DEF SendReturns, S!BeginDiscard, AfterUpload, spoolVars
<1>6. CASE DiscardDone
    <2>1. CASE NewSettings["window"] # settings["window"] /\ current # {}
        BY <1>6, <2>1, PersistOp DEF DiscardDone
    <2>2. CASE ~(NewSettings["window"] # settings["window"] /\ current # {})
        BY <1>6, <2>2 DEF DiscardDone, AfterUpload, spoolVars
    <2> QED
        BY <2>1, <2>2
<1>7. CASE Shutdown
    BY <1>7, PersistOp DEF Shutdown
<1>8. CASE SpoolStep
    BY <1>8, StepOp DEF SpoolStep, loopVars
<1>9. CASE Decay
    BY <1>9 DEF Decay, S!Spoil, loopVars
<1> QED
    BY <1>1, <1>2, <1>3, <1>4, <1>5, <1>6, <1>7, <1>8, <1>9 DEF Next, Upload

LEMMA PresentStep ==
    ASSUME InStep, Present, Proved!TypeOK, Proved!CallInv, Next
    PROVE  Present'
<1> USE DEF InStep, AddOps, Waiting, Present
<1>1. ASSUME phase' \notin {"peek", "send"} \/ op' # "idle" PROVE Present'
    BY <1>1
<1>2. CASE Start \/ Exit \/ Crash \/ SpreadElapses \/ ReconfigDone
    BY <1>2, <1>1 DEF Start, Exit, Crash, SpreadElapses, ReconfigDone, AfterUpload
<1>3. CASE Terminate \/ BackoffElapses \/ PersistDone
    BY <1>3 DEF Terminate, BackoffElapses, PersistDone, spoolVars, S!Files
<1>4. CASE PeekDone
    BY <1>4 DEF PeekDone, AfterUpload, spoolVars, S!Files
<1>5. CASE \E s \in Samples : SampleTick(s)
    BY <1>5, <1>1 DEF SampleTick
<1>6. CASE UploadTick \/ FlushDone
    BY <1>6 DEF UploadTick, FlushDone, S!BeginPeek, S!RefusePeek
<1>7. CASE \E a \in Attempts, c \in Configs : SendReturns(a, c)
    BY <1>7, <1>1 DEF SendReturns, AfterUpload
<1>8. CASE DiscardDone \/ Shutdown
    BY <1>8, <1>1 DEF DiscardDone, Shutdown, AfterUpload
<1>9. CASE SpoolStep
    <2> SUFFICES ASSUME phase = "peek", op = "peek", op' = "idle" PROVE Present'
        BY <1>9, StepOp DEF SpoolStep, loopVars
    <2>1. CASE S!EndPeek
        BY <2>1 DEF S!EndPeek, S!Files, Proved!CallInv, Proved!Files
    <2>2. ASSUME NEW n \in todo, S!FailPeek(n) PROVE Present'
        BY <2>2 DEF S!FailPeek
    <2> QED
        BY <1>9, <2>1, <2>2
           DEF SpoolStep, S!Step, S!AddStep, S!PeekStep, S!DiscardStep,
               S!CreateTemp, S!WriteTemp, S!FailAdd, S!Rename, S!Measure,
               S!EvictOldest, S!EndAdd, S!FailEvict, S!TakeGood,
               S!DropCorrupt, S!Reading, S!DiscardNext, S!FailDiscard, S!EndDiscard
<1>10. CASE Decay
    BY <1>10 DEF Decay, S!Spoil, S!Files, loopVars
<1> QED
    BY <1>2, <1>3, <1>4, <1>5, <1>6, <1>7, <1>8, <1>9, <1>10 DEF Next, Upload

\* The windows of the batch that is sent are windows.
LEMMA BatchTyped ==
    ASSUME InStep, Present, Proved!TypeOK, phase = "send"
    PROVE  BatchWindows \subseteq Windows
<1>1. batch \subseteq S!Files
    BY DEF InStep, Present
<1>2. \A n \in S!Files : S!Holding(n) \in Windows
    BY DEF Proved!TypeOK, Proved!Files, S!Files, S!Holding
<1> QED
    BY <1>1, <1>2 DEF BatchWindows

LEMMA LoopTypesStep ==
    ASSUME InStep, Present, Proved!TypeOK, LoopTypes, Next
    PROVE  LoopTypes'
<1> USE DEF LoopTypes
<1>n. NoAnswer.kind \in Kinds
    BY DEF NoAnswer, Kinds
<1>1. CASE Start \/ Exit \/ Crash
    <2>1. CASE Start
        BY <1>n, <2>1 DEF Start, Agg!Fresh, historyVars
    <2>2. CASE Exit
        BY <2>2 DEF Exit, aggVars, historyVars
    <2>3. CASE Crash
        BY <1>n, <2>3 DEF Crash
    <2> QED
        BY <1>1, <2>1, <2>2, <2>3
<1>2. CASE SpreadElapses \/ Terminate \/ PersistDone \/ PeekDone \/ BackoffElapses
           \/ UploadTick \/ FlushDone
    BY <1>2 DEF SpreadElapses, Terminate, PersistDone, PeekDone, BackoffElapses, UploadTick,
                FlushDone, aggVars, historyVars
<1>3. ASSUME NEW s \in Samples, SampleTick(s) PROVE LoopTypes'
    BY <1>3 DEF SampleTick, Agg!Add, Agg!Remember
<1>4. ASSUME NEW a \in Attempts, NEW c \in Configs, SendReturns(a, c) PROVE LoopTypes'
    <2>1. BatchWindows \subseteq Windows
        BY <1>4, BatchTyped DEF SendReturns
    <2>2. /\ processed' \subseteq Windows /\ refused' \subseteq Windows
          /\ acked' \subseteq Windows
        BY <1>4, <2>1 DEF SendReturns, TakenIn
    <2>3. answer'.kind \in Kinds /\ deferred' \in BOOLEAN
        BY <1>4 DEF SendReturns, NoAnswer, Kinds, BackOff
    <2> QED
        BY <1>4, <2>2, <2>3 DEF SendReturns, aggVars
<1>5. CASE DiscardDone \/ ReconfigDone
    <2>1. CASE ReconfigDone
        BY <1>n, <2>1 DEF ReconfigDone, Agg!Fresh, historyVars
    <2>2. CASE DiscardDone
        <3>1. deferred' \in BOOLEAN /\ UNCHANGED <<final, term, processed, refused, acked>>
            BY <2>2 DEF DiscardDone, historyVars
        <3>2. CASE NewSettings["window"] # settings["window"] /\ current # {}
            BY <2>2, <3>1, <3>2 DEF DiscardDone, Agg!Flush
        <3>3. CASE NewSettings["window"] = settings["window"]
            BY <1>n, <2>2, <3>1, <3>3 DEF DiscardDone, aggVars
        <3>4. CASE NewSettings["window"] # settings["window"] /\ current = {}
            BY <1>n, <2>2, <3>1, <3>4 DEF DiscardDone, Agg!Fresh
        <3> QED
            BY <3>2, <3>3, <3>4
    <2> QED
        BY <1>5, <2>1, <2>2
<1>6. CASE Shutdown
    BY <1>6 DEF Shutdown, Agg!Flush, historyVars
<1>7. CASE SpoolStep \/ Decay
    BY <1>7 DEF SpoolStep, Decay, aggVars, loopVars, historyVars
<1> QED
    BY <1>1, <1>2, <1>3, <1>4, <1>5, <1>6, <1>7 DEF Next, Upload

LEMMA TypeInvStep == TypeInv /\ [Next]_vars => TypeInv'
<1> SUFFICES ASSUME TypeInv, [Next]_vars PROVE TypeInv'
    OBVIOUS
<1>1. Inv'
    BY InvStep DEF TypeInv
<1>2. [Proved!Next]_Proved!vars
    BY SpoolSteps, SameSpool DEF TypeInv
<1>3. Proved!TypeOK' /\ Proved!CallInv'
    BY <1>2, SpoolConstants, SpoolProofsApply, Proved!TypeStep, Proved!CallStep
       DEF TypeInv, Proved!FaultKinds
<1>4. CASE Next
    BY <1>1, <1>3, <1>4, InStepStep, PresentStep, LoopTypesStep DEF TypeInv
<1>5. CASE UNCHANGED vars
    <2>1. InStep' /\ Present' /\ LoopTypes'
        BY <1>5 DEF TypeInv, InStep, Present, LoopTypes, S!Files, vars, spoolVars, aggVars,
                    loopVars, historyVars
    <2> QED
        BY <1>1, <1>3, <2>1 DEF TypeInv
<1> QED
    BY <1>4, <1>5

\* Type correctness of the agent; in particular the loop never waits, sends or
\* exits inside a call of the spool, and samples at the width of its settings.
THEOREM AgentTypes == Spec => []TypeOK
<1>1. TypeInv => TypeOK
    <2> SUFFICES ASSUME TypeInv PROVE TypeOK
        OBVIOUS
    <2>1. S!TypeOK
        BY SameSpool DEF TypeInv
    <2>2. width \in Nat \ {0}
        <3>1. Lo["window"] \in Nat \ {0} /\ Hi["window"] \in Int /\ Flags["window"] \in Nat \ {0}
            BY WireAssumption, AgentAssumption DEF Fields
        <3> QED
            BY <3>1 DEF TypeInv, Inv, Shape, Widths
    <2>3. Cardinality(prev) <= 1 /\ Cardinality(current) <= 1
        <3>1. \A T : T = {} \/ (\E x \in T : T = {x}) => Cardinality(T) <= 1
            BY FS_EmptySet, FS_Singleton
        <3> QED
            BY <3>1 DEF TypeInv, LoopTypes, Inv, Shape
    <2>4. current \subseteq [win : Windows, start : Nat]
        BY SpoolConstants DEF TypeInv, Inv, Shape
    <2> QED
        BY <2>1, <2>2, <2>3, <2>4 DEF TypeOK, TypeInv, Inv, Shape, InStep, LoopTypes
<1> QED
    BY <1>1, TypeInvInit, TypeInvStep, PTL DEF Spec

-----------------------------------------------------------------------------
(***************************************************************************)
(* Acknowledged windows are not sent again.  One that is still stored is   *)
(* on the list of the Discard that is under way, and a Discard that does   *)
(* not fail gets through its list before the loop goes on.                 *)
(***************************************************************************)

Told ==
    crashes = 0 =>
        \A w \in acked :
            /\ fate[w] \notin {"new", "adding"}
            /\ fate[w] = "stored" =>
                  op = "discard" /\ \E n \in todo \cap S!Files : S!Holding(n) = w

ToldInv == TypeInv /\ Proved!Once /\ Told

\* A step that publishes no window and adds none leaves what was told true while
\* no Discard runs.
LEMMA ToldFrame ==
    ASSUME ToldInv, op # "discard", acked' = acked, crashes' = crashes,
           \A w \in Windows : fate'[w] \in {"new", "adding", "stored"} =>
               fate'[w] = fate[w] \/ fate[w] \in {"new", "adding"}
    PROVE  Told'
BY DEF ToldInv, TypeInv, LoopTypes, Told

LEMMA ToldByPersist ==
    ASSUME ToldInv, NEW windows \in SUBSET current, Persist(windows), op = "idle",
           acked' = acked
    PROVE  Told'
<1>1. CASE windows = {}
    BY <1>1, ToldFrame DEF Persist, spoolVars
<1>2. CASE windows # {}
    <2>1. PICK b \in windows : S!BeginAdd(b.win, b.start) \/ S!RefuseAdd(b.win)
        BY <1>2 DEF Persist
    <2>2. b.win \in Windows /\ fate \in [Windows -> S!Fates]
        BY <2>1 DEF ToldInv, TypeInv, Inv, Shape
    <2>3. /\ crashes' = crashes /\ fate[b.win] = "new"
          /\ \E what \in {"adding", "failed"} : fate' = [fate EXCEPT ![b.win] = what]
        BY <2>1 DEF S!BeginAdd, S!RefuseAdd
    <2> QED
        BY <2>2, <2>3, ToldFrame
<1> QED
    BY <1>1, <1>2

LEMMA ToldBySpool ==
    ASSUME "remove" \notin Faults, ToldInv, S!Step, acked' = acked
    PROVE  Told'
<1>t. /\ fate \in [Windows -> S!Fates] /\ acked \subseteq Windows
      /\ \A f \in pending : f.win \in Windows /\ fate[f.win] = "adding"
      /\ \A n \in S!Files : S!Holding(n) \in Windows /\ fate[S!Holding(n)] = "stored"
    BY DEF ToldInv, TypeInv, Inv, Shape, LoopTypes, Proved!Once, Proved!TypeOK, Proved!Files,
           Proved!Holding, S!Files, S!Holding
<1>1. ASSUME NEW n \in todo, S!DiscardNext(n) PROVE Told'
    <2>1. op = "discard" /\ op' = "discard" /\ todo' = todo \ {n} /\ crashes' = crashes
        BY <1>1 DEF S!DiscardNext
    <2>2. CASE n \in S!Files
        <3>1. /\ S!Files' = S!Files \ {n} /\ \A m \in S!Files' : S!Holding(m)' = S!Holding(m)
              /\ fate' = [fate EXCEPT ![S!Holding(n)] = "discarded"]
            BY <1>1, <2>2 DEF S!DiscardNext, S!Without, S!Lose, S!Files, S!Holding
        <3>2. \A v \in Windows : fate'[v] = IF v = S!Holding(n) THEN "discarded" ELSE fate[v]
            BY <1>t, <3>1
        <3> QED
            BY <1>t, <2>1, <3>1, <3>2 DEF ToldInv, Told
    <2>3. CASE n \notin S!Files
        <3>1. S!Files' = S!Files /\ fate' = fate /\ \A m : S!Holding(m)' = S!Holding(m)
            BY <1>1, <2>3 DEF S!DiscardNext, S!Files, S!Holding
        <3> QED
            BY <2>1, <2>3, <3>1 DEF ToldInv, Told
    <2> QED
        BY <2>2, <2>3
<1>2. CASE S!EndDiscard
    BY <1>2 DEF S!EndDiscard, ToldInv, Told
<1>3. ASSUME NEW n \in todo, S!FailDiscard(n) PROVE Told'
    BY <1>3 DEF S!FailDiscard
<1>4. ASSUME NEW f \in pending, S!FailAdd(f) \/ S!Rename(f) PROVE Told'
    <2>1. /\ op # "discard" /\ crashes' = crashes
          /\ \E what \in {"failed", "stored"} : fate' = [fate EXCEPT ![f.win] = what]
        BY <1>4 DEF S!FailAdd, S!Rename
    <2> QED
        BY <1>t, <2>1, ToldFrame
<1>5. ASSUME NEW n \in S!Files, S!EvictOldest(n) PROVE Told'
    <2>1. /\ op # "discard" /\ crashes' = crashes
          /\ fate' = [fate EXCEPT ![S!Holding(n)] = "evicted"]
        BY <1>5 DEF S!EvictOldest, S!Lose
    <2> QED
        BY <1>t, <2>1, ToldFrame
<1>6. ASSUME NEW n \in todo, S!TakeGood(n) \/ S!DropCorrupt(n) \/ S!FailPeek(n) PROVE Told'
    <2>1. /\ op # "discard" /\ crashes' = crashes
          /\ fate' = fate \/ fate' = [fate EXCEPT ![S!Holding(n)] = "purged"]
        BY <1>6 DEF S!TakeGood, S!DropCorrupt, S!FailPeek, S!Reading, S!Lose
    <2> QED
        BY <1>t, <2>1, ToldFrame
<1>7. CASE \/ S!CreateTemp \/ S!WriteTemp \/ S!Measure
           \/ S!EndAdd \/ S!FailEvict \/ S!EndPeek
    BY <1>7, ToldFrame DEF S!CreateTemp, S!WriteTemp, S!Measure, S!EndAdd,
                           S!FailEvict, S!EndPeek
<1> QED
    BY <1>1, <1>2, <1>3, <1>4, <1>5, <1>6, <1>7
       DEF S!Step, S!AddStep, S!PeekStep, S!DiscardStep

LEMMA ToldStep ==
    ASSUME "remove" \notin Faults, ToldInv, [Next]_vars
    PROVE  Told'
<1>t. InStep /\ Present /\ Proved!TypeOK /\ LoopTypes
    BY DEF ToldInv, TypeInv
<1>1. CASE Crash
    BY <1>1, <1>t DEF Crash, S!Crash, Told, Proved!TypeOK
<1>2. CASE Start \/ Exit \/ UploadTick \/ FlushDone
    <2>1. op # "discard" /\ UNCHANGED <<fate, acked, crashes>>
        BY <1>2 DEF Start, S!Open, Exit, S!Close, UploadTick, FlushDone, S!BeginPeek,
                    S!RefusePeek, historyVars
    <2> QED
        BY <2>1, ToldFrame
<1>3. CASE SpreadElapses \/ Terminate \/ PersistDone \/ PeekDone \/ BackoffElapses \/ ReconfigDone
    BY <1>3 DEF SpreadElapses, Terminate, PersistDone, PeekDone, BackoffElapses, ReconfigDone,
                ToldInv, Told, spoolVars, historyVars, S!Files, S!Holding
<1>4. ASSUME NEW s \in Samples, SampleTick(s) PROVE Told'
    <2>1. Agg!Completed(s) \in SUBSET current /\ op = "idle"
        BY <1>t, <1>4 DEF Agg!Completed, Agg!OtherWindow, SampleTick, InStep, Waiting
    <2> QED
        BY <1>4, <2>1, ToldByPersist DEF SampleTick
<1>5. ASSUME NEW a \in Attempts, NEW c \in Configs, SendReturns(a, c) PROVE Told'
    <2>1. phase = "send" /\ op = "idle" /\ batch \subseteq S!Files
        BY <1>t, <1>5 DEF SendReturns, InStep, Present
    <2>2. fate' = fate /\ dir' = dir /\ crashes' = crashes
        BY <1>5 DEF SendReturns, S!BeginDiscard, spoolVars
    <2>3. \A n \in batch : fate[S!Holding(n)] = "stored"
        BY <2>1 DEF ToldInv, Proved!Once, Proved!Files, Proved!Holding, S!Files, S!Holding
    <2>4. CASE Send(a) = "ok"
        <3>1. acked' = acked \cup BatchWindows /\ op' = "discard" /\ todo' = batch
            BY <1>5, <2>4 DEF SendReturns, Drops, S!BeginDiscard
        <3>2. S!Files' = S!Files /\ \A n : S!Holding(n)' = S!Holding(n)
            BY <2>2 DEF S!Files, S!Holding
        <3> QED
            BY <2>1, <2>2, <2>3, <3>1, <3>2 DEF ToldInv, Told, BatchWindows
    <2>5. CASE Send(a) # "ok"
        <3>1. acked' = acked
            BY <1>5, <2>5 DEF SendReturns
        <3> QED
            BY <2>1, <2>2, <3>1, ToldFrame
    <2> QED
        BY <2>4, <2>5
<1>6. CASE DiscardDone
    <2>1. op = "idle" /\ acked' = acked
        BY <1>6 DEF DiscardDone, historyVars
    <2>2. CASE UNCHANGED spoolVars
        BY <2>1, <2>2, ToldFrame DEF spoolVars
    <2>3. CASE Persist(current)
        BY <2>1, <2>3, ToldByPersist
    <2> QED
        BY <1>6, <2>2, <2>3 DEF DiscardDone
<1>7. CASE Shutdown
    BY <1>t, <1>7, ToldByPersist DEF Shutdown, InStep, historyVars
<1>8. CASE SpoolStep
    BY <1>8, ToldBySpool DEF SpoolStep, historyVars
<1>9. CASE Decay
    <2>1. PICK n \in S!Files : S!Spoil(n)
        BY <1>9 DEF Decay
    <2>2. /\ S!Files' = S!Files /\ \A m \in S!Files : S!Holding(m)' = S!Holding(m)
          /\ UNCHANGED <<op, todo, fate, crashes, acked>>
        BY <1>9, <2>1 DEF Decay, S!Spoil, S!Files, S!Holding, historyVars
    <2> QED
        BY <2>2 DEF ToldInv, Told
<1>10. CASE UNCHANGED vars
    BY <1>10 DEF vars, spoolVars, historyVars, ToldInv, Told, S!Files, S!Holding
<1> QED
    BY <1>1, <1>2, <1>3, <1>4, <1>5, <1>6, <1>7, <1>8, <1>9, <1>10 DEF Next, Upload

\* As long as removing a file does not fail, a life of the agent that is not cut
\* off never sends a window again that was acknowledged, whatever the platform
\* answers and whatever is added, evicted or reconfigured in between.
THEOREM NeverResent ==
    ASSUME "remove" \notin Faults PROVE Spec => []NoResend
<1>1. Init => ToldInv
    <2>1. Init => Proved!Init /\ Told
        BY SameSpool DEF Init, Told
    <2>2. Proved!Init => Proved!Once
        BY SpoolConstants, SpoolProofsApply, Proved!OnceInit DEF Proved!FaultKinds
    <2> QED
        BY <2>1, <2>2, TypeInvInit DEF ToldInv
<1>2. ToldInv /\ [Next]_vars => ToldInv'
    <2> SUFFICES ASSUME ToldInv, [Next]_vars PROVE ToldInv'
        OBVIOUS
    <2>1. [Proved!Next]_Proved!vars
        BY SpoolSteps, SameSpool DEF ToldInv, TypeInv
    <2>2. Proved!Once'
        BY <2>1, SpoolConstants, SpoolProofsApply, Proved!OnceStep
           DEF ToldInv, TypeInv, Proved!FaultKinds
    <2> QED
        BY <2>2, TypeInvStep, ToldStep DEF ToldInv
<1>3. ToldInv => NoResend
    <2> SUFFICES ASSUME ToldInv, crashes = 0, phase = "send", NEW n \in batch
                 PROVE  S!Holding(n) \notin acked
        BY DEF NoResend, BatchWindows
    <2>1. op = "idle" /\ n \in S!Files
        BY DEF ToldInv, TypeInv, InStep, Present
    <2>2. fate[S!Holding(n)] = "stored"
        BY <2>1 DEF ToldInv, Proved!Once, Proved!Files, Proved!Holding, S!Files, S!Holding
    <2> QED
        BY <2>1, <2>2 DEF ToldInv, Told
<1> QED
    BY <1>1, <1>2, <1>3, PTL DEF Spec

-----------------------------------------------------------------------------
(***************************************************************************)
(* The schedule that the replies set.                                      *)
(***************************************************************************)

\* The settings change when the process starts and when a reply is adopted.
LEMMA SettingsMove ==
    ASSUME [Next]_vars
    PROVE  settings' = settings \/ settings' = Flags \/ settings' = NewSettings
BY DEF Next, Upload, vars, loopVars, Start, SpreadElapses, Terminate, Exit, Crash,
       SampleTick, PersistDone, UploadTick, PeekDone, SendReturns, DiscardDone,
       ReconfigDone, BackoffElapses, Shutdown, FlushDone, SpoolStep, Decay

\* Whatever the replies and however their products wrap, the agent runs on its
\* own flags or on values within the bounds of wire.go (Config.Apply).
THEOREM SettingsBounded == Spec => []SettingsInBounds
<1>1. Init => SettingsInBounds
    BY DEF Init, SettingsInBounds
<1>2. SettingsInBounds /\ [Next]_vars => SettingsInBounds'
    <2> SUFFICES ASSUME SettingsInBounds, [Next]_vars
                 PROVE  SettingsInBounds'
        OBVIOUS
    <2>1. CASE settings' = settings
        BY <2>1 DEF SettingsInBounds, InBounds
    <2>2. CASE settings' = Flags
        BY <2>2, AgentAssumption DEF SettingsInBounds
    <2>3. CASE settings' = NewSettings
        BY <2>3 DEF NewSettings, Apply, SettingsInBounds, InBounds
    <2> QED
        BY <2>1, <2>2, <2>3, SettingsMove
<1> QED
    BY <1>1, <1>2, PTL DEF Spec

\* No number of seconds that a reply can carry overflows a time.Duration.
Fits ==
    \A c \in Configs, f \in Fields :
        /\ Asked(c, f) >= -(Modulus \div 2)
        /\ Asked(c, f) < Modulus - (Modulus \div 2)

LEMMA NoWrap ==
    ASSUME Fits, NEW c \in Configs, NEW f \in Fields
    PROVE  Duration(c[f]) = Asked(c, f)
<1> DEFINE h == Modulus \div 2
           x == Asked(c, f)
<1>1. h \in Int /\ x \in Int
    BY WireAssumption, AgentAssumption DEF Asked
<1>2. x + h >= 0 /\ x + h < Modulus
    BY <1>1, WireAssumption DEF Fits
<1>3. Duration(c[f]) = ((x + h) % Modulus) - h
    BY DEF Duration, Wrapped, Asked
<1> HIDE DEF h, x
<1>4. \A y \in Int : y >= 0 /\ y < Modulus => y % Modulus = y
    BY WireAssumption
<1>5. (x + h) % Modulus = x + h
    BY <1>1, <1>2, <1>4
<1>6. Duration(c[f]) = x
    BY <1>1, <1>3, <1>5
<1> QED
    BY <1>6 DEF x

\* Only while its batch is being discarded, and while a window is spooled on
\* account of its width, is there a reply that waits to be adopted.
Answered ==
    /\ answer = NoAnswer
       \/ /\ answer.kind = "ok" /\ answer.config \in Configs
          /\ phase \in {"discard", "reconfig"}
    /\ phase = "reconfig" => NewSettings["window"] # settings["window"]

LEMMA AnsweredStep == Answered /\ [Next]_vars => Answered'
<1> USE DEF Answered
<1>1. ASSUME Answered, UNCHANGED vars PROVE Answered'
    BY <1>1 DEF vars, loopVars, NewSettings, Apply
<1>2. ASSUME Answered, Start \/ Crash PROVE Answered'
    BY <1>2 DEF Start, Crash
<1>3. ASSUME Answered, SpreadElapses \/ Exit \/ UploadTick \/ PersistDone \/ PeekDone
                       \/ Shutdown \/ FlushDone
      PROVE  Answered'
    BY <1>3 DEF SpreadElapses, Exit, UploadTick, PersistDone, PeekDone, Shutdown,
                FlushDone, AfterUpload, Waiting
<1>4. ASSUME Answered, Terminate \/ BackoffElapses \/ SpoolStep \/ Decay
      PROVE  Answered'
    BY <1>4 DEF Terminate, BackoffElapses, SpoolStep, Decay, loopVars, NewSettings, Apply
<1>5. ASSUME Answered, NEW s \in Samples, SampleTick(s) PROVE Answered'
    BY <1>5 DEF SampleTick
<1>6. ASSUME Answered, NEW a \in Attempts, NEW c \in Configs, SendReturns(a, c)
      PROVE  Answered'
    <2>1. CASE Send(a) = "ok"
        <3>1. answer' = [kind |-> "ok", config |-> c] /\ phase' = "discard"
            BY <1>6, <2>1 DEF SendReturns, Drops
        <3> QED
            BY <3>1
    <2>2. CASE Send(a) # "ok"
        <3>1. answer' = NoAnswer /\ phase' \in {"discard", AfterUpload}
            BY <1>6, <2>2 DEF SendReturns
        <3> QED
            BY <3>1 DEF AfterUpload
    <2> QED
        BY <2>1, <2>2
<1>7. ASSUME Answered, DiscardDone PROVE Answered'
    <2>1. CASE NewSettings["window"] # settings["window"] /\ current # {}
        BY <1>7, <2>1 DEF DiscardDone, NewSettings, Apply
    <2>2. CASE ~(NewSettings["window"] # settings["window"] /\ current # {})
        BY <1>7, <2>2 DEF DiscardDone, AfterUpload
    <2> QED
        BY <2>1, <2>2
<1>8. ASSUME Answered, ReconfigDone PROVE Answered'
    BY <1>8 DEF ReconfigDone, AfterUpload
<1> QED
    BY <1>1, <1>2, <1>3, <1>4, <1>5, <1>6, <1>7, <1>8 DEF Next, Upload

LEMMA AlwaysAnswered == Spec => []Answered
<1>1. Init => Answered
    BY DEF Init, Answered
<1> QED
    BY <1>1, AnsweredStep, PTL DEF Spec

\* While a reply waits to be adopted, nothing but its adoption touches the
\* schedule and the window in progress, and its adoption is the end of it.
LEMMA WhileAnswered ==
    ASSUME Answered, answer.kind = "ok", phase' # "down", [Next]_vars
    PROVE  \/ UNCHANGED <<answer, settings, width, prev, current>>
           \/ DiscardDone \/ ReconfigDone
<1>1. NoAnswer.kind # "ok"
    BY DEF NoAnswer
<1>2. phase \in {"discard", "reconfig"}
    BY <1>1 DEF Answered
<1>3. CASE UNCHANGED vars
    BY <1>3 DEF vars, loopVars, aggVars
<1>4. CASE Start \/ SpreadElapses \/ Exit \/ UploadTick \/ PersistDone \/ PeekDone
           \/ Shutdown \/ FlushDone
    BY <1>2, <1>4 DEF Start, SpreadElapses, Exit, UploadTick, PersistDone, PeekDone,
                      Shutdown, FlushDone, Waiting
<1>5. CASE Crash
    BY <1>5 DEF Crash
<1>6. CASE Terminate \/ BackoffElapses \/ SpoolStep \/ Decay
    BY <1>6 DEF Terminate, BackoffElapses, SpoolStep, Decay, loopVars, aggVars
<1>7. CASE \E s \in Samples : SampleTick(s)
    BY <1>2, <1>7 DEF SampleTick
<1>8. CASE \E a \in Attempts, c \in Configs : SendReturns(a, c)
    BY <1>2, <1>8 DEF SendReturns
<1> QED
    BY <1>3, <1>4, <1>5, <1>6, <1>7, <1>8 DEF Next, Upload

\* While no product overflows, one value out of range rejects the whole reply
\* (the promise of Config.Apply's comment), and the window in progress goes on.
THEOREM RejectsWhole == ASSUME Fits PROVE Spec => AllOrNothing
<1>1. Answered /\ [Next]_vars =>
        [answer.kind = "ok" /\ phase' # "down" /\ ~InRange(answer.config)
            => UNCHANGED <<settings, width, prev, current>>]_vars
    <2> SUFFICES ASSUME Answered, [Next]_vars, answer.kind = "ok", phase' # "down",
                        ~InRange(answer.config)
                 PROVE  UNCHANGED <<settings, width, prev, current>>
        OBVIOUS
    <2>1. answer.config \in Configs
        BY DEF Answered, NoAnswer
    <2>2. NewSettings = settings
        BY <2>1, NoWrap DEF NewSettings, Apply, InRange, Sent
    <2>3. ~ReconfigDone
        BY <2>2 DEF Answered, ReconfigDone
    <2>4. CASE DiscardDone
        BY <2>2, <2>4 DEF DiscardDone, aggVars
    <2> QED
        BY <2>3, <2>4, WhileAnswered
<1> QED
    BY <1>1, AlwaysAnswered, PTL DEF Spec, AllOrNothing

\* While no product overflows, a reply whose values are all in range is adopted
\* to the letter.
THEOREM AdoptsToTheLetter == ASSUME Fits PROVE Spec => Adopted
<1>1. Answered /\ [Next]_vars =>
        [answer.kind = "ok" /\ answer' = NoAnswer /\ phase' # "down"
         /\ InRange(answer.config)
            => \A f \in Fields :
                  settings'[f] = IF f \in Sent(answer.config)
                                 THEN Asked(answer.config, f) ELSE settings[f]]_vars
    <2> SUFFICES ASSUME Answered, [Next]_vars, answer.kind = "ok", answer' = NoAnswer,
                        phase' # "down", InRange(answer.config), NEW f \in Fields
                 PROVE  settings'[f] = IF f \in Sent(answer.config)
                                       THEN Asked(answer.config, f) ELSE settings[f]
        OBVIOUS
    <2>1. answer # NoAnswer /\ answer.config \in Configs
        BY DEF Answered, NoAnswer
    <2>2. DiscardDone \/ ReconfigDone
        BY <2>1, WhileAnswered
    <2>3. settings' = NewSettings
        BY <2>1, <2>2 DEF DiscardDone, ReconfigDone
    <2>4. \A g \in Sent(answer.config) : Duration(answer.config[g]) = Asked(answer.config, g)
        BY <2>1, NoWrap DEF Sent
    <2>5. NewSettings = [g \in Fields |-> IF g \in Sent(answer.config)
                                          THEN Duration(answer.config[g]) ELSE settings[g]]
        BY <2>4 DEF NewSettings, Apply, InRange
    <2> QED
        BY <2>3, <2>4, <2>5
<1> QED
    BY <1>1, AlwaysAnswered, PTL DEF Spec, Adopted
=============================================================================
