--------------------------- MODULE ScheduleProofs ---------------------------
(***************************************************************************)
(* The bounds in time, proved for all periods, delays and limits: on the   *)
(* end of the process after a signal, on the gap between two readings, and *)
(* on the wait of a backlog.                                               *)
(***************************************************************************)
EXTENDS Schedule, SumProofs

Phases == {"down", "spread", "loop", "send", "final"}

\* Only the last exchange takes time after the signal, and it began with it:
\* Shutdown, not Advance, follows the signal everywhere else.
InTime ==
    /\ phase \in Phases /\ term \in BOOLEAN
    /\ sending \in 0..Timeout /\ stopping \in 0..Timeout
    /\ phase \notin {"send", "final"} => sending = 0
    /\ phase \in {"spread", "loop", "send"} => stopping = 0
    /\ phase = "final" => term /\ stopping = sending

LEMMA InitInTime == Init => InTime
<1> SUFFICES ASSUME Init PROVE InTime
    OBVIOUS
<1>1. phase = "down" /\ ~term /\ term \in BOOLEAN
    BY DEF Init
<1>2. sending = 0 /\ stopping = 0
    BY DEF Init
<1>3. 0 \in 0..Timeout
    BY ScheduleAssumption
<1>4. sending \in 0..Timeout /\ stopping \in 0..Timeout
    BY <1>2, <1>3
<1> QED
    BY <1>1, <1>2, <1>4 DEF InTime, Phases

LEMMA InTimeStep ==
    ASSUME InTime, [Next]_vars
    PROVE  InTime'
<1> Timeout \in Nat
    BY ScheduleAssumption
<1> USE DEF InTime, Phases
<1>1. CASE Start \/ EnterLoop
    BY <1>1 DEF Start, EnterLoop
<1>2. CASE Sample \/ UploadTick
    BY <1>2 DEF Sample, UploadTick
<1>3. CASE Shutdown
    BY <1>3 DEF Shutdown
<1>4. ASSUME NEW s \in Schedules \cup {settings}, Reply(s) PROVE InTime'
    BY <1>4 DEF Reply, AfterExchange
<1>5. CASE Fail
    BY <1>5 DEF Fail, AfterExchange
<1>6. CASE Advance
    <2>1. ~Urgent /\ UNCHANGED <<phase, term>>
        BY <1>6 DEF Advance
    <2>2. stopping' = IF term THEN stopping + 1 ELSE 0
        BY <1>6 DEF Advance
    <2>3. sending' = IF phase \in {"send", "final"} THEN sending + 1 ELSE 0
        BY <1>6 DEF Advance
    <2>4. CASE phase = "final"
        BY <2>1, <2>2, <2>3, <2>4 DEF Urgent
    <2>5. CASE phase # "final"
        <3>1. ~term /\ phase # "down" /\ (phase = "send" => sending # Timeout)
            BY <2>1, <2>5 DEF Urgent
        <3> QED
            BY <2>1, <2>2, <2>3, <2>5, <3>1
    <2> QED
        BY <2>4, <2>5
<1>7. CASE Terminate
    BY <1>7 DEF Terminate
<1>8. CASE UNCHANGED vars
    BY <1>8 DEF vars
<1> QED
    BY <1>1, <1>2, <1>3, <1>4, <1>5, <1>6, <1>7, <1>8 DEF Next, Work

\* Whatever the agent is doing when the signal comes, it ends within the time
\* one exchange may take.
THEOREM SignalEndsInTime == Spec => []StopsInTime
<1>1. InTime => StopsInTime
    BY ScheduleAssumption DEF InTime, StopsInTime
<1> QED
    BY <1>1, InitInTime, InTimeStep, PTL DEF Spec

-----------------------------------------------------------------------------
(***************************************************************************)
(* The tickers.                                                            *)
(***************************************************************************)

AllSchedules == {Flags} \cup Schedules

Periods ==
    /\ phase \in Phases
    /\ settings \in AllSchedules
    /\ settings.interval \in Nat \ {0} /\ settings.flush \in Nat \ {0}
    /\ spread \in Nat /\ sampler \in Nat \ {0} /\ uploader \in Nat \ {0}
    /\ phase \in {"spread", "loop", "send"} =>
          sampler <= settings.interval /\ uploader <= settings.flush
    /\ phase = "spread" => ~uploadDue /\ spread < uploader

LEMMA SchedulesTyped ==
    ASSUME NEW s \in AllSchedules PROVE s.interval \in Nat \ {0} /\ s.flush \in Nat \ {0}
BY ScheduleAssumption DEF AllSchedules

LEMMA PeriodsInit == Init => Periods
<1> SUFFICES ASSUME Init PROVE Periods
    OBVIOUS
<1>1. settings \in AllSchedules
    BY DEF Init, AllSchedules
<1> QED
    BY <1>1, SchedulesTyped DEF Init, Periods, Phases

LEMMA PeriodsStep ==
    ASSUME Periods, [Next]_vars
    PROVE  Periods'
<1> USE DEF Periods, Phases
<1>1. CASE Start
    <2>1. Flags \in AllSchedules
        BY DEF AllSchedules
    <2> QED
        BY <1>1, <2>1, SchedulesTyped DEF Start, ResetTickers
<1>2. CASE EnterLoop \/ Sample \/ UploadTick \/ Terminate
    BY <1>2 DEF EnterLoop, Sample, UploadTick, Terminate, tickers
<1>3. CASE Shutdown
    BY <1>3 DEF Shutdown, tickers
<1>4. ASSUME NEW s \in Schedules \cup {settings}, Reply(s) PROVE Periods'
    <2>1. s \in AllSchedules
        BY DEF AllSchedules
    <2> QED
        BY <1>4, <2>1, SchedulesTyped
           DEF Reply, Adopt, AfterExchange, ResetTickers, tickers
<1>5. CASE Fail
    BY <1>5 DEF Fail, AfterExchange, tickers
<1>6. CASE Advance
    <2>1. /\ phase = "spread" => spread # 0
          /\ UNCHANGED <<phase, settings>>
          /\ spread' = IF spread = 0 THEN 0 ELSE spread - 1
          /\ sampler' = IF sampler = 1 THEN settings.interval ELSE sampler - 1
          /\ uploader' = IF uploader = 1 THEN settings.flush ELSE uploader - 1
          /\ uploadDue' = (uploadDue \/ uploader = 1)
        BY <1>6 DEF Advance, Urgent, Less
    <2>2. spread' \in Nat /\ sampler' \in Nat \ {0} /\ uploader' \in Nat \ {0}
        BY <2>1
    <2>3. phase \in {"spread", "loop", "send"} =>
             sampler' <= settings.interval /\ uploader' <= settings.flush
        BY <2>1
    <2>4. phase = "spread" => ~uploadDue' /\ spread' < uploader'
        <3>1. phase = "spread" => ~uploadDue /\ uploader # 1 /\ spread' < uploader'
            BY <2>1
        <3> QED
            BY <2>1, <3>1
    <2> QED
        BY <2>1, <2>2, <2>3, <2>4
<1>7. CASE UNCHANGED vars
    BY <1>7 DEF vars, tickers
<1> QED
    BY <1>1, <1>2, <1>3, <1>4, <1>5, <1>6, <1>7 DEF Next, Work

-----------------------------------------------------------------------------
(***************************************************************************)
(* The gap between readings.  When uploads are further apart than an       *)
(* exchange may take, no tick of the uploader arrives during one, so a     *)
(* reading that is due waits for one exchange at most.  When the uploads   *)
(* are also further apart than the readings, the sampler is the first to   *)
(* fire after both were restarted.                                         *)
(***************************************************************************)

\* The defaults of the program are so; what a reply may ask for need not be.
WideApart == \A s \in AllSchedules : s.flush > Timeout /\ s.flush > s.interval

\* No reset since the last reading, and none due.
Pending == ~sampleDue /\ gap + sampler <= paced
\* Both tickers were restarted after an exchange.
Restarted ==
    /\ ~sampleDue /\ ~uploadDue /\ sampler < uploader
    /\ gap + sampler <= paced + Timeout + settings.interval

Paced ==
    /\ gap \in Nat /\ paced \in Nat /\ sending \in 0..Timeout
    /\ sampleDue \in BOOLEAN /\ uploadDue \in BOOLEAN
    /\ phase = "loop" =>
          /\ sending = 0 /\ (uploadDue => uploader = settings.flush)
          /\ \/ Pending
             \/ sampleDue /\ gap <= paced
             \/ sampleDue /\ ~uploadDue /\ gap <= paced + Timeout + settings.interval
             \/ Restarted
    /\ phase = "send" =>
          /\ ~uploadDue /\ uploader + sending = settings.flush
          /\ Pending \/ (sampleDue /\ gap <= paced + sending)
    /\ phase \in {"down", "spread"} => sending = 0

LEMMA PacedInit == Init => Paced
<1> SUFFICES ASSUME Init PROVE Paced
    OBVIOUS
<1>1. 0 \in 0..Timeout
    BY ScheduleAssumption
<1> QED
    BY <1>1 DEF Init, Paced

\* A tick of time.
LEMMA PacedAdvance ==
    ASSUME WideApart, Periods, Paced, Advance
    PROVE  Paced'
<1>t. Timeout \in Nat \ {0} /\ settings.flush > Timeout /\ settings.flush > settings.interval
    BY ScheduleAssumption DEF WideApart, Periods
<1>p. /\ phase \in Phases /\ settings.interval \in Nat /\ settings.flush \in Nat
      /\ sampler \in Nat \ {0} /\ uploader \in Nat \ {0}
    BY DEF Periods
<1>1. /\ ~Urgent /\ UNCHANGED <<phase, settings, paced>>
      /\ sampler' = IF sampler = 1 THEN settings.interval ELSE sampler - 1
      /\ sampleDue' = (sampleDue \/ sampler = 1)
      /\ uploader' = IF uploader = 1 THEN settings.flush ELSE uploader - 1
      /\ uploadDue' = (uploadDue \/ uploader = 1)
      /\ sending' = IF phase \in {"send", "final"} THEN sending + 1 ELSE 0
      /\ gap' = IF phase \in {"loop", "send"} THEN gap + 1 ELSE gap
    BY DEF Advance
<1>2. gap' \in Nat /\ paced' \in Nat /\ sampleDue' \in BOOLEAN /\ uploadDue' \in BOOLEAN
    BY <1>1 DEF Paced
<1>3. CASE phase = "loop"
    <2>1. ~sampleDue /\ ~uploadDue /\ sending' = 0
        BY <1>1, <1>3 DEF Urgent
    <2>2. uploadDue' => uploader' = settings.flush
        BY <1>1, <2>1
    <2>3. CASE Pending
        <3>1. gap + sampler <= paced /\ gap \in Nat /\ paced \in Nat
            BY <2>3 DEF Pending, Paced
        <3>2. CASE sampler = 1
            <4>1. sampleDue' /\ gap' <= paced'
                BY <1>1, <1>3, <3>1, <3>2
            <4> QED
                BY <1>1, <1>2, <1>3, <1>t, <2>1, <2>2, <4>1 DEF Paced
        <3>3. CASE sampler # 1
            <4>1. ~sampleDue' /\ sampler' = sampler - 1 /\ gap' = gap + 1 /\ paced' = paced
                BY <1>1, <1>3, <2>1, <3>3
            <4>2. Pending'
                BY <1>p, <3>1, <4>1 DEF Pending
            <4>3. /\ phase' = "loop" /\ settings' = settings
                  /\ uploadDue' \in BOOLEAN /\ 0 \in 0..Timeout
                BY <1>1, <1>2, <1>3, <1>t
            <4> QED
                BY <1>2, <2>1, <2>2, <4>2, <4>3 DEF Paced
        <3> QED
            BY <3>2, <3>3
    <2>4. CASE Restarted
        <3>1. /\ sampler < uploader /\ gap + sampler <= paced + Timeout + settings.interval
              /\ gap \in Nat /\ paced \in Nat
            BY <2>4 DEF Restarted, Paced
        <3>a. uploader # 1
            BY <1>p, <3>1
        <3>2. ~uploadDue' /\ uploader' = uploader - 1
            BY <1>1, <2>1, <3>a
        <3>3. CASE sampler = 1
            <4>1. sampleDue' /\ settings' = settings /\ paced' = paced /\ gap' = gap + 1
                BY <1>1, <1>3, <3>3
            <4>2. gap + 1 <= paced + Timeout + settings.interval
                BY <3>1, <3>3
            <4>3. gap' <= paced' + Timeout + settings'.interval
                BY <4>1, <4>2
            <4> QED
                BY <1>1, <1>2, <1>3, <1>t, <2>1, <2>2, <3>2, <4>1, <4>3 DEF Paced
        <3>4. CASE sampler # 1
            <4>2. /\ ~sampleDue' /\ sampler' < uploader'
                  /\ gap' + sampler' <= paced' + Timeout + settings'.interval
                BY <1>1, <1>3, <1>p, <1>t, <2>1, <3>1, <3>2, <3>4
            <4> QED
                BY <1>1, <1>2, <1>3, <1>t, <2>1, <2>2, <3>2, <4>2 DEF Paced, Restarted
        <3> QED
            BY <3>3, <3>4
    <2>5. Pending \/ Restarted
        BY <1>3, <2>1 DEF Paced
    <2> QED
        BY <1>1, <1>2, <1>3, <1>t, <2>1, <2>2, <2>3, <2>4, <2>5 DEF Paced
<1>4. CASE phase = "send"
    <2>1. /\ ~uploadDue /\ uploader + sending = settings.flush /\ sending \in 0..Timeout
          /\ sending # Timeout
          /\ Pending \/ (sampleDue /\ gap <= paced + sending)
        BY <1>1, <1>4 DEF Urgent, Paced
    <2>a. uploader # 1
        BY <1>t, <1>p, <2>1
    <2>b. sending' = sending + 1 /\ gap' = gap + 1 /\ ~uploadDue' /\ uploader' = uploader - 1
        BY <1>1, <1>4, <2>1, <2>a
    <2>2. sending' \in 0..Timeout /\ uploader' + sending' = settings.flush
        BY <1>t, <1>p, <2>1, <2>b
    <2>3. Pending' \/ (sampleDue' /\ gap' <= paced' + sending')
        <3>1. gap \in Nat /\ paced \in Nat /\ paced' = paced
            BY <1>1 DEF Paced
        <3>2. CASE sampleDue
            <4>1. sampleDue' /\ gap <= paced + sending
                BY <1>1, <2>1, <3>2 DEF Pending
            <4> QED
                BY <2>1, <2>b, <3>1, <4>1
        <3>3. CASE ~sampleDue /\ sampler = 1
            <4>1. sampleDue' /\ gap + 1 <= paced
                BY <1>1, <2>1, <3>3 DEF Pending
            <4> QED
                BY <2>1, <2>b, <3>1, <4>1
        <3>4. CASE ~sampleDue /\ sampler # 1
            <4>1. ~sampleDue' /\ sampler' = sampler - 1 /\ gap + sampler <= paced
                BY <1>1, <2>1, <3>4 DEF Pending
            <4> QED
                BY <1>p, <2>b, <3>1, <4>1 DEF Pending
        <3> QED
            BY <3>2, <3>3, <3>4
    <2> QED
        BY <1>1, <1>2, <1>4, <2>b, <2>2, <2>3 DEF Paced
<1>5. CASE phase \in {"down", "spread", "final"}
    <2>1. sending' \in 0..Timeout /\ (phase \in {"down", "spread"} => sending' = 0)
        BY <1>1, <1>5, <1>t DEF Urgent, Paced
    <2> QED
        BY <1>1, <1>2, <1>5, <2>1 DEF Paced
<1> QED
    BY <1>3, <1>4, <1>5, <1>p DEF Phases

LEMMA PacedStep ==
    ASSUME WideApart, Periods, Paced, [Next]_vars
    PROVE  Paced'
<1>t. Timeout \in Nat \ {0} /\ settings.flush > Timeout /\ settings.flush > settings.interval
    BY ScheduleAssumption DEF WideApart, Periods
<1>p. /\ phase \in Phases /\ settings.interval \in Nat /\ settings.flush \in Nat
      /\ sampler \in Nat \ {0} /\ uploader \in Nat \ {0}
    BY DEF Periods
<1>1. CASE Start
    BY <1>1 DEF Start, ResetTickers, Paced
<1>2. CASE EnterLoop
    <2>1. /\ phase = "spread" /\ phase' = "loop" /\ gap' = 0 /\ paced' = settings.interval
          /\ UNCHANGED <<sampler, sampleDue, uploader, uploadDue, settings, sending>>
        BY <1>2 DEF EnterLoop, tickers
    <2>2. ~uploadDue /\ sampler <= settings.interval
        BY <2>1 DEF Periods
    <2> QED
        BY <1>p, <2>1, <2>2 DEF Paced, Pending
<1>3. CASE Sample
    <2>1. /\ phase = "loop" /\ phase' = "loop" /\ gap' = 0 /\ paced' = settings.interval
          /\ ~sampleDue'
          /\ UNCHANGED <<sampler, uploader, uploadDue, settings, sending>>
        BY <1>3 DEF Sample
    <2>2. sampler <= settings.interval
        BY <2>1 DEF Periods
    <2> QED
        <3>1. Pending'
            BY <1>p, <2>1, <2>2 DEF Pending
        <3>2. gap' \in Nat /\ paced' \in Nat /\ sampleDue' = FALSE
            BY <1>3, <1>p, <2>1 DEF Sample
        <3>3. uploadDue' = uploadDue /\ uploader' = uploader /\ sending' = sending
            BY <2>1
        <3>4. sending' \in 0..Timeout /\ sending' = 0 /\ uploadDue' \in BOOLEAN
            BY <2>1, <3>3 DEF Paced
        <3>5. uploadDue' => uploader' = settings'.flush
            BY <2>1, <3>3 DEF Paced
        <3> QED
            BY <2>1, <3>1, <3>2, <3>4, <3>5 DEF Paced
<1>4. CASE UploadTick
    <2>1. /\ phase = "loop" /\ phase' \in {"loop", "send"} /\ uploadDue /\ uploadDue' = FALSE
          /\ UNCHANGED <<sampler, sampleDue, uploader, settings, sending, gap, paced>>
        BY <1>4 DEF UploadTick
    <2>2. sending = 0 /\ uploader = settings.flush /\ gap \in Nat /\ paced \in Nat
        BY <2>1 DEF Paced
    <2>3. Pending \/ (sampleDue /\ gap <= paced)
        BY <2>1 DEF Paced, Restarted
    <2>4. Pending' \/ (sampleDue' /\ gap' <= paced')
        BY <2>1, <2>3 DEF Pending
    <2>5. gap' <= paced' => gap' <= paced' + sending'
        BY <2>1, <2>2
    <2>6. uploader' + sending' = settings'.flush
        BY <1>p, <2>1, <2>2
    <2>7. sending' \in 0..Timeout /\ sending' = 0 /\ gap' \in Nat /\ paced' \in Nat
          /\ sampleDue' \in BOOLEAN
        BY <2>1, <2>2 DEF Paced
    <2> QED
        BY <2>1, <2>4, <2>5, <2>6, <2>7 DEF Paced
<1>5. CASE Terminate
    BY <1>5 DEF Terminate, Paced, Pending, Restarted, tickers
<1>6. CASE Shutdown
    BY <1>6 DEF Shutdown, Paced, tickers
<1>7. ASSUME phase \in {"send", "final"}, phase' = AfterExchange, sending' = 0,
             UNCHANGED <<gap, paced>>,
             \/ UNCHANGED <<tickers, settings>>
             \/ phase = "final" /\ UNCHANGED tickers
             \/ /\ ~sampleDue' /\ ~uploadDue' /\ sampler' \in Nat /\ sampler' < uploader'
                /\ settings'.interval = sampler' /\ uploadDue' \in BOOLEAN
                /\ sampleDue' \in BOOLEAN
      PROVE  Paced'
    <2>1. 0 \in 0..Timeout
        BY <1>t
    <2>2. CASE phase = "final"
        BY <1>7, <2>1, <2>2 DEF Paced, AfterExchange, tickers
    <2>3. CASE phase = "send" /\ UNCHANGED <<tickers, settings>>
        <3>1. Pending' \/ (sampleDue' /\ gap' <= paced' + Timeout + settings'.interval)
            BY <1>7, <1>t, <1>p, <2>3 DEF Paced, Pending, tickers
        <3> QED
            BY <1>7, <2>1, <2>3, <3>1 DEF Paced, AfterExchange, tickers
    <2>4. CASE phase = "send" /\ ~UNCHANGED <<tickers, settings>>
        <3>1. gap <= paced + Timeout
            BY <1>t, <1>p, <2>4 DEF Paced, Pending
        <3>2. Restarted'
            BY <1>7, <1>t, <2>4, <3>1 DEF Restarted, Paced
        <3> QED
            BY <1>7, <2>1, <2>4, <3>2 DEF Paced, AfterExchange, Restarted
    <2> QED
        BY <1>7, <2>2, <2>3, <2>4
<1>8. ASSUME NEW s \in Schedules \cup {settings}, Reply(s) PROVE Paced'
    <2>1. s \in AllSchedules
        BY DEF AllSchedules, Periods
    <2>2. s.interval \in Nat \ {0} /\ s.flush \in Nat \ {0} /\ s.flush > s.interval
        BY <2>1, SchedulesTyped DEF WideApart
    <2> QED
        BY <1>7, <1>8, <2>2 DEF Reply, Adopt, ResetTickers
<1>9. CASE Fail
    BY <1>7, <1>9 DEF Fail
<1>10. CASE Advance
    BY <1>10, PacedAdvance
<1>11. CASE UNCHANGED vars
    BY <1>11 DEF vars, tickers, Paced, Pending, Restarted
<1> QED
    BY <1>1, <1>2, <1>3, <1>4, <1>5, <1>6, <1>8, <1>9, <1>10, <1>11 DEF Next, Work

\* Whatever an exchange takes, and whenever a reply restarts the tickers, two
\* readings are no further apart than one exchange and the intervals before and
\* after it: if every schedule's uploads are further apart than that exchange and
\* than its readings.
THEOREM ReadingsClose == ASSUME WideApart PROVE Spec => []ReadingGap
<1>1. Periods /\ Paced => ReadingGap
    BY ScheduleAssumption DEF Periods, Paced, Pending, Restarted, ReadingGap
<1>2. Periods /\ Paced /\ [Next]_vars => (Periods /\ Paced)'
    BY PeriodsStep, PacedStep
<1> QED
    BY <1>1, <1>2, PeriodsInit, PacedInit, PTL DEF Spec

-----------------------------------------------------------------------------
(***************************************************************************)
(* The ceilings of the backoff.  Ceiling is a recursive function: its      *)
(* closed form solves the recursion, and the first number at which another *)
(* solution differed would contradict it.                                  *)
(***************************************************************************)

\* Every set of numbers has a smallest one.
LEMMA Least ==
    ASSUME NEW S \in SUBSET Nat, S # {}
    PROVE  \E n \in S : \A k \in S : n <= k
<1> DEFINE Below == OpToRel(<, Nat)
<1>1. IsWellFoundedOn(Below, Nat)
    BY NatLessThanWellFounded
<1>2. \A k, n \in Nat : <<k, n>> \in Below <=> k < n
    BY DEF OpToRel
<1> HIDE DEF Below
<1>3. PICK n \in S : \A k \in S : ~ (<<k, n>> \in Below)
    BY <1>1, WFMin
<1>4. ASSUME NEW k \in S PROVE n <= k
    <2>1. ~ (<<k, n>> \in Below)
        BY <1>3
    <2>2. k \in Nat /\ n \in Nat
        OBVIOUS
    <2>3. ~ (k < n)
        BY <1>2, <2>1, <2>2
    <2> QED
        BY <2>2, <2>3
<1> QED
    BY <1>4

\* The prover knows nothing of powers, the library that a set of n elements has
\* 2^n subsets: one element more, and there are as many again, those with it.
LEMMA Doubling ==
    ASSUME NEW n \in Nat PROVE 2^n \in Nat \ {0} /\ 2^(n + 1) = 2 * 2^n
<1> DEFINE S == 1..n
           T == 1..(n + 1)
           With == {s \cup {n + 1} : s \in SUBSET S}
           Added == [s \in SUBSET S |-> s \cup {n + 1}]
<1>1. IsFiniteSet(S) /\ Cardinality(S) = n /\ IsFiniteSet(T) /\ Cardinality(T) = n + 1
    BY FS_Interval
<1>2. /\ IsFiniteSet(SUBSET S) /\ Cardinality(SUBSET S) = 2^n
      /\ IsFiniteSet(SUBSET T) /\ Cardinality(SUBSET T) = 2^(n + 1)
    <2> HIDE DEF S, T
    <2> QED
        BY <1>1, FS_SUBSET
<1>3. T = S \cup {n + 1} /\ n + 1 \notin S
    OBVIOUS
<1> HIDE DEF S, T
<1>4. SUBSET T = (SUBSET S) \cup With
    <2>1. ASSUME NEW t \in SUBSET T PROVE t \in (SUBSET S) \cup With
        <3>1. CASE n + 1 \in t
            <4>1. t \ {n + 1} \in SUBSET S /\ t = (t \ {n + 1}) \cup {n + 1}
                BY <1>3, <3>1
            <4> QED
                BY <4>1
        <3>2. CASE n + 1 \notin t
            BY <1>3, <3>2
        <3> QED
            BY <3>1, <3>2
    <2>2. With \in SUBSET SUBSET T /\ SUBSET S \in SUBSET SUBSET T
        BY <1>3
    <2> QED
        BY <2>1, <2>2
<1>5. (SUBSET S) \cap With = {}
    BY <1>3
<1>6. Added \in Bijection(SUBSET S, With)
    <2>1. Added \in [SUBSET S -> With]
        OBVIOUS
    <2>2. ASSUME NEW a \in SUBSET S, NEW b \in SUBSET S, Added[a] = Added[b] PROVE a = b
        <3>1. a = Added[a] \ {n + 1} /\ b = Added[b] \ {n + 1}
            BY <1>3
        <3> QED
            BY <2>2, <3>1
    <2>3. \A w \in With : \E s \in SUBSET S : Added[s] = w
        OBVIOUS
    <2> HIDE DEF Added, With
    <2>4. Added \in Injection(SUBSET S, With)
        BY <2>1, <2>2 DEF Injection, IsInjective
    <2>5. Added \in Surjection(SUBSET S, With)
        BY <2>1, <2>3 DEF Surjection
    <2> QED
        BY <2>4, <2>5 DEF Bijection
<1> HIDE DEF With, Added
<1>7. IsFiniteSet(With) /\ Cardinality(With) = Cardinality(SUBSET S)
    BY <1>2, <1>6, FS_Bijection DEF ExistsBijection
<1>8. Cardinality(SUBSET T) = Cardinality(SUBSET S) + Cardinality(With) - Cardinality({})
    BY <1>2, <1>4, <1>5, <1>7, FS_Union
<1>9. Cardinality(SUBSET S) \in Nat \ {0} /\ Cardinality({}) = 0
    <2>1. {} \in SUBSET S
        OBVIOUS
    <2> QED
        BY <1>2, <2>1, FS_CardinalityType, FS_EmptySet
<1> QED
    BY <1>2, <1>7, <1>8, <1>9

\* The ceiling in closed form.
ClosedCeiling(n) == IF Cap <= Base * 2^(n - 1) THEN Cap ELSE Base * 2^(n - 1)

\* What solves the recursion for the ceilings.
Doubles(d) ==
    d = [k \in 1..MaxFailures |-> IF k = 1 THEN Base ELSE Min({2 * d[k - 1], Cap})]

\* A ceiling is positive and at most the cap.
LEMMA CeilType == ASSUME NEW n \in Nat \ {0} PROVE ClosedCeiling(n) \in 1..Cap
<1>1. 2^(n - 1) \in Nat \ {0}
    BY Doubling
<1> DEFINE p == 2^(n - 1)
<1>2. p \in Nat \ {0}
    BY <1>1
<1> HIDE DEF p
<1>3. Base \in Nat \ {0} /\ Cap \in Nat \ {0} /\ Base * p \in Nat \ {0}
    BY <1>2, ScheduleAssumption
<1> QED
    BY <1>3 DEF ClosedCeiling, p

\* One failure more doubles it, up to the cap.
LEMMA CeilNext ==
    ASSUME NEW n \in Nat \ {0}, n # 1
    PROVE  ClosedCeiling(n) = Min({2 * ClosedCeiling(n - 1), Cap})
<1> DEFINE p == Base * 2^(n - 2)
<1>1. 2^(n - 2) \in Nat /\ 2^(n - 1) = 2 * 2^(n - 2)
    <2>1. n - 2 \in Nat /\ (n - 2) + 1 = n - 1
        OBVIOUS
    <2> QED
        BY <2>1, Doubling
<1>2. Base \in Nat \ {0} /\ Cap \in Nat \ {0}
    BY ScheduleAssumption
<1>3. p \in Nat /\ Base * 2^(n - 1) = 2 * p
    <2> DEFINE q == 2^(n - 2)
    <2>1. q \in Nat /\ 2^(n - 1) = 2 * q
        BY <1>1
    <2> HIDE DEF q
    <2>2. Base * (2 * q) = 2 * (Base * q) /\ Base * q \in Nat
        BY <1>2, <2>1
    <2> QED
        BY <2>1, <2>2 DEF q
<1> HIDE DEF p
<1>4. ClosedCeiling(n) = IF Cap <= 2 * p THEN Cap ELSE 2 * p
    BY <1>3 DEF ClosedCeiling
<1>5. ClosedCeiling(n - 1) = IF Cap <= p THEN Cap ELSE p
    <2>1. (n - 1) - 1 = n - 2
        OBVIOUS
    <2> QED
        BY <2>1 DEF ClosedCeiling, p
<1>6. 2 * ClosedCeiling(n - 1) \in Int
    BY <1>2, <1>3, <1>5
<1>7. Min({2 * ClosedCeiling(n - 1), Cap})
        = IF 2 * ClosedCeiling(n - 1) <= Cap THEN 2 * ClosedCeiling(n - 1) ELSE Cap
    BY <1>2, <1>6, MinOfTwo
<1> QED
    BY <1>2, <1>3, <1>4, <1>5, <1>7

\* The closed form solves the recursion.
LEMMA CeilDoubles == Doubles([k \in 1..MaxFailures |-> ClosedCeiling(k)])
<1> DEFINE d == [k \in 1..MaxFailures |-> ClosedCeiling(k)]
<1> SUFFICES d = [k \in 1..MaxFailures |-> IF k = 1 THEN Base ELSE Min({2 * d[k - 1], Cap})]
    BY DEF Doubles
<1>m. MaxFailures \in Nat \ {0}
    BY ScheduleAssumption
<1>1. ASSUME NEW k \in 1..MaxFailures
      PROVE  ClosedCeiling(k) = IF k = 1 THEN Base ELSE Min({2 * d[k - 1], Cap})
    <2>1. CASE k = 1
        <3>1. 2^0 = 1
            OBVIOUS
        <3> QED
            BY <2>1, <3>1, ScheduleAssumption DEF ClosedCeiling
    <2>2. CASE k # 1
        <3>1. d[k - 1] = ClosedCeiling(k - 1) /\ k \in Nat \ {0}
            BY <1>m, <2>2
        <3> HIDE DEF d
        <3> QED
            BY <2>2, <3>1, CeilNext
    <2> QED
        BY <2>1, <2>2
<1> QED
    BY <1>1

\* So it is what Ceiling computes.
LEMMA CeilingIs ==
    ASSUME NEW n \in 1..MaxFailures PROVE Ceiling(n) = ClosedCeiling(n)
<1> DEFINE c == [k \in 1..MaxFailures |-> ClosedCeiling(k)]
           d == CHOOSE f : Doubles(f)
<1>m. MaxFailures \in Nat \ {0}
    BY ScheduleAssumption
<1>1. Ceiling(n) = d[n]
    BY DEF Ceiling, Doubles
<1>2. Doubles(d)
    BY CeilDoubles
<1> HIDE DEF d
<1>3. ASSUME NEW k \in 1..MaxFailures
      PROVE  /\ d[k] = IF k = 1 THEN Base ELSE Min({2 * d[k - 1], Cap})
             /\ c[k] = IF k = 1 THEN Base ELSE Min({2 * c[k - 1], Cap})
    BY <1>2, CeilDoubles DEF Doubles
<1> DEFINE Off == {k \in 1..MaxFailures : d[k] # c[k]}
<1>4. Off = {}
    <2> SUFFICES ASSUME Off # {} PROVE FALSE
        OBVIOUS
    <2>1. PICK k \in Off : \A l \in Off : k <= l
        <3>1. Off \in SUBSET Nat
            BY <1>m
        <3> HIDE DEF Off
        <3> QED
            BY <3>1, Least
    <2>2. k \in 1..MaxFailures /\ k \in Nat /\ d[k] # c[k]
        <3> HIDE DEF c
        <3> QED
            BY <1>m
    <2>3. k # 1
        BY <1>3, <2>1
    <2>4. k - 1 \in 1..MaxFailures /\ ~ (k <= k - 1)
        BY <1>m, <2>2, <2>3
    <2>5. d[k - 1] = c[k - 1]
        BY <2>1, <2>4
    <2> HIDE DEF c
    <2>6. /\ d[k] = IF k = 1 THEN Base ELSE Min({2 * d[k - 1], Cap})
          /\ c[k] = IF k = 1 THEN Base ELSE Min({2 * c[k - 1], Cap})
        BY <1>3, <2>2
    <2> QED
        BY <2>2, <2>3, <2>5, <2>6
<1> QED
    BY <1>1, <1>4

-----------------------------------------------------------------------------
(***************************************************************************)
(* The wait of a backlog.                                                  *)
(***************************************************************************)

\* The delay after the failures so far: what RetryInTime calls it.
DelayAfter(n) == IF n = 0 THEN 1 ELSE ClosedCeiling(n)
Delayed == DelayAfter(failures)

\* A backlog has not waited longer than the delay already over; from its end on
\* it waits for the uploader's next tick.
Due ==
    /\ waited <= Delayed - 1 + settings.flush
    /\ retry > 0 => waited + retry <= Delayed - 1
    /\ retry = 0 /\ ~uploadDue => waited + uploader <= Delayed - 1 + settings.flush

Waiting ==
    /\ failures \in 0..MaxFailures /\ backlog \in Nat /\ waited \in Nat
    /\ retry \in 0..(Delayed - 1)
    /\ phase = "send" => waited = 0
    /\ phase \in {"spread", "loop"} => Due /\ (backlog = 0 => waited = 0)

LEMMA DelayedType ==
    ASSUME NEW n \in 0..MaxFailures PROVE DelayAfter(n) \in Nat \ {0}
<1>1. MaxFailures \in Nat \ {0} /\ Cap \in Nat \ {0}
    BY ScheduleAssumption
<1>2. CASE n = 0
    BY <1>2 DEF DelayAfter
<1>3. CASE n # 0
    <2>1. n \in Nat \ {0}
        BY <1>1, <1>3
    <2>2. ClosedCeiling(n) \in 1..Cap
        BY <2>1, CeilType
    <2> QED
        BY <1>1, <1>3, <2>2 DEF DelayAfter
<1> QED
    BY <1>2, <1>3

\* A batch is at most the backlog, and spooling leaves something to send.
LEMMA Backlogs ==
    ASSUME backlog \in Nat
    PROVE  /\ backlog - Batch \in Nat
           /\ \A n \in Nat : Spooled(n) \in Nat \ {0}
<1>1. MaxBatch \in Nat \ {0} /\ MaxBacklog \in Nat \ {0}
    BY ScheduleAssumption
<1>2. Batch = IF MaxBatch <= backlog THEN MaxBatch ELSE backlog
    BY <1>1, MinOfTwo DEF Batch
<1>3. \A n \in Nat : Spooled(n) = IF n + 1 <= MaxBacklog THEN n + 1 ELSE MaxBacklog
    BY <1>1, MinOfTwo DEF Spooled
<1> QED
    BY <1>1, <1>2, <1>3

LEMMA WaitingInit == Init => Waiting
<1> SUFFICES ASSUME Init PROVE Waiting
    OBVIOUS
<1>1. MaxFailures \in Nat \ {0} /\ MaxBacklog \in Nat \ {0}
    BY ScheduleAssumption
<1>2. phase = "down" /\ failures = 0 /\ retry = 0 /\ waited = 0 /\ backlog \in Nat
    BY <1>1 DEF Init
<1> QED
    BY <1>1, <1>2 DEF Waiting, Delayed, DelayAfter

\* A tick of time: the delay runs out, then the uploader's period.
LEMMA WaitingAdvance ==
    ASSUME Periods, Waiting, Advance
    PROVE  Waiting'
<1>1. /\ ~Urgent /\ UNCHANGED <<phase, settings, failures, backlog>>
      /\ retry' = IF retry = 0 THEN 0 ELSE retry - 1
      /\ uploader' = IF uploader = 1 THEN settings.flush ELSE uploader - 1
      /\ uploadDue' = (uploadDue \/ uploader = 1)
      /\ waited' = IF phase \in {"spread", "loop"} /\ backlog > 0 THEN waited + 1 ELSE 0
    BY DEF Advance, Less
<1>2. /\ failures \in 0..MaxFailures /\ backlog \in Nat /\ waited \in Nat
      /\ retry \in 0..(Delayed - 1)
    BY DEF Waiting
<1>3. Delayed \in Nat \ {0} /\ Delayed' = Delayed
    BY <1>1, <1>2, DelayedType DEF Delayed, DelayAfter
<1>4. settings.flush \in Nat /\ uploader \in Nat \ {0} /\ phase \in Phases
    BY DEF Periods
<1>5. retry' \in 0..(Delayed - 1) /\ waited' \in Nat
    BY <1>1, <1>2, <1>3
<1>6. ASSUME phase \in {"spread", "loop"} PROVE Due' /\ (backlog' = 0 => waited' = 0)
    <2>1. ~uploadDue /\ Due /\ uploader <= settings.flush
        BY <1>1, <1>6 DEF Urgent, Periods, Waiting
    <2>2. uploadDue' <=> uploader = 1
        BY <1>1, <2>1
    <2>3. CASE backlog = 0
        <3>1. waited' = 0 /\ uploader' \in Nat /\ uploader' <= settings.flush
            BY <1>1, <1>4, <2>1, <2>3
        <3> QED
            BY <1>1, <1>3, <1>4, <1>5, <3>1 DEF Due
    <2>4. CASE backlog > 0
        <3>1. waited' = waited + 1
            BY <1>1, <1>6, <2>4
        <3>2. CASE retry > 1
            <4>1. retry' = retry - 1 /\ retry' > 0 /\ waited + retry <= Delayed - 1
                BY <1>1, <1>2, <2>1, <3>2 DEF Due
            <4>2. waited' <= Delayed - 1 + settings.flush /\ waited' + retry' <= Delayed - 1
                BY <1>2, <1>3, <1>4, <3>1, <4>1
            <4> QED
                BY <1>1, <1>3, <2>4, <4>1, <4>2 DEF Due
        <3>3. CASE retry = 1
            <4>1. retry' = 0 /\ waited + 1 <= Delayed - 1
                BY <1>1, <2>1, <3>3 DEF Due
            <4>2. uploader' \in Nat /\ uploader' <= settings.flush
                BY <1>1, <1>4, <2>1
            <4>3. /\ waited' <= Delayed - 1 + settings.flush
                  /\ waited' + uploader' <= Delayed - 1 + settings.flush
                BY <1>2, <1>3, <1>4, <3>1, <4>1, <4>2
            <4> QED
                BY <1>1, <1>3, <2>4, <4>1, <4>3 DEF Due
        <3>4. CASE retry = 0
            <4>1. retry' = 0 /\ waited + uploader <= Delayed - 1 + settings.flush
                BY <1>1, <2>1, <3>4 DEF Due
            <4>2. waited' <= Delayed - 1 + settings.flush
                BY <1>2, <1>3, <1>4, <3>1, <4>1
            <4>3. uploader # 1 => waited' + uploader' <= Delayed - 1 + settings.flush
                BY <1>1, <1>2, <1>3, <1>4, <3>1, <4>1
            <4> QED
                BY <1>1, <1>3, <2>2, <2>4, <4>1, <4>2, <4>3 DEF Due
        <3> QED
            BY <1>2, <1>3, <3>2, <3>3, <3>4
    <2> QED
        BY <1>2, <2>3, <2>4
<1>7. phase' = "send" => waited' = 0
    BY <1>1
<1> QED
    BY <1>1, <1>2, <1>3, <1>5, <1>6, <1>7 DEF Waiting

\* What has not waited yet.
LEMMA FromTheStart ==
    ASSUME NEW d \in Nat \ {0}, NEW r \in 0..(d - 1), NEW f \in Nat, NEW u \in Nat, u <= f
    PROVE  0 <= d - 1 + f /\ 0 + r <= d - 1 /\ 0 + u <= d - 1 + f
OBVIOUS

LEMMA WaitingStep ==
    ASSUME Periods, Periods', Waiting, [Next]_vars
    PROVE  Waiting'
<1>1. /\ failures \in 0..MaxFailures /\ backlog \in Nat /\ waited \in Nat
      /\ retry \in 0..(Delayed - 1)
    BY DEF Waiting
<1>2. MaxFailures \in Nat \ {0} /\ Delayed \in Nat \ {0}
    BY <1>1, DelayedType, ScheduleAssumption DEF Delayed
<1>3. /\ settings.flush \in Nat /\ uploader \in Nat /\ phase \in Phases
      /\ settings'.flush \in Nat /\ uploader' \in Nat /\ phase' \in Phases
    BY DEF Periods
<1>4. /\ backlog - Batch \in Nat
      /\ \A n \in Nat : Spooled(n) \in Nat \ {0}
    BY <1>1, Backlogs
\* Every action that leaves the process waiting from the beginning.
<1>5. ASSUME failures' \in 0..MaxFailures, retry' \in 0..(Delayed' - 1), backlog' \in Nat,
             waited' = 0, phase' # "down"
      PROVE  Waiting'
    <2>1. phase' \in {"spread", "loop"} => uploader' <= settings'.flush
        BY DEF Periods
    <2>2. phase' \in {"spread", "loop"} => Due'
        <3>1. DelayAfter(failures') \in Nat \ {0}
            BY <1>5, DelayedType
        <3>2. retry' \in 0..(DelayAfter(failures') - 1)
            BY <1>5 DEF Delayed
        <3>3. ASSUME phase' \in {"spread", "loop"}
              PROVE  Due'
            <4> DEFINE d == DelayAfter(failures')
                       m == settings'.flush
            <4>1. d \in Nat \ {0} /\ retry' \in 0..(d - 1) /\ waited' = 0
                BY <1>5, <3>1, <3>2
            <4>2. m \in Nat /\ uploader' \in Nat /\ uploader' <= m
                BY <1>3, <2>1, <3>3
            <4> HIDE DEF d, m
            <4>3. /\ waited' <= d - 1 + m
                  /\ waited' + retry' <= d - 1
                  /\ waited' + uploader' <= d - 1 + m
                BY <4>1, <4>2, FromTheStart
            <4> QED
                BY <4>3 DEF d, m, Due, Delayed
        <3> QED
            BY <3>3
    <2> QED
        BY <1>5, <2>2 DEF Waiting
<1>6. CASE Start
    <2>1. failures' = 0 /\ retry' = 0 /\ waited' = 0 /\ backlog' = backlog /\ phase' = "spread"
        BY <1>6 DEF Start
    <2>2. Delayed' = 1
        BY <2>1 DEF Delayed, DelayAfter
    <2> QED
        BY <1>1, <1>2, <1>5, <2>1, <2>2
<1>7. CASE EnterLoop \/ Terminate \/ UNCHANGED vars
    <2>1. /\ UNCHANGED <<settings, uploader, uploadDue, failures, retry, backlog, waited>>
          /\ UNCHANGED phase \/ (phase = "spread" /\ phase' = "loop")
        BY <1>7 DEF EnterLoop, Terminate, vars, tickers
    <2> QED
        BY <2>1 DEF Waiting, Due, Delayed, DelayAfter
<1>8. CASE Sample
    <2>1. /\ UNCHANGED <<phase, settings, uploader, uploadDue, failures, retry, waited>>
          /\ backlog' \in {backlog, Spooled(backlog)}
        BY <1>8 DEF Sample
    <2>2. backlog' \in Nat /\ (backlog' = 0 => backlog = 0)
        BY <1>1, <1>4, <2>1
    <2> QED
        BY <2>1, <2>2 DEF Waiting, Due, Delayed, DelayAfter
<1>9. CASE UploadTick
    <2>1. /\ phase = "loop" /\ ~uploadDue'
          /\ phase' = IF retry = 0 /\ backlog > 0 THEN "send" ELSE "loop"
          /\ waited' = IF phase' = "send" THEN 0 ELSE waited
          /\ UNCHANGED <<settings, uploader, failures, retry, backlog>>
        BY <1>9 DEF UploadTick
    <2>2. Due /\ (backlog = 0 => waited = 0)
        BY <2>1 DEF Waiting
    <2>3. Delayed' = Delayed
        BY <2>1 DEF Delayed, DelayAfter
    <2>4. CASE waited' = 0
        BY <1>1, <1>5, <2>1, <2>3, <2>4
    <2>5. CASE waited' # 0
        <3>1. phase' = "loop" /\ waited' = waited /\ backlog > 0 /\ retry > 0
            BY <1>1, <1>2, <2>1, <2>2, <2>5
        <3>2. Due'
            BY <2>1, <2>2, <2>3, <3>1 DEF Due
        <3> QED
            BY <1>1, <2>1, <2>3, <3>1, <3>2 DEF Waiting
    <2> QED
        BY <2>4, <2>5
<1>10. CASE Shutdown
    <2>1. /\ UNCHANGED <<failures, waited>> /\ retry' = 0 /\ phase' \in {"final", "down"}
          /\ backlog' \in {backlog, Spooled(backlog)}
        BY <1>10 DEF Shutdown
    <2>2. Delayed' = Delayed
        BY <2>1 DEF Delayed, DelayAfter
    <2> QED
        BY <1>1, <1>2, <1>4, <2>1, <2>2 DEF Waiting
<1>11. ASSUME phase \in {"send", "final"}, phase' = AfterExchange, waited' = waited,
              failures' \in 0..MaxFailures, retry' \in 0..(Delayed' - 1),
              backlog' \in Nat
       PROVE  Waiting'
    <2>2. CASE phase = "send"
        <3>1. waited' = 0 /\ phase' = "loop"
            BY <1>11, <2>2 DEF Waiting, AfterExchange
        <3> QED
            BY <1>5, <1>11, <3>1
    <2>3. CASE phase = "final"
        <3>1. phase' = "down" /\ waited' \in Nat
            BY <1>1, <1>11, <2>3 DEF AfterExchange
        <3> QED
            BY <1>11, <3>1 DEF Waiting
    <2> QED
        BY <1>11, <2>2, <2>3
<1>12. ASSUME NEW s \in Schedules \cup {settings}, Reply(s) PROVE Waiting'
    <2>1. /\ failures' = 0 /\ retry' = 0
          /\ backlog' \in {backlog - Batch, Spooled(backlog - Batch)}
        BY <1>12 DEF Reply, Adopt
    <2>2. Delayed' = 1
        BY <2>1 DEF Delayed, DelayAfter
    <2>3. failures' \in 0..MaxFailures /\ retry' \in 0..(Delayed' - 1)
        BY <1>2, <2>1, <2>2
    <2>4. phase \in {"send", "final"} /\ phase' = AfterExchange /\ waited' = waited
        BY <1>12 DEF Reply
    <2>5. backlog' \in Nat
        BY <1>4, <2>1
    <2> QED
        BY <1>11, <2>3, <2>4, <2>5
<1>13. CASE Fail
    <2>1. /\ failures' = Min({failures + 1, MaxFailures}) /\ retry' \in Delays(failures')
          /\ backlog' \in {backlog, backlog - Batch}
          /\ phase \in {"send", "final"} /\ phase' = AfterExchange /\ waited' = waited
        BY <1>13 DEF Fail
    <2>2. failures' \in 1..MaxFailures
        BY <1>1, <1>2, <2>1, MinOfTwo
    <2>3. Ceiling(failures') = ClosedCeiling(failures')
        BY <2>2, CeilingIs
    <2>4. Delayed' = ClosedCeiling(failures')
        BY <1>2, <2>2 DEF Delayed, DelayAfter
    <2>5. retry' \in 0..(Delayed' - 1) /\ failures' \in 0..MaxFailures
        BY <1>2, <2>1, <2>2, <2>3, <2>4 DEF Delays
    <2>6. backlog' \in Nat
        BY <1>1, <1>4, <2>1
    <2> QED
        BY <1>11, <2>1, <2>5, <2>6
<1>14. CASE Advance
    BY <1>14, WaitingAdvance
<1> QED
    BY <1>6, <1>7, <1>8, <1>9, <1>10, <1>12, <1>13, <1>14 DEF Next, Work

\* Whatever came before, a backlog is sent once the delay for that many failures
\* and one period have passed: no order of ticks, failures, replies, signals and
\* restarts lets it wait longer.
THEOREM BacklogRetried == Spec => []RetryInTime
<1>1. Periods /\ Waiting => RetryInTime
    <2> SUFFICES ASSUME Periods, Waiting, phase \in {"spread", "loop"}
                 PROVE  waited < settings.flush +
                           (IF failures = 0 THEN 1 ELSE Min({Cap, Base * 2^(failures - 1)}))
        BY DEF RetryInTime
    <2>1. waited <= Delayed - 1 + settings.flush /\ waited \in Nat /\ settings.flush \in Nat
        BY DEF Waiting, Due, Periods
    <2>2. Delayed \in Nat \ {0}
        BY DelayedType DEF Waiting, Delayed
    <2>3. Delayed = IF failures = 0 THEN 1 ELSE Min({Cap, Base * 2^(failures - 1)})
        <3>1. CASE failures # 0
            <4>1. failures \in Nat \ {0}
                BY <3>1, ScheduleAssumption DEF Waiting
            <4>2. 2^(failures - 1) \in Nat
                BY <4>1, Doubling
            <4>3. Cap \in Int /\ Base * 2^(failures - 1) \in Int
                <5> DEFINE p == 2^(failures - 1)
                <5>1. p \in Nat
                    BY <4>2
                <5> HIDE DEF p
                <5> QED
                    BY <5>1, ScheduleAssumption DEF p
            <4> QED
                BY <3>1, <4>3, MinOfTwo DEF Delayed, DelayAfter, ClosedCeiling
        <3> QED
            BY <3>1 DEF Delayed, DelayAfter
    <2> QED
        BY <2>1, <2>2, <2>3
<1>2. Periods /\ Waiting /\ [Next]_vars => (Periods /\ Waiting)'
    BY PeriodsStep, WaitingStep
<1> QED
    BY <1>1, <1>2, PeriodsInit, WaitingInit, PTL DEF Spec
=============================================================================
