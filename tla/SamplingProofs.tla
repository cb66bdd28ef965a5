--------------------------- MODULE SamplingProofs ---------------------------
(***************************************************************************)
(* What the windows of the Aggregator contain, and that the rates they     *)
(* contain are true, for every sequence of readings, resets, clock steps   *)
(* and changes of width.                                                   *)
(***************************************************************************)
EXTENDS Sampling, SumProofs

-----------------------------------------------------------------------------
(***************************************************************************)
(* Truncation to a multiple of the width.                                  *)
(***************************************************************************)

LEMMA Quotient ==
    ASSUME NEW a \in Nat, NEW w \in Nat \ {0}
    PROVE  /\ a - (a % w) = w * (a \div w)
           /\ w * (a \div w) \in Nat
           /\ w * (a \div w) <= a /\ a < w * (a \div w) + w
<1> DEFINE q == a \div w
           r == a % w
<1>1. q \in Nat /\ r \in 0..(w - 1) /\ a = w * q + r
  BY DivMod
<1> HIDE DEF q, r
<1>2. w * q \in Nat
  BY <1>1
<1>3. \A x \in Nat, y \in Nat, z \in 0..(w - 1) :
         x = y + z => x - z = y /\ y <= x /\ x < y + w
  OBVIOUS
<1>4. a - r = w * q /\ w * q <= a /\ a < w * q + w
  BY <1>1, <1>2, <1>3, Zenon
<1> QED
  BY <1>2, <1>4 DEF q, r

\* An instant is in the window it is truncated to.
LEMMA TruncateBounds ==
    ASSUME NEW a \in Nat, width \in Nat \ {0}
    PROVE  /\ Agg!Truncate(a) \in Nat
           /\ Agg!Truncate(a) <= a /\ a < Agg!Truncate(a) + width
BY Quotient DEF Agg!Truncate

\* Two instants less than a width after the start of the same window have the
\* same start.
LEMMA SameWindow ==
    ASSUME NEW p \in Nat, NEW a \in Nat, width \in Nat \ {0},
           p <= a, a < Agg!Truncate(p) + width
    PROVE  Agg!Truncate(a) = Agg!Truncate(p)
<1> DEFINE qp == p \div width
           qa == a \div width
<1>1. /\ qp \in Nat /\ qa \in Nat
      /\ Agg!Truncate(p) = width * qp /\ Agg!Truncate(a) = width * qa
      /\ width * qp <= p
      /\ width * qa <= a /\ a < width * qa + width
  BY DivMod, Quotient DEF Agg!Truncate
<1> HIDE DEF qp, qa
<1>2. /\ width * (qa + 1) = width * qa + width
      /\ width * (qp + 1) = width * qp + width
  BY <1>1
<1>3. qa < qp + 1
  BY <1>1, <1>2, Cancel
<1>4. qp < qa + 1
  BY <1>1, <1>2, Cancel
<1> QED
  BY <1>1, <1>3, <1>4

-----------------------------------------------------------------------------
(***************************************************************************)
(* The inductive invariant.                                                *)
(***************************************************************************)

Types ==
    /\ width \in Nat \ {0}
    /\ taken \in Nat /\ taken <= MaxReadings
    /\ \A n \in 1..taken : read[n].at \in Nat
    /\ unrated \subseteq 1..taken
    /\ folded \in [Readings -> SUBSET (1..taken)]
    /\ current \subseteq [win : 1..taken, start : Nat]
    /\ closed \subseteq [win : 1..taken, start : Nat, width : Nat \ {0}]

\* What the Aggregator remembers is the last reading.
Last == prev # {} => taken > 0 /\ prev = {read[taken]}

\* There is one window in progress at most, and the last reading is in it.
InProgress ==
    \A b \in current :
        /\ current = {b}
        /\ prev # {} /\ taken \in folded[b.win]
        /\ b.start = Agg!Truncate(read[taken].at)

\* A reading opens one window at most.
Identities ==
    /\ \A b, c \in AllWindows : b.win = c.win => b = c
    /\ \A n \in Readings : n > taken => folded[n] = {}

\* Conservation without cardinalities.
OneWindow ==
    \A n \in 1..taken :
        /\ n \in unrated => \A b \in AllWindows : n \notin folded[b.win]
        /\ n \notin unrated => \E b \in AllWindows : n \in folded[b.win]
        /\ \A b, c \in AllWindows :
              n \in folded[b.win] /\ n \in folded[c.win] => b = c

Inv ==
    /\ Types /\ Last /\ InProgress /\ Identities
    /\ OneWindow /\ NoMixing /\ InsideWindow /\ RatedAgainstLast

LEMMA WindowType ==
    ASSUME Types
    PROVE  AllWindows \subseteq [win : 1..taken, start : Nat, width : Nat \ {0}]
BY DEF Types, AllWindows, Stamp

\* The window in progress is one of the windows.
LEMMA Stamped ==
    ASSUME NEW c \in current
    PROVE  \E d \in AllWindows : d.win = c.win /\ d.start = c.start /\ d.width = width
<1> DEFINE d == [win |-> c.win, start |-> c.start, width |-> width]
<1>1. d \in AllWindows
  BY DEF AllWindows, Stamp
<1> QED
  BY <1>1

-----------------------------------------------------------------------------
(***************************************************************************)
(* The three ways in which a reading changes the windows.                  *)
(***************************************************************************)

\* No rates: the window in progress is handed on, no window changes.
Breaks ==
    /\ current' = {} /\ AllWindows' = AllWindows
    /\ unrated' = unrated \cup {taken + 1} /\ folded' = folded

\* The reading is folded into the window in progress.
Joins(c, s) ==
    /\ c.start = Agg!Truncate(s.at)
    /\ current' = current /\ AllWindows' = AllWindows
    /\ unrated' = unrated
    /\ folded' = [folded EXCEPT ![c.win] = @ \cup {taken + 1}]

\* The reading opens a window of its own.
Opened(s) == [win |-> taken + 1, start |-> Agg!Truncate(s.at), width |-> width]
OpensOne(s) ==
    /\ current' = {[win |-> taken + 1, start |-> Agg!Truncate(s.at)]}
    /\ AllWindows' = AllWindows \cup {Opened(s)}
    /\ unrated' = unrated
    /\ folded' = [folded EXCEPT ![taken + 1] = {taken + 1}]

LEMMA SampleCases ==
    ASSUME Inv, NEW m, NEW s, s.at \in Nat, Sample(m, s)
    PROVE  /\ taken + 1 \in Readings
           /\ taken' = taken + 1 /\ width' = width
           /\ prev' = {s} /\ read'[taken + 1] = s
           /\ \A n \in 1..taken : read'[n] = read[n]
           /\ closed' \subseteq AllWindows
           /\ \/ Breaks
              \/ Agg!Rated(s) /\ \E c \in current : Joins(c, s)
              \/ Agg!Rated(s) /\ OpensOne(s)
<1> USE DEF Inv
<1>1. /\ taken + 1 \in Readings /\ taken' = taken + 1 /\ width' = width
      /\ prev' = {s}
      /\ read' = [n \in 1..taken' |-> IF n = taken' THEN s ELSE read[n]]
  BY SamplingAssumption DEF Sample, Agg!Add, Agg!Remember, Types, Readings
<1>0. read'[taken + 1] = s /\ \A n \in 1..taken : read'[n] = read[n]
  BY <1>1 DEF Types
<1>2. Agg!Completed(s) \subseteq current
  BY DEF Agg!Completed, Agg!OtherWindow
<1>3. closed' \subseteq AllWindows
  BY <1>2 DEF Sample, AllWindows, Stamp
<1>4. CASE ~Agg!Rated(s)
  <2>1. Agg!Completed(s) = current /\ ~Agg!Opens(s)
    BY <1>4 DEF Agg!Completed, Agg!Opens
  <2>2. current' = {} /\ closed' = closed \cup Stamp(current)
    BY <2>1 DEF Sample, Agg!Add
  <2>3. AllWindows' = AllWindows
    BY <2>2 DEF AllWindows, Stamp
  <2>4. unrated' = unrated \cup {taken + 1} /\ folded' = folded
    BY <1>1, <1>4 DEF Sample
  <2> QED
    BY <1>0, <1>1, <1>3, <2>2, <2>3, <2>4 DEF Breaks
<1>5. CASE Agg!Rated(s) /\ ~Agg!Opens(s)
  <2>1. PICK c \in current : c.start = Agg!Truncate(s.at)
    BY <1>5 DEF Agg!Opens, Agg!OtherWindow
  <2>2. current = {c}
    BY <2>1 DEF InProgress
  <2>3. Agg!Completed(s) = {}
    BY <1>5, <2>1, <2>2 DEF Agg!Completed, Agg!OtherWindow
  <2>4. current' = current /\ closed' = closed
    BY <1>5, <2>3 DEF Sample, Agg!Add, Stamp
  <2>5. AllWindows' = AllWindows
    BY <1>1, <2>4 DEF AllWindows, Stamp
  <2>6. unrated' = unrated
    BY <1>5 DEF Sample
  <2>7. folded' = [folded EXCEPT ![c.win] = @ \cup {taken + 1}]
    BY <1>1, <1>5, <2>2, <2>4 DEF Sample, Types
  <2> QED
    BY <1>0, <1>1, <1>3, <1>5, <2>1, <2>4, <2>5, <2>6, <2>7 DEF Joins
<1>6. CASE Agg!Rated(s) /\ Agg!Opens(s)
  <2>1. Agg!Completed(s) = current
    BY <1>6 DEF Agg!Completed, Agg!Opens
  <2>2. /\ current' = {[win |-> taken + 1, start |-> Agg!Truncate(s.at)]}
        /\ closed' = closed \cup Stamp(current)
    BY <1>1, <1>6, <2>1 DEF Sample, Agg!Add
  <2>3. AllWindows' = AllWindows \cup {Opened(s)}
    BY <1>1, <2>2 DEF AllWindows, Stamp, Opened
  <2>4. unrated' = unrated
    BY <1>6 DEF Sample
  <2>5. folded[taken + 1] = {}
    BY <1>1 DEF Types, Identities
  <2>6. folded' = [folded EXCEPT ![taken + 1] = {taken + 1}]
    BY <1>1, <1>6, <2>2, <2>5 DEF Sample, Types
  <2> QED
    BY <1>0, <1>1, <1>3, <1>6, <2>2, <2>3, <2>4, <2>6 DEF OpensOne
<1> QED
  BY <1>4, <1>5, <1>6

-----------------------------------------------------------------------------
(***************************************************************************)
(* A reading preserves the invariant.                                      *)
(***************************************************************************)

LEMMA SampleTypes ==
    ASSUME Inv, NEW m, NEW s, s.at \in Nat, Sample(m, s)
    PROVE  Types'
<1>0. Breaks \/ (\E c \in current : Joins(c, s)) \/ OpensOne(s)
  BY SampleCases
<1> USE DEF Inv, Types
<1>1. /\ taken + 1 \in Readings /\ taken' = taken + 1 /\ width' = width
      /\ read'[taken + 1] = s
      /\ \A n \in 1..taken : read'[n] = read[n]
      /\ closed' \subseteq AllWindows
  BY SampleCases
<1>2. /\ width' \in Nat \ {0}
      /\ \A n \in 1..taken' : read'[n].at \in Nat
  <2>1. \A n \in 1..taken' : n \in 1..taken \/ n = taken + 1
    BY <1>1
  <2> QED
    BY <1>1, <2>1
<1>3. taken' \in Nat /\ taken' <= MaxReadings
  BY <1>1, SamplingAssumption DEF Readings
<1>4. 1..taken \subseteq 1..taken' /\ taken' \in 1..taken'
  BY <1>1
<1>5. closed' \subseteq [win : 1..taken', start : Nat, width : Nat \ {0}]
  BY <1>1, <1>4, WindowType
<1> DEFINE Rest == /\ unrated' \subseteq 1..taken'
                   /\ folded' \in [Readings -> SUBSET (1..taken')]
                   /\ current' \subseteq [win : 1..taken', start : Nat]
<1>6. Rest
  <2>1. CASE Breaks
    BY <1>1, <1>4, <2>1 DEF Breaks
  <2>2. ASSUME NEW c \in current, Joins(c, s)
        PROVE  Rest
    BY <1>1, <1>4, <2>2 DEF Joins
  <2>3. CASE OpensOne(s)
    <3>1. Agg!Truncate(s.at) \in Nat
      BY TruncateBounds
    <3> QED
      BY <1>1, <1>4, <2>3, <3>1 DEF OpensOne
  <2> QED
    BY <1>0, <2>1, <2>2, <2>3
<1> QED
  BY <1>2, <1>3, <1>5, <1>6

LEMMA SampleInProgress ==
    ASSUME Inv, NEW m, NEW s, s.at \in Nat, Sample(m, s)
    PROVE  InProgress'
<1>0. Breaks \/ (\E c \in current : Joins(c, s)) \/ OpensOne(s)
  BY SampleCases
<1> USE DEF Inv, Types
<1>1. /\ taken + 1 \in Readings /\ taken' = taken + 1 /\ width' = width
      /\ prev' = {s} /\ read'[taken + 1] = s
  BY SampleCases
<1>2. prev' # {} /\ read'[taken'].at = s.at
  BY <1>1
<1>3. CASE Breaks
  BY <1>3 DEF Breaks, InProgress
<1>4. ASSUME NEW c \in current, Joins(c, s) PROVE InProgress'
  <2>1. current' = {c} /\ c.start = Agg!Truncate(s.at)
    BY <1>4 DEF Joins, InProgress
  <2>2. c.win \in Readings
    BY <1>1, SamplingAssumption DEF Readings
  <2>3. taken' \in folded'[c.win]
    BY <1>1, <1>4, <2>2 DEF Joins
  <2> QED
    BY <1>1, <1>2, <2>1, <2>3 DEF InProgress, Agg!Truncate
<1>5. CASE OpensOne(s)
  <2>1. taken' \in folded'[taken']
    BY <1>1, <1>5 DEF OpensOne
  <2> QED
    BY <1>1, <1>2, <1>5, <2>1 DEF OpensOne, InProgress, Agg!Truncate
<1> QED
  BY <1>0, <1>3, <1>4, <1>5

LEMMA SampleIdentities ==
    ASSUME Inv, NEW m, NEW s, s.at \in Nat, Sample(m, s)
    PROVE  Identities'
<1>0. Breaks \/ (\E c \in current : Joins(c, s)) \/ OpensOne(s)
  BY SampleCases
<1> USE DEF Inv, Types
<1>1. taken + 1 \in Readings /\ taken' = taken + 1
  BY SampleCases
<1>2. AllWindows \subseteq [win : 1..taken, start : Nat, width : Nat \ {0}]
  BY WindowType
<1>3. CASE Breaks
  BY <1>1, <1>3 DEF Breaks, Identities, Readings
<1>4. ASSUME NEW c \in current, Joins(c, s) PROVE Identities'
  <2>1. \A n \in Readings : n > taken' => n > taken /\ n # c.win
    BY <1>1 DEF Readings
  <2> QED
    BY <1>1, <1>4, <2>1 DEF Joins, Identities
<1>5. CASE OpensOne(s)
  <2>1. \A b \in AllWindows : b.win # Opened(s).win
    BY <1>2 DEF Opened
  <2>2. \A b, c \in AllWindows' : b.win = c.win => b = c
    BY <1>5, <2>1 DEF OpensOne, Identities
  <2>3. \A n \in Readings : n > taken' => n > taken /\ n # taken + 1
    BY <1>1 DEF Readings
  <2>4. \A n \in Readings : n > taken' => folded'[n] = {}
    BY <1>1, <1>5, <2>3 DEF OpensOne, Identities
  <2> QED
    BY <2>2, <2>4 DEF Identities
<1> QED
  BY <1>0, <1>3, <1>4, <1>5

LEMMA SampleOneWindow ==
    ASSUME Inv, NEW m, NEW s, s.at \in Nat, Sample(m, s)
    PROVE  OneWindow'
<1>0. Breaks \/ (\E c \in current : Joins(c, s)) \/ OpensOne(s)
  BY SampleCases
<1> USE DEF Inv, Types
<1>1. taken + 1 \in Readings /\ taken' = taken + 1
  BY SampleCases
<1>2. AllWindows \subseteq [win : 1..taken, start : Nat, width : Nat \ {0}]
  BY WindowType
<1>3. 1..taken' = 1..taken \cup {taken + 1}
  BY <1>1
<1>4. 1..taken \subseteq Readings
  BY SamplingAssumption DEF Readings
<1>5. \A b \in AllWindows : taken + 1 \notin folded[b.win] /\ b.win \in Readings
  BY <1>2, <1>4
<1>6. taken + 1 \notin unrated
  OBVIOUS
<1>7. CASE Breaks
  BY <1>1, <1>3, <1>5, <1>6, <1>7 DEF Breaks, OneWindow
<1>8. ASSUME NEW c \in current, Joins(c, s) PROVE OneWindow'
  <2>1. PICK d \in AllWindows : d.win = c.win
    BY Stamped
  <2>2. \A b \in AllWindows : b # d => b.win # c.win
    BY <2>1 DEF Identities
  <2>3. /\ folded'[d.win] = folded[d.win] \cup {taken + 1}
        /\ \A b \in AllWindows : b # d => folded'[b.win] = folded[b.win]
    BY <1>5, <1>8, <2>1, <2>2 DEF Joins
  <2>4. AllWindows' = AllWindows /\ unrated' = unrated
    BY <1>8 DEF Joins
  <2>5. /\ \A b \in AllWindows : taken + 1 \in folded'[b.win] <=> b = d
        /\ \A n \in 1..taken : \A b \in AllWindows :
              n \in folded'[b.win] <=> n \in folded[b.win]
    BY <1>5, <2>3
  <2> QED
    BY <1>3, <1>6, <2>4, <2>5 DEF OneWindow
<1>9. CASE OpensOne(s)
  <2>1. Opened(s).win = taken + 1 /\ Opened(s) \notin AllWindows
    BY <1>2 DEF Opened
  <2>2. /\ folded'[Opened(s).win] = {taken + 1}
        /\ \A b \in AllWindows : folded'[b.win] = folded[b.win]
    BY <1>1, <1>2, <1>5, <1>9, <2>1 DEF OpensOne
  <2>3. AllWindows' = AllWindows \cup {Opened(s)} /\ unrated' = unrated
    BY <1>9 DEF OpensOne
  <2>4. /\ \A b \in AllWindows' : taken + 1 \in folded'[b.win] <=> b = Opened(s)
        /\ \A n \in 1..taken : /\ n \notin folded'[Opened(s).win]
                               /\ \A b \in AllWindows :
                                    n \in folded'[b.win] <=> n \in folded[b.win]
    BY <1>5, <2>1, <2>2, <2>3
  <2> QED
    BY <1>3, <1>6, <2>3, <2>4 DEF OneWindow
<1> QED
  BY <1>0, <1>7, <1>8, <1>9

LEMMA SampleNoMixing ==
    ASSUME Inv, NEW moment, NEW s, s.at \in Nat, Sample(moment, s)
    PROVE  NoMixing'
<1>0. Breaks \/ (\E c \in current : Joins(c, s)) \/ OpensOne(s)
  BY SampleCases
<1> USE DEF Inv, Types
<1>1. taken + 1 \in Readings /\ taken' = taken + 1
  BY SampleCases
<1>2. AllWindows \subseteq [win : 1..taken, start : Nat, width : Nat \ {0}]
  BY WindowType
<1>3. 1..taken' = 1..taken \cup {taken + 1} /\ 1..taken \subseteq Readings
  BY <1>1, SamplingAssumption DEF Readings
<1>4. \A b \in AllWindows : folded[b.win] \subseteq 1..taken /\ b.win \in Readings
  BY <1>2, <1>3
<1>5. ASSUME NEW b \in AllWindows', NEW n \in 1..taken',
             NEW m \in folded'[b.win], NEW k \in folded'[b.win], m <= n, n <= k
      PROVE  n \in folded'[b.win]
  <2>1. CASE Breaks
    BY <1>3, <1>4, <1>5, <2>1 DEF Breaks, NoMixing
  <2>2. ASSUME NEW c \in current, Joins(c, s) PROVE n \in folded'[b.win]
    <3>1. b \in AllWindows
      BY <2>2 DEF Joins
    <3>2. CASE b.win # c.win
      BY <1>3, <1>4, <1>5, <2>2, <3>1, <3>2 DEF Joins, NoMixing
    <3>3. CASE b.win = c.win
      <4>1. folded'[b.win] = folded[b.win] \cup {taken + 1}
        BY <1>4, <2>2, <3>1, <3>3 DEF Joins
      <4>2. taken \in folded[b.win]
        BY <3>3 DEF InProgress
      <4>3. CASE n = taken + 1
        BY <4>1, <4>3
      <4>4. CASE n \in 1..taken
        <5>1. m \in folded[b.win]
          BY <1>4, <1>5, <4>1, <4>4
        <5>2. n <= taken
          BY <4>4
        <5> QED
          BY <1>4, <1>5, <3>1, <4>1, <4>2, <4>4, <5>1, <5>2 DEF NoMixing
      <4> QED
        BY <1>3, <4>3, <4>4
    <3> QED
      BY <3>2, <3>3
  <2>3. CASE OpensOne(s)
    <3>1. CASE b = Opened(s)
      <4>1. folded'[b.win] = {taken + 1}
        BY <1>1, <2>3, <3>1 DEF OpensOne, Opened
      <4> QED
        BY <1>5, <4>1
    <3>2. CASE b \in AllWindows
      <4>1. folded'[b.win] = folded[b.win]
        BY <1>1, <1>2, <1>4, <2>3, <3>2 DEF OpensOne
      <4>2. n \in 1..taken
        BY <1>3, <1>4, <1>5, <3>2, <4>1
      <4> QED
        BY <1>5, <3>2, <4>1, <4>2 DEF NoMixing
    <3> QED
      BY <2>3, <3>1, <3>2 DEF OpensOne
  <2> QED
    BY <1>0, <2>1, <2>2, <2>3
<1> QED
  BY <1>5 DEF NoMixing

LEMMA SampleInside ==
    ASSUME Inv, NEW m, NEW s, s.at \in Nat, Sample(m, s)
    PROVE  InsideWindow'
<1>0. Breaks \/ (\E c \in current : Joins(c, s)) \/ OpensOne(s)
  BY SampleCases
<1>1. /\ taken + 1 \in Readings /\ taken' = taken + 1
      /\ read'[taken + 1] = s /\ \A n \in 1..taken : read'[n] = read[n]
  BY SampleCases
<1> USE DEF Inv, Types
<1>2. AllWindows \subseteq [win : 1..taken, start : Nat, width : Nat \ {0}]
  BY WindowType
<1>3. 1..taken \subseteq Readings
  BY SamplingAssumption DEF Readings
<1>4. \A b \in AllWindows : folded[b.win] \subseteq 1..taken /\ b.win \in Readings
  BY <1>2, <1>3
<1>5. read'[taken + 1].at = s.at /\ \A n \in 1..taken : read'[n].at = read[n].at
  BY <1>1
<1>6. Agg!Truncate(s.at) <= s.at /\ s.at < Agg!Truncate(s.at) + width
  BY TruncateBounds
<1>7. ASSUME NEW b \in AllWindows', NEW n \in folded'[b.win]
      PROVE  b.start <= read'[n].at /\ read'[n].at < b.start + b.width
  <2>1. CASE Breaks
    BY <1>4, <1>5, <2>1 DEF Breaks, InsideWindow
  <2>2. ASSUME NEW c \in current, Joins(c, s)
        PROVE  b.start <= read'[n].at /\ read'[n].at < b.start + b.width
    <3>1. b \in AllWindows
      BY <2>2 DEF Joins
    <3>2. CASE n \in folded[b.win]
      BY <1>4, <1>5, <3>1, <3>2 DEF InsideWindow
    <3>3. CASE n \notin folded[b.win]
      <4>1. b.win = c.win /\ n = taken + 1
        BY <1>4, <2>2, <3>1, <3>3 DEF Joins
      <4>2. PICK d \in AllWindows : d.win = c.win /\ d.start = c.start /\ d.width = width
        BY Stamped
      <4>3. b.start = Agg!Truncate(s.at) /\ b.width = width
        BY <2>2, <3>1, <4>1, <4>2 DEF Identities, Joins
      <4> QED
        BY <1>5, <1>6, <4>1, <4>3
    <3> QED
      BY <3>2, <3>3
  <2>3. CASE OpensOne(s)
    <3>1. CASE b = Opened(s)
      <4>1. n = taken + 1
        BY <1>1, <2>3, <3>1 DEF OpensOne, Opened
      <4>2. b.start = Agg!Truncate(s.at) /\ b.width = width
        BY <3>1 DEF Opened
      <4> QED
        BY <1>5, <1>6, <4>1, <4>2
    <3>2. CASE b \in AllWindows
      <4>1. n \in folded[b.win]
        BY <1>1, <1>2, <1>4, <2>3, <3>2 DEF OpensOne
      <4> QED
        BY <1>4, <1>5, <3>2, <4>1 DEF InsideWindow
    <3> QED
      BY <2>3, <3>1, <3>2 DEF OpensOne
  <2> QED
    BY <1>0, <2>1, <2>2, <2>3
<1> QED
  BY <1>7 DEF InsideWindow

LEMMA SampleLast ==
    ASSUME Inv, NEW m, NEW s, s.at \in Nat, Sample(m, s)
    PROVE  Last'
<1>1. taken' = taken + 1 /\ prev' = {s} /\ read'[taken + 1] = s /\ taken \in Nat
  BY SampleCases DEF Inv, Types
<1> QED
  BY <1>1 DEF Last

LEMMA SampleRated ==
    ASSUME Inv, NEW m, NEW s, s.at \in Nat, Sample(m, s)
    PROVE  RatedAgainstLast'
<1>0. Breaks \/ (Agg!Rated(s) /\ ((\E c \in current : Joins(c, s)) \/ OpensOne(s)))
  BY SampleCases
<1>1. /\ taken + 1 \in Readings /\ taken' = taken + 1
      /\ read'[taken + 1] = s /\ \A n \in 1..taken : read'[n] = read[n]
  BY SampleCases
<1> USE DEF Inv, Types
<1>2. AllWindows \subseteq [win : 1..taken, start : Nat, width : Nat \ {0}]
  BY WindowType
<1>3. 1..taken \subseteq Readings
  BY SamplingAssumption DEF Readings
<1>4. \A b \in AllWindows : folded[b.win] \subseteq 1..taken /\ b.win \in Readings
  BY <1>2, <1>3
\* What was in a window stays rated; the new reading is, when it was.
<1>5. \A n \in 1..taken : n > 1 /\ Derives(read[n - 1], read[n])
        => n > 1 /\ Derives(read'[n - 1], read'[n])
  <2>1. \A n \in 1..taken : n > 1 => n - 1 \in 1..taken
    OBVIOUS
  <2> QED
    BY <1>1, <2>1
<1>6. Agg!Rated(s) => taken + 1 > 1 /\ Derives(read'[taken], read'[taken + 1])
  <2>1. taken > 0 => taken \in 1..taken
    OBVIOUS
  <2> QED
    BY <1>1, <2>1 DEF Agg!Rated, Last
<1>7. ASSUME NEW b \in AllWindows', NEW n \in folded'[b.win]
      PROVE  n > 1 /\ Derives(read'[n - 1], read'[n])
  <2>1. CASE b \in AllWindows /\ n \in folded[b.win]
    BY <1>4, <1>5, <2>1 DEF RatedAgainstLast
  <2>2. CASE ~(b \in AllWindows /\ n \in folded[b.win])
    <3>1. Agg!Rated(s) /\ n = taken + 1
      BY <1>0, <1>1, <1>2, <1>4, <1>7, <2>2 DEF Breaks, Joins, OpensOne, Opened
    <3>2. n - 1 = taken
      BY <3>1
    <3> QED
      BY <1>6, <3>1, <3>2
  <2> QED
    BY <2>1, <2>2
<1> QED
  BY <1>7 DEF RatedAgainstLast

-----------------------------------------------------------------------------
(***************************************************************************)
(* The invariant, and what follows from it.                                *)
(***************************************************************************)

LEMMA Initially == Init => Inv
<1> SUFFICES ASSUME Init PROVE Inv
  OBVIOUS
<1>1. AllWindows = {}
  BY DEF Init, AllWindows, Stamp
<1>2. Types
  BY SamplingAssumption DEF Init, Types
<1>3. \A n \in 1..taken : FALSE
  BY DEF Init
<1> QED
  BY <1>1, <1>2, <1>3
     DEF Init, Inv, Last, InProgress, Identities, OneWindow, NoMixing,
         InsideWindow, RatedAgainstLast

\* The other steps hand the window in progress on at most: the set of windows
\* and what is in them stay.
LEMMA OtherSteps ==
    ASSUME Inv, (\E w \in Widths : Reconfigure(w)) \/ Stop \/ UNCHANGED vars
    PROVE  Inv'
<1> USE DEF Inv
<1>1. /\ UNCHANGED <<taken, read, unrated, folded>>
      /\ \/ UNCHANGED <<width, prev, current, closed>>
         \/ /\ width' \in Widths /\ prev' = {} /\ current' = {}
            /\ closed' = closed \cup Stamp(current)
         \/ /\ width' = width /\ prev' = prev /\ current' = {}
            /\ closed' = closed \cup Stamp(current)
  BY DEF Reconfigure, Stop, vars, Agg!Fresh, Agg!Flush
<1>2. AllWindows' = AllWindows
  BY <1>1 DEF AllWindows, Stamp
<1>3. closed' \subseteq AllWindows
  BY <1>1 DEF AllWindows
<1>4. Types'
  <2>1. closed' \subseteq [win : 1..taken, start : Nat, width : Nat \ {0}]
    BY <1>3, WindowType
  <2> QED
    BY <1>1, <2>1, SamplingAssumption DEF Types
<1>5. InProgress'
  BY <1>1 DEF InProgress, Agg!Truncate
<1>6. Identities' /\ OneWindow' /\ NoMixing' /\ InsideWindow' /\ RatedAgainstLast'
  BY <1>1, <1>2 DEF Identities, OneWindow, NoMixing, InsideWindow, RatedAgainstLast
<1>7. Last'
  BY <1>1 DEF Last
<1> QED
  BY <1>4, <1>5, <1>6, <1>7

\* A sample that was collected has the instant at which it was.
LEMMA Collected ==
    ASSUME NEW k, NEW at \in Instants, NEW broken, NEW s \in Collect(k, at, broken)
    PROVE  s.at \in Nat
BY SamplingAssumption DEF Collect, Reading

LEMMA Invariance == Spec => []Inv
<1>1. Inv /\ [Next]_vars => Inv'
  <2> SUFFICES ASSUME Inv, [Next]_vars PROVE Inv'
    OBVIOUS
  <2>1. ASSUME NEW m \in Moments, NEW at \in Instants, NEW broken,
               NEW s \in Collect(Shows(m), at, broken), Sample(m, s)
        PROVE  Inv'
    <3>1. s.at \in Nat
      BY Collected
    <3> QED
      BY <2>1, <3>1, SampleLast, SampleRated, SampleTypes, SampleInProgress,
         SampleIdentities, SampleOneWindow, SampleNoMixing, SampleInside DEF Inv
  <2>2. CASE (\E w \in Widths : Reconfigure(w)) \/ Stop \/ UNCHANGED vars
    BY <2>2, OtherSteps
  <2> QED
    BY <2>1, <2>2 DEF Next
<1> QED
  BY <1>1, Initially, PTL DEF Spec

\* Every reading that gave rates is in exactly one window, and every other in
\* none (Aggregator.Add, Flush, Agent.applyConfig).
THEOREM EveryReadingOnce == Spec => []Conservation
<1>1. Inv => Conservation
  <2> SUFFICES ASSUME Inv, NEW n \in 1..taken
               PROVE  Cardinality({b \in AllWindows : n \in folded[b.win]})
                        = IF n \in unrated THEN 0 ELSE 1
    BY DEF Conservation
  <2>1. CASE n \in unrated
    <3>1. {b \in AllWindows : n \in folded[b.win]} = {}
      BY <2>1 DEF Inv, OneWindow
    <3> QED
      BY <2>1, <3>1, FS_EmptySet
  <2>2. CASE n \notin unrated
    <3>1. PICK b \in AllWindows : n \in folded[b.win]
      BY <2>2 DEF Inv, OneWindow
    <3>2. {c \in AllWindows : n \in folded[c.win]} = {b}
      BY <3>1 DEF Inv, OneWindow
    <3> QED
      BY <2>2, <3>2, FS_Singleton
  <2> QED
    BY <2>1, <2>2
<1> QED
  BY <1>1, Invariance, PTL

\* No window spans a reset (the reset branch of Aggregator.Add).
THEOREM NoWindowSpansAReset == Spec => []NoMixing
BY Invariance, PTL DEF Inv

\* A reading is inside the bounds of its window (Aggregator.Add's Truncate).
THEOREM ReadingsInside == Spec => []InsideWindow
BY Invariance, PTL DEF Inv

\* What is in a window was rated against the reading just before it
\* (Aggregator.Add's prev, Derive's refusals).
THEOREM AlwaysAgainstTheLast == Spec => []RatedAgainstLast
BY Invariance, PTL DEF Inv

\* Only a reading of a later window completes one without a reset, although
\* Add compares the starts without a direction: Derive's order check and the
\* alignment of both starts make up for it.
THEOREM LaterCompletes == Spec => CompletedByLater
<1>1. Inv /\ [Next]_vars =>
        [taken' # taken /\ taken' \notin unrated' =>
            \A b \in closed' \ closed : read'[taken'].at >= b.start + b.width]_vars
  <2> SUFFICES ASSUME Inv, Next, taken' # taken, taken' \notin unrated',
                      NEW b \in closed', b \notin closed
               PROVE  read'[taken'].at >= b.start + b.width
    OBVIOUS
  <2>1. PICK m, s : Sample(m, s) /\ s.at \in Nat
    BY Collected DEF Next, Reconfigure, Stop
  <2>2. taken + 1 \in Readings /\ taken' = taken + 1 /\ read'[taken'] = s
    BY <2>1, SampleCases DEF Inv, Types
  <2>3. Agg!Rated(s)
    BY <2>1, <2>2 DEF Sample
  <2>4. PICK c \in Agg!OtherWindow(s) : b.start = c.start /\ b.width = width
    BY <2>1, <2>3 DEF Sample, Stamp, Agg!Completed
  <2>8. Derives(read[taken], s) /\ taken \in 1..taken
    BY <2>3 DEF Agg!Rated, Inv, Last, Types
  <2>5. /\ c.start # Agg!Truncate(s.at)
        /\ c.start = Agg!Truncate(read[taken].at)
        /\ read[taken].at < s.at /\ read[taken].at \in Nat
    BY <2>1, <2>3, <2>4, <2>8 DEF Agg!OtherWindow, Inv, InProgress, Derives, Types
  <2>6. ~(s.at < c.start + width)
    BY <2>1, <2>5, SameWindow DEF Inv, Types
  <2>7. c.start \in Nat /\ width \in Nat /\ s.at \in Nat
    BY <2>1, <2>5, TruncateBounds DEF Inv, Types
  <2> QED
    BY <2>1, <2>2, <2>4, <2>6, <2>7
<1> QED
  BY <1>1, Invariance, PTL DEF Spec, CompletedByLater

-----------------------------------------------------------------------------
(***************************************************************************)
(* What was read.                                                          *)
(***************************************************************************)

\* Every reading shows the kernel of its moment; folded readings exist.
Sampled ==
    /\ taken \in Nat
    /\ \A n \in 1..taken :
          seen[n] \in Moments /\ \E at \in Instants : read[n] = Reading(Shows(seen[n]), at)

LEMMA SampledStep ==
    ASSUME Sampled, [Next]_vars PROVE Sampled'
<1>1. CASE UNCHANGED <<taken, read, seen>>
    BY <1>1 DEF Sampled
<1>2. ASSUME NEW m \in Moments, NEW at \in Instants, NEW broken,
             NEW s \in Collect(Shows(m), at, broken), Sample(m, s)
      PROVE  Sampled'
    <2>1. s = Reading(Shows(m), at)
        BY DEF Collect
    <2>2. /\ taken' = taken + 1 /\ taken \in Nat
          /\ read' = [n \in 1..taken' |-> IF n = taken' THEN s ELSE read[n]]
          /\ seen' = [n \in 1..taken' |-> IF n = taken' THEN m ELSE seen[n]]
        BY <1>2 DEF Sample, Sampled
    <2>3. ASSUME NEW n \in 1..taken'
          PROVE  /\ seen'[n] \in Moments
                 /\ \E i \in Instants : read'[n] = Reading(Shows(seen'[n]), i)
        <3>1. CASE n = taken'
            BY <2>1, <2>2, <3>1
        <3>2. CASE n # taken'
            <4>1. n \in 1..taken /\ read'[n] = read[n] /\ seen'[n] = seen[n]
                BY <2>2, <3>2
            <4> QED
                BY <4>1 DEF Sampled
        <3> QED
            BY <3>1, <3>2
    <2> QED
        BY <2>2, <2>3 DEF Sampled
<1>3. CASE (\E w \in Widths : Reconfigure(w)) \/ Stop \/ UNCHANGED vars
    BY <1>1, <1>3 DEF Reconfigure, Stop, vars
<1> QED
    BY <1>2, <1>3 DEF Next

LEMMA AlwaysSampled == Spec => []Sampled
<1>1. Init => Sampled
    <2> SUFFICES ASSUME Init PROVE Sampled
        OBVIOUS
    <2>1. taken = 0 /\ \A n \in 1..0 : FALSE
        BY DEF Init
    <2> QED
        BY <2>1 DEF Sampled
<1> QED
    BY <1>1, SampledStep, PTL DEF Spec

\* The two readings that a reading in a closed window was rated by.
LEMMA BothSampled ==
    ASSUME Inv, Sampled, NEW b \in closed, NEW n \in folded[b.win]
    PROVE  /\ n \in 1..taken /\ n - 1 \in 1..taken
           /\ Derives(read[n - 1], read[n])
<1>1. b \in AllWindows
    BY DEF AllWindows
<1>2. n > 1 /\ Derives(read[n - 1], read[n])
    BY <1>1 DEF Inv, RatedAgainstLast
<1>3. /\ b.win \in 1..taken /\ folded \in [Readings -> SUBSET (1..taken)]
      /\ taken \in Nat /\ taken <= MaxReadings
    BY DEF Inv, Types
<1>4. b.win \in Readings
    BY <1>3, SamplingAssumption DEF Readings
<1>5. n \in 1..taken
    BY <1>3, <1>4
<1> QED
    BY <1>2, <1>3, <1>5

-----------------------------------------------------------------------------
(***************************************************************************)
(* The traffic.                                                            *)
(***************************************************************************)

\* If each counter is at most what was carried plus what it showed before, so is
\* their sum, whichever counters are new and whichever are gone.
LEMMA Gained ==
    ASSUME NEW f, NEW g, NEW h, NEW A, NEW B, IsFiniteSet(A), IsFiniteSet(B),
           \A d \in A : f[d] \in Nat /\ h[d] \in Nat,
           \A d \in B : g[d] \in Nat,
           \A d \in A : f[d] <= h[d] + (IF d \in B THEN g[d] ELSE 0)
    PROVE  SumOver(f, A) - SumOver(g, B) <= SumOver(h, A)
<1>1. IsFiniteSet(A \cap B)
    BY FS_Subset
<1>2. Summable(f, A) /\ Summable(h, A) /\ Summable(g, A \cap B) /\ Summable(g, B)
    BY <1>1 DEF Summable
<1>3. SumOver(f, A) <= SumOver(h, A) + SumOver(g, A \cap B)
    BY <1>2, SumGain
<1>4. SumOver(g, A \cap B) <= SumOver(g, B)
    BY SumPart
<1>5. /\ SumOver(f, A) \in Int /\ SumOver(h, A) \in Int
      /\ SumOver(g, A \cap B) \in Int /\ SumOver(g, B) \in Int
    BY <1>2, SumType
<1> QED
    BY <1>3, <1>4, <1>5

\* What the physical interfaces showed at one moment exceeds what they showed
\* before by no more than they can have carried.
LEMMA NetBetween ==
    ASSUME NEW m \in Moments, NEW p \in Moments, NEW c \in {"NetRx", "NetTx"}
    PROVE  parseNet(Shows(m), c) - parseNet(Shows(p), c)
                <= NetCarried(Shows(m), Shows(p), c)
<1> DEFINE now == Shows(m).nets
           before == Shows(p).nets
           A == DOMAIN now \ VirtualNames
           B == DOMAIN before \ VirtualNames
           f == [d \in A |-> now[d][c]]
           g == [d \in B |-> before[d][c]]
           h == [d \in DOMAIN now |-> Carried(now, before, d, c)]
<1>1. /\ IsFiniteSet(DOMAIN now) /\ \A d \in DOMAIN now : now[d][c] \in Nat
      /\ IsFiniteSet(DOMAIN before) /\ \A d \in DOMAIN before : before[d][c] \in Nat
    BY KernelAssumption
<1>2. IsFiniteSet(A) /\ IsFiniteSet(B)
    <2> HIDE DEF now, before
    <2> QED
        BY <1>1, FS_Subset
<1>3. /\ parseNet(Shows(m), c) = SumOver(f, A)
      /\ parseNet(Shows(p), c) = SumOver(g, B)
      /\ NetCarried(Shows(m), Shows(p), c) = SumOver(h, A)
    BY DEF parseNet, NetCarried, Physical
<1> HIDE DEF now, before
<1>4. ASSUME NEW d \in A
      PROVE  /\ f[d] \in Nat /\ h[d] \in Nat
             /\ f[d] <= h[d] + (IF d \in B THEN g[d] ELSE 0)
    <2>1. d \in DOMAIN now /\ (d \in B <=> d \in DOMAIN before)
        OBVIOUS
    <2>2. f[d] = now[d][c] /\ f[d] \in Nat
        BY <1>1, <2>1
    <2>3. CASE d \in B
        <3>1. g[d] = before[d][c] /\ g[d] \in Nat
            BY <1>1, <2>3
        <3>2. h[d] = IF f[d] >= g[d] THEN f[d] - g[d] ELSE f[d]
            BY <2>1, <2>2, <2>3, <3>1 DEF Carried
        <3> HIDE DEF f, g, h
        <3> QED
            BY <2>2, <2>3, <3>1, <3>2
    <2>4. CASE d \notin B
        <3>1. h[d] = f[d]
            BY <2>1, <2>2, <2>4 DEF Carried
        <3> HIDE DEF f, g, h
        <3> QED
            BY <2>2, <2>4, <3>1
    <2> QED
        BY <2>3, <2>4
<1>5. \A d \in B : g[d] \in Nat
    BY <1>1
<1> HIDE DEF A, B, f, g, h
<1> QED
    BY <1>2, <1>3, <1>4, <1>5, Gained

\* The same of the whole disks, whose counters count sectors.
LEMMA DiskBetween ==
    ASSUME NEW m \in Moments, NEW p \in Moments, NEW c \in {"DiskRead", "DiskWrite"}
    PROVE  parseDiskIO(Shows(m), c) - parseDiskIO(Shows(p), c)
                <= DiskCarried(Shows(m), Shows(p), c)
<1> DEFINE now == Shows(m).disks
           before == Shows(p).disks
           A == DOMAIN now \cap WholeDiskNames
           B == DOMAIN before \cap WholeDiskNames
           f == [d \in A |-> SectorSize * now[d][c]]
           g == [d \in B |-> SectorSize * before[d][c]]
           h == [d \in DOMAIN now |-> SectorSize * Carried(now, before, d, c)]
<1>1. /\ IsFiniteSet(DOMAIN now) /\ \A d \in DOMAIN now : now[d][c] \in Nat
      /\ IsFiniteSet(DOMAIN before) /\ \A d \in DOMAIN before : before[d][c] \in Nat
    BY KernelAssumption
<1>2. IsFiniteSet(A) /\ IsFiniteSet(B)
    <2> HIDE DEF now, before
    <2> QED
        BY <1>1, FS_Subset
<1>3. /\ parseDiskIO(Shows(m), c) = SumOver(f, A)
      /\ parseDiskIO(Shows(p), c) = SumOver(g, B)
      /\ DiskCarried(Shows(m), Shows(p), c) = SumOver(h, A)
    BY DEF parseDiskIO, DiskCarried, Whole
<1> HIDE DEF now, before
<1>4. ASSUME NEW d \in A
      PROVE  /\ f[d] \in Nat /\ h[d] \in Nat
             /\ f[d] <= h[d] + (IF d \in B THEN g[d] ELSE 0)
    <2>1. d \in DOMAIN now /\ (d \in B <=> d \in DOMAIN before)
        OBVIOUS
    <2>2. f[d] = SectorSize * now[d][c] /\ now[d][c] \in Nat /\ f[d] \in Nat
        BY <1>1, <2>1 DEF SectorSize
    <2>3. CASE d \in B
        <3>1. g[d] = SectorSize * before[d][c] /\ before[d][c] \in Nat /\ g[d] \in Nat
            BY <1>1, <2>3 DEF SectorSize
        <3>2. h[d] = IF f[d] >= g[d] THEN f[d] - g[d] ELSE f[d]
            <4>1. h[d] = SectorSize * (IF now[d][c] >= before[d][c]
                                       THEN now[d][c] - before[d][c] ELSE now[d][c])
                BY <2>1, <2>3 DEF Carried
            <4> HIDE DEF f, g, h
            <4> QED
                BY <2>2, <3>1, <4>1 DEF SectorSize
        <3> HIDE DEF f, g, h
        <3> QED
            BY <2>2, <2>3, <3>1, <3>2
    <2>4. CASE d \notin B
        <3>1. h[d] = f[d]
            BY <2>1, <2>2, <2>4 DEF Carried
        <3> HIDE DEF f, g, h
        <3> QED
            BY <2>2, <2>4, <3>1
    <2> QED
        BY <2>3, <2>4
<1>5. \A d \in B : g[d] \in Nat
    BY <1>1 DEF SectorSize
<1> HIDE DEF A, B, f, g, h
<1> QED
    BY <1>2, <1>3, <1>4, <1>5, Gained

\* The rates of a window count no traffic that did not take place.
THEOREM NoTrafficInvented == Spec => []TrafficNotInvented
<1>1. Inv /\ Sampled => TrafficNotInvented
    <2> SUFFICES ASSUME Inv, Sampled, NEW b \in closed, NEW n \in folded[b.win], NEW c \in IO
                 PROVE  read[n].io[c] - read[n - 1].io[c]
                          <= IF c \in {"NetRx", "NetTx"}
                             THEN NetCarried(Shows(seen[n]), Shows(seen[n - 1]), c)
                             ELSE DiskCarried(Shows(seen[n]), Shows(seen[n - 1]), c)
        BY DEF TrafficNotInvented
    <2>1. n \in 1..taken /\ n - 1 \in 1..taken
        BY BothSampled
    <2>2. /\ seen[n] \in Moments /\ seen[n - 1] \in Moments
          /\ \E at \in Instants : read[n] = Reading(Shows(seen[n]), at)
          /\ \E at \in Instants : read[n - 1] = Reading(Shows(seen[n - 1]), at)
        BY <2>1 DEF Sampled
    <2>3. CASE c \in {"NetRx", "NetTx"}
        <3>1. /\ read[n].io[c] = parseNet(Shows(seen[n]), c)
              /\ read[n - 1].io[c] = parseNet(Shows(seen[n - 1]), c)
            BY <2>2, <2>3 DEF Reading
        <3> QED
            BY <2>2, <2>3, <3>1, NetBetween
    <2>4. CASE c \in {"DiskRead", "DiskWrite"}
        <3>1. /\ read[n].io[c] = parseDiskIO(Shows(seen[n]), c)
              /\ read[n - 1].io[c] = parseDiskIO(Shows(seen[n - 1]), c)
            BY <2>2, <2>4 DEF Reading
        <3> QED
            BY <2>2, <2>4, <3>1, DiskBetween
    <2> QED
        BY <2>3, <2>4 DEF IO
<1> QED
    BY <1>1, Invariance, AlwaysSampled, PTL

-----------------------------------------------------------------------------
(***************************************************************************)
(* The shares.                                                             *)
(***************************************************************************)

\* No state of the CPU gives time back within a boot.  (Linux does not promise
\* it for iowait.)
Steady ==
    \A m, p \in Moments :
        LET now == Shows(m)  before == Shows(p)
        IN  now.boot = before.boot /\ Total(parseCPU(now)) > Total(parseCPU(before))
              => \A s \in CPUStates : now.cpu[s] >= before.cpu[s]

\* Parts of an interval, each rounded down, are no more than the whole.
LEMMA Floors ==
    ASSUME NEW i \in Nat \ {0}, NEW u \in Nat, NEW a \in Nat, NEW b \in Nat, NEW c \in Nat,
           NEW d \in Nat, NEW e \in Nat, NEW f \in Nat, a + b + c + d + e + f <= i
    PROVE  /\ (u * a) \div i \in Nat
           /\ (u * a) \div i + (u * b) \div i + (u * c) \div i
                + (u * d) \div i + (u * e) \div i + (u * f) \div i <= u
<1>1. \A x \in Nat : u * x \in Nat
    OBVIOUS
<1>2. \A x \in Nat : (u * x) \div i \in Nat /\ i * ((u * x) \div i) <= u * x
    <2> TAKE x \in Nat
    <2> DEFINE y == u * x
    <2>1. y \in Nat
        BY <1>1
    <2> HIDE DEF y
    <2>2. y \div i \in Nat /\ i * (y \div i) <= y
        BY <2>1, DivMod, Quotient
    <2> QED
        BY <2>2 DEF y
<1> DEFINE q(x) == (u * x) \div i
<1>3. /\ q(a) \in Nat /\ q(b) \in Nat /\ q(c) \in Nat
      /\ q(d) \in Nat /\ q(e) \in Nat /\ q(f) \in Nat
      /\ i * q(a) <= u * a /\ i * q(b) <= u * b /\ i * q(c) <= u * c
      /\ i * q(d) <= u * d /\ i * q(e) <= u * e /\ i * q(f) <= u * f
    BY <1>2
<1> HIDE DEF q
<1> DEFINE s == q(a) + q(b) + q(c) + q(d) + q(e) + q(f)
<1>4. s \in Nat
    BY <1>3
<1>5. i * s = i * q(a) + i * q(b) + i * q(c) + i * q(d) + i * q(e) + i * q(f)
    BY <1>3
<1>6. u * a + u * b + u * c + u * d + u * e + u * f = u * (a + b + c + d + e + f)
    OBVIOUS
<1>7. u * (a + b + c + d + e + f) <= u * i
    <2> DEFINE t == a + b + c + d + e + f
    <2>1. PICK r \in Nat : i = t + r
        OBVIOUS
    <2>2. t \in Nat
        OBVIOUS
    <2> HIDE DEF t
    <2>3. u * i = u * t + u * r /\ u * r >= 0 /\ u * t \in Nat
        BY <2>1, <2>2
    <2>4. u * t <= u * i
        BY <2>1, <2>2, <2>3
    <2> QED
        BY <2>4 DEF t
<1>8. i * s <= i * u
    BY <1>1, <1>3, <1>5, <1>6, <1>7
<1>9. ~ (u < s)
    <2>1. ASSUME u < s PROVE FALSE
        <3>1. u + 1 <= s /\ u + 1 \in Nat
            BY <1>4, <2>1
        <3>2. i * (u + 1) <= i * s
            BY <1>4, <3>1
        <3>3. i * (u + 1) = i * u + i
            OBVIOUS
        <3> QED
            BY <1>4, <1>8, <3>2, <3>3
    <2> QED
        BY <2>1
<1>10. s <= u
    BY <1>4, <1>9
<1> QED
    BY <1>3, <1>10 DEF q

\* The shares of Rates.
LEMMA SharesOfRates ==
    ASSUME NEW p, NEW s
    PROVE  /\ Rates(p, s).CPUBusy = Busy(p, s)
           /\ Rates(p, s).CPUIOWait = Share(p, s, "iowait")
           /\ Rates(p, s).CPUIdle = Share(p, s, "idle")
           /\ Rates(p, s).CPUUser = Share(p, s, "user") + Share(p, s, "nice")
           /\ Rates(p, s).CPUSystem = Share(p, s, "system")
           /\ Rates(p, s).CPUSteal = Share(p, s, "steal")
BY DEF Rates, IO

\* Between two readings of a steady CPU the shares partition the interval.
LEMMA SharesBetween ==
    ASSUME Steady, NEW m \in Moments, NEW p \in Moments, NEW i, NEW j,
           Derives(Reading(Shows(p), i), Reading(Shows(m), j))
    PROVE  LET r == Rates(Reading(Shows(p), i), Reading(Shows(m), j))
           IN  /\ r.CPUBusy >= 0
               /\ r.CPUBusy + r.CPUIOWait + r.CPUIdle = Unit
               /\ r.CPUUser + r.CPUSystem + r.CPUSteal <= r.CPUBusy
<1> DEFINE before == Reading(Shows(p), i)
           now == Reading(Shows(m), j)
           D(s) == now.cpu[s] - before.cpu[s]
<1>1. /\ before.cpu = parseCPU(Shows(p)) /\ now.cpu = parseCPU(Shows(m))
      /\ before.boot = Shows(p).boot /\ now.boot = Shows(m).boot
    BY DEF Reading
<1>2. \A s \in CPUStates : /\ now.cpu[s] \in Nat /\ before.cpu[s] \in Nat
                           /\ before.cpu[s] <= now.cpu[s]
    <2>1. now.boot = before.boot /\ Total(now.cpu) > Total(before.cpu)
        BY DEF Derives
    <2>2. \A s \in CPUStates : Shows(m).cpu[s] >= Shows(p).cpu[s]
        BY <1>1, <2>1 DEF Steady
    <2>3. \A s \in CPUStates : Shows(m).cpu[s] \in Nat /\ Shows(p).cpu[s] \in Nat
        BY KernelAssumption
    <2>4. \A s \in CPUStates : now.cpu[s] = Shows(m).cpu[s] /\ before.cpu[s] = Shows(p).cpu[s]
        BY <1>1 DEF parseCPU
    <2> HIDE DEF now, before
    <2> QED
        BY <2>2, <2>3, <2>4
<1>3. Total(now.cpu) > Total(before.cpu)
    BY DEF Derives
<1> HIDE DEF before, now
<1>4. \A s \in CPUStates : D(s) \in Nat
    BY <1>2
<1>5. Interval(before, now) = D("user") + D("nice") + D("system") + D("idle")
                                + D("iowait") + D("irq") + D("softirq") + D("steal")
    BY <1>2 DEF Interval, Total, CPUStates
<1>6. Interval(before, now) \in Nat \ {0}
    <2>1. Total(now.cpu) \in Nat /\ Total(before.cpu) \in Nat
        BY <1>2 DEF Total, CPUStates
    <2> QED
        BY <1>3, <2>1 DEF Interval
<1>7. \A s \in CPUStates : Share(before, now, s) = (Unit * D(s)) \div Interval(before, now)
    BY <1>2 DEF Share
<1> HIDE DEF D
<1>8. /\ D("user") \in Nat /\ D("nice") \in Nat /\ D("system") \in Nat /\ D("idle") \in Nat
      /\ D("iowait") \in Nat /\ D("irq") \in Nat /\ D("softirq") \in Nat /\ D("steal") \in Nat
    BY <1>4 DEF CPUStates
<1>9. D("user") + D("nice") + D("system") + D("idle") + D("iowait") + D("steal")
        <= Interval(before, now)
    BY <1>5, <1>8
<1>10. /\ \A s \in {"user", "nice", "system", "idle", "iowait", "steal"} :
              Share(before, now, s) \in Nat
       /\ Share(before, now, "user") + Share(before, now, "nice") + Share(before, now, "system")
            + Share(before, now, "idle") + Share(before, now, "iowait")
            + Share(before, now, "steal")
             <= Unit
    <2>1. Unit \in Nat
        BY UnitAssumption
    <2>2. \A s \in CPUStates : Share(before, now, s) \in Nat
        <3> TAKE s \in CPUStates
        <3> DEFINE x == Unit * D(s)
        <3>1. x \in Nat
            BY <1>4, <2>1
        <3> HIDE DEF x
        <3>2. x \div Interval(before, now) \in Nat
            BY <1>6, <3>1, DivMod
        <3> QED
            BY <1>7, <3>2 DEF x
    <2>3. (Unit * D("user")) \div Interval(before, now)
            + (Unit * D("nice")) \div Interval(before, now)
            + (Unit * D("system")) \div Interval(before, now)
            + (Unit * D("idle")) \div Interval(before, now)
            + (Unit * D("iowait")) \div Interval(before, now)
            + (Unit * D("steal")) \div Interval(before, now) <= Unit
        BY <1>6, <1>8, <1>9, <2>1, Floors
    <2> QED
        BY <1>7, <2>2, <2>3 DEF CPUStates
<1> DEFINE S(s) == Share(before, now, s)
<1>11. /\ S("user") \in Nat /\ S("nice") \in Nat /\ S("system") \in Nat
       /\ S("idle") \in Nat /\ S("iowait") \in Nat /\ S("steal") \in Nat
       /\ S("user") + S("nice") + S("system") + S("idle") + S("iowait") + S("steal") <= Unit
       /\ Busy(before, now) = Unit - S("idle") - S("iowait")
       /\ Unit \in Nat
    BY <1>10, UnitAssumption DEF Busy
<1> HIDE DEF S
<1>12. /\ Busy(before, now) >= 0
       /\ Busy(before, now) + S("iowait") + S("idle") = Unit
       /\ S("user") + S("nice") + S("system") + S("steal") <= Busy(before, now)
    BY <1>11
<1> QED
    BY <1>12, SharesOfRates DEF S, before, now

\* Busy, waiting and idle partition every interval that a window counts, as
\* long as the kernel's times do not fall.
THEOREM SharesAddUp == ASSUME Steady PROVE Spec => []SharesPartition
<1>1. Inv /\ Sampled => SharesPartition
    <2> SUFFICES ASSUME Inv, Sampled, NEW b \in closed, NEW n \in folded[b.win]
                 PROVE  LET r == Rates(read[n - 1], read[n])
                        IN  /\ r.CPUBusy >= 0
                            /\ r.CPUBusy + r.CPUIOWait + r.CPUIdle = Unit
                            /\ r.CPUUser + r.CPUSystem + r.CPUSteal <= r.CPUBusy
        BY DEF SharesPartition
    <2>1. n \in 1..taken /\ n - 1 \in 1..taken /\ Derives(read[n - 1], read[n])
        BY BothSampled
    <2>2. PICK j \in Instants : read[n] = Reading(Shows(seen[n]), j)
        BY <2>1 DEF Sampled
    <2>3. PICK i \in Instants : read[n - 1] = Reading(Shows(seen[n - 1]), i)
        BY <2>1 DEF Sampled
    <2>4. seen[n] \in Moments /\ seen[n - 1] \in Moments
        BY <2>1 DEF Sampled
    <2> QED
        BY <2>1, <2>2, <2>3, <2>4, SharesBetween
<1> QED
    BY <1>1, Invariance, AlwaysSampled, PTL


-----------------------------------------------------------------------------
(***************************************************************************)
(* Means, minima and maxima.                                               *)
(***************************************************************************)

\* The mean, moved by the new value's share of the distance, is the new mean.
LEMMA MeanMoves ==
    ASSUME NEW n \in Nat \ {0}, NEW a \in Int, NEW v \in Int,
           Multiple(a * n, n * (n + 1)), Multiple(v, n * (n + 1))
    PROVE  /\ a + (v - a) \div (n + 1) \in Int
           /\ (a + (v - a) \div (n + 1)) * (n + 1) = v + a * n
<1>1. PICK k \in Int : a * n = (n * (n + 1)) * k
    BY DEF Multiple
<1>2. PICK j \in Int : v = (n * (n + 1)) * j
    BY DEF Multiple
<1> DEFINE d == n + 1
           q == n * j - k
<1>3. d \in Nat \ {0} /\ q \in Int
    OBVIOUS
<1>4. a = d * k
    <2>1. n * a = n * (d * k)
        BY <1>1
    <2> QED
        BY <2>1, <1>3, Exactly
<1>5. v = d * (n * j)
    BY <1>2
<1>6. v - a = d * q
    BY <1>4, <1>5
<1>7. (v - a) \div d = q
    BY <1>3, <1>6, Exactly
<1>8. (a + q) * d = v + a * n
    <2>1. (a + q) * d = a * d + d * q
        BY <1>3
    <2>2. a * d = a * n + a
        OBVIOUS
    <2> HIDE DEF d, q
    <2>3. a * d \in Int /\ a * n \in Int
        BY <1>3
    <2> QED
        BY <1>6, <2>1, <2>2, <2>3
<1> HIDE DEF d, q
<1>9. /\ a + (v - a) \div d \in Int
      /\ (a + (v - a) \div d) * d = v + a * n
    BY <1>3, <1>7, <1>8
<1> QED
    BY <1>9 DEF d

\* st is the statistic of the values that f has on F.
StatOf(st, F, f) ==
    /\ st.N = Cardinality(F)
    /\ st.Avg \in Int /\ st.Avg * st.N = SumOver(f, F)
    /\ F # {} =>
          /\ \E n \in F : st.Min = f[n]
          /\ \E n \in F : st.Max = f[n]
          /\ \A n \in F : st.Min <= f[n] /\ f[n] <= st.Max

LEMMA StatGrows ==
    ASSUME NEW F, NEW x, x \notin F, NEW f, Summable(f, F \cup {x}), NEW st, StatOf(st, F, f),
           F # {} => \A n \in F \cup {x} :
                        Multiple(f[n], Cardinality(F) * (Cardinality(F) + 1))
    PROVE  StatOf(StatAdd(st, f[x]), F \cup {x}, f)
<1> DEFINE c == Cardinality(F)
           new == StatAdd(st, f[x])
<1>1. Summable(f, F) /\ IsFiniteSet(F) /\ \A n \in F \cup {x} : f[n] \in Int
    BY FS_Subset DEF Summable
<1>2. c \in Nat /\ (c = 0 <=> F = {})
    BY <1>1, FS_CardinalityType, FS_EmptySet
<1>3. Cardinality(F \cup {x}) = c + 1
    BY <1>1, FS_AddElement
<1>4. SumOver(f, F \cup {x}) = f[x] + SumOver(f, F)
    BY SumAdd
<1>5. /\ new.N = st.N + 1
      /\ new.Avg = st.Avg + (f[x] - st.Avg) \div (st.N + 1)
      /\ new.Min = IF st.N = 0 THEN f[x] ELSE Min({st.Min, f[x]})
      /\ new.Max = IF st.N = 0 THEN f[x] ELSE Max({st.Max, f[x]})
    BY DEF StatAdd
<1> HIDE DEF new
<1>6. st.N = c /\ st.Avg \in Int /\ st.Avg * c = SumOver(f, F) /\ f[x] \in Int
    BY <1>1 DEF StatOf
<1>7. new.Avg \in Int /\ new.Avg * new.N = SumOver(f, F \cup {x})
    <2>1. CASE F = {}
        <3>1. c = 0 /\ SumOver(f, F) = 0
            BY <1>2, <2>1, SumEmpty
        <3>2. (f[x] - st.Avg) \div 1 = f[x] - st.Avg
            BY <1>6
        <3>3. new.Avg = f[x] /\ new.N = 1
            BY <1>5, <1>6, <3>1, <3>2
        <3> QED
            BY <1>4, <1>6, <3>1, <3>3
    <2>2. CASE F # {}
        <3>1. c \in Nat \ {0}
            BY <1>2, <2>2
        <3>2. \A n \in F \cup {x} : Multiple(f[n], c * (c + 1))
            BY <2>2
        <3>3. Multiple(SumOver(f, F), c * (c + 1))
            <4> DEFINE d == c * (c + 1)
            <4>1. d \in Nat \ {0}
                BY <3>1
            <4>2. \A n \in F : Multiple(f[n], d)
                BY <3>2
            <4> HIDE DEF d
            <4>3. Multiple(SumOver(f, F), d)
                BY <1>1, <4>1, <4>2, SumMultiple
            <4> QED
                BY <4>3 DEF d
        <3> HIDE DEF c
        <3>4. Multiple(st.Avg * c, c * (c + 1)) /\ Multiple(f[x], c * (c + 1))
            BY <1>6, <3>2, <3>3
        <3>5. /\ st.Avg + (f[x] - st.Avg) \div (c + 1) \in Int
              /\ (st.Avg + (f[x] - st.Avg) \div (c + 1)) * (c + 1) = f[x] + st.Avg * c
            BY <1>6, <3>1, <3>4, MeanMoves
        <3> QED
            BY <1>4, <1>5, <1>6, <3>5
    <2> QED
        BY <2>1, <2>2
<1>8. /\ \E n \in F \cup {x} : new.Min = f[n]
      /\ \E n \in F \cup {x} : new.Max = f[n]
      /\ \A n \in F \cup {x} : new.Min <= f[n] /\ f[n] <= new.Max
    <2>1. CASE F = {}
        <3>1. new.Min = f[x] /\ new.Max = f[x]
            BY <1>2, <1>5, <1>6, <2>1
        <3> QED
            BY <1>6, <2>1, <3>1
    <2>2. CASE F # {}
        <3>1. PICK l \in F, g \in F : st.Min = f[l] /\ st.Max = f[g]
            BY <2>2 DEF StatOf
        <3>2. st.Min \in Int /\ st.Max \in Int
            BY <1>1, <3>1
        <3>3. st.N # 0
            BY <1>2, <1>6, <2>2
        <3>4. new.Min = IF st.Min <= f[x] THEN st.Min ELSE f[x]
            BY <1>5, <1>6, <3>2, <3>3, MinOfTwo
        <3>5. new.Max = IF st.Max >= f[x] THEN st.Max ELSE f[x]
            BY <1>5, <1>6, <3>2, <3>3, MaxOfTwo
        <3>6. ASSUME NEW n \in F \cup {x} PROVE new.Min <= f[n] /\ f[n] <= new.Max
            <4>1. f[n] \in Int /\ (n \in F => st.Min <= f[n] /\ f[n] <= st.Max)
                BY <1>1 DEF StatOf
            <4> QED
                BY <1>6, <3>2, <3>4, <3>5, <4>1
        <3> QED
            BY <3>1, <3>4, <3>5, <3>6
    <2> QED
        BY <2>1, <2>2
<1>9. new.N = Cardinality(F \cup {x}) /\ F \cup {x} # {}
    BY <1>3, <1>5, <1>6
<1> QED
    BY <1>7, <1>8, <1>9 DEF StatOf, new

\* A statistic is of the values on F alone.
LEMMA StatSame ==
    ASSUME NEW F, NEW f, NEW g, Summable(f, F), \A n \in F : f[n] = g[n],
           NEW st, StatOf(st, F, f)
    PROVE  StatOf(st, F, g)
<1>1. Summable(g, F)
    BY DEF Summable
<1>2. SumOver(f, F) = SumOver(g, F)
    BY <1>1, SumSame
<1> QED
    BY <1>2 DEF StatOf

-----------------------------------------------------------------------------
(***************************************************************************)
(* What a window reports.                                                  *)
(***************************************************************************)

RatesAt(rd, n) == Rates(rd[n - 1], rd[n])

\* The report is about the readings F of rd.
About(rd, report, F) ==
    /\ report.Samples = Cardinality(F)
    /\ \A n \in F : report.BootID = rd[n].boot
    /\ F # {} => \A c \in IO : report.Counters[c] = rd[Max(F)].io[c]
    /\ \A m \in Metrics : StatOf(report.Stats[m], F, [n \in F |-> RatesAt(rd, n)[m]])

LEMMA AboutNothing == ASSUME NEW rd PROVE About(rd, NoBucket, {})
<1>1. ASSUME NEW m \in Metrics
      PROVE  StatOf(NoBucket.Stats[m], {}, [n \in {} |-> RatesAt(rd, n)[m]])
    <2>1. SumOver([n \in {} |-> RatesAt(rd, n)[m]], {}) = 0
        BY SumEmpty
    <2>2. NoBucket.Stats[m] = [Min |-> 0, Avg |-> 0, Max |-> 0, N |-> 0]
        BY DEF NoBucket, NoStat
    <2> QED
        BY <2>1, <2>2, FS_EmptySet DEF StatOf
<1> QED
    BY <1>1, FS_EmptySet DEF About, NoBucket

\* Later readings do not change what a report is about.
LEMMA AboutSame ==
    ASSUME NEW rd, NEW rd2, NEW report, NEW F \in SUBSET (Nat \ {0}), IsFiniteSet(F),
           \A n \in F : rd2[n] = rd[n] /\ rd2[n - 1] = rd[n - 1],
           About(rd, report, F)
    PROVE  About(rd2, report, F)
<1>1. \A m \in Metrics : [n \in F |-> RatesAt(rd, n)[m]] = [n \in F |-> RatesAt(rd2, n)[m]]
    BY DEF RatesAt
<1>2. F # {} => Max(F) \in F
    <2>1. F \in SUBSET Int
        OBVIOUS
    <2> QED
        BY <2>1, Greatest
<1> QED
    BY <1>1, <1>2 DEF About

\* One more reading, later than the others and of the same boot.
LEMMA AboutMore ==
    ASSUME NEW rd, NEW report, NEW F \in SUBSET Nat, IsFiniteSet(F), NEW x \in Nat,
           \A n \in F : n < x /\ rd[n].boot = rd[x].boot,
           \A n \in F \cup {x}, m \in Metrics :
               /\ RatesAt(rd, n)[m] \in Int
               /\ F # {} => Multiple(RatesAt(rd, n)[m], Cardinality(F) * (Cardinality(F) + 1)),
           About(rd, report, F)
    PROVE  About(rd, BucketAdd(report, RatesAt(rd, x), rd[x]), F \cup {x})
<1> DEFINE G == F \cup {x}
           new == BucketAdd(report, RatesAt(rd, x), rd[x])
<1>1. x \notin F /\ IsFiniteSet(G) /\ Cardinality(G) = Cardinality(F) + 1
    BY FS_AddElement
<1>2. /\ new.Samples = report.Samples + 1 /\ new.BootID = rd[x].boot
      /\ \A c \in IO : new.Counters[c] = rd[x].io[c]
      /\ \A m \in Metrics : new.Stats[m] = StatAdd(report.Stats[m], RatesAt(rd, x)[m])
    BY DEF BucketAdd, IO
<1> HIDE DEF new
<1>3. Max(G) = x
    <2>1. G \in SUBSET Int /\ x \in G /\ \A n \in G : x >= n
        OBVIOUS
    <2> HIDE DEF G
    <2> QED
        BY <2>1, MaxIs
<1>4. ASSUME NEW m \in Metrics
      PROVE  StatOf(new.Stats[m], G, [n \in G |-> RatesAt(rd, n)[m]])
    <2> DEFINE f == [n \in F |-> RatesAt(rd, n)[m]]
               g == [n \in G |-> RatesAt(rd, n)[m]]
    <2>1. /\ Summable(f, F) /\ Summable(g, G)
          /\ \A n \in F : f[n] = g[n]
          /\ g[x] = RatesAt(rd, x)[m]
        BY <1>1 DEF Summable
    <2>2. F # {} => \A n \in F \cup {x} :
                        Multiple(g[n], Cardinality(F) * (Cardinality(F) + 1))
        OBVIOUS
    <2>3. StatOf(report.Stats[m], F, f)
        BY DEF About
    <2> HIDE DEF f, g
    <2>4. StatOf(report.Stats[m], F, g)
        BY <2>1, <2>3, StatSame
    <2>5. StatOf(StatAdd(report.Stats[m], g[x]), F \cup {x}, g)
        BY <1>1, <2>1, <2>2, <2>4, StatGrows
    <2> QED
        BY <1>2, <2>1, <2>5 DEF g
<1>5. new.Samples = Cardinality(G)
    BY <1>1, <1>2 DEF About
<1>6. \A n \in G : new.BootID = rd[n].boot
    BY <1>2
<1> QED
    BY <1>2, <1>3, <1>4, <1>5, <1>6 DEF About, new

-----------------------------------------------------------------------------
(***************************************************************************)
(* The rates are whole numbers, and their means are exact.                 *)
(***************************************************************************)

\* What the files of the kernel add up to.
LEMMA ReadingTypes ==
    ASSUME NEW m \in Moments, NEW i \in Instants
    PROVE  LET s == Reading(Shows(m), i)
           IN  /\ s.at \in Nat
               /\ \A c \in CPUStates : s.cpu[c] \in Nat
               /\ \A c \in IO : s.io[c] \in Int
               /\ s.mem.Total \in Nat /\ s.mem.Available \in Nat /\ s.load.One \in Nat
<1> DEFINE k == Shows(m)
           s == Reading(k, i)
<1>1. /\ s.at = i /\ s.cpu = parseCPU(k) /\ s.mem = parseMemory(k) /\ s.load = parseLoad(k)
      /\ s.io = [c \in IO |-> IF c \in {"NetRx", "NetTx"} THEN parseNet(k, c)
                                                         ELSE parseDiskIO(k, c)]
    BY DEF Reading
<1>2. /\ \A c \in CPUStates : k.cpu[c] \in Nat
      /\ {"Total", "Available"} \subseteq DOMAIN k.mem
      /\ {k.mem["Total"], k.mem["Available"], k.load[1]} \subseteq Nat
      /\ IsFiniteSet(DOMAIN k.nets) /\ IsFiniteSet(DOMAIN k.disks)
      /\ \A d \in DOMAIN k.nets : k.nets[d]["NetRx"] \in Nat /\ k.nets[d]["NetTx"] \in Nat
      /\ \A d \in DOMAIN k.disks :
            k.disks[d]["DiskRead"] \in Nat /\ k.disks[d]["DiskWrite"] \in Nat
    BY KernelAssumption
<1> HIDE DEF k, s
<1>3. s.at \in Nat
    BY <1>1, SamplingAssumption
<1>4. \A c \in CPUStates : s.cpu[c] \in Nat
    BY <1>1, <1>2 DEF parseCPU
<1>5. s.mem.Total \in Nat /\ s.mem.Available \in Nat
    <2>1. /\ s.mem["Total"] = 1024 * k.mem["Total"]
          /\ s.mem["Available"] = 1024 * k.mem["Available"]
        BY <1>1, <1>2 DEF parseMemory
    <2>2. k.mem["Total"] \in Nat /\ k.mem["Available"] \in Nat
        BY <1>2
    <2> QED
        BY <2>1, <2>2
<1>6. s.load.One \in Nat
    BY <1>1, <1>2 DEF parseLoad
<1>7. ASSUME NEW c \in {"NetRx", "NetTx"} PROVE parseNet(k, c) \in Int
    <2> DEFINE f == [d \in Physical(k) |-> k.nets[d][c]]
    <2>1. IsFiniteSet(Physical(k)) /\ Physical(k) \subseteq DOMAIN k.nets
        BY <1>2, FS_Subset DEF Physical
    <2>2. Summable(f, Physical(k))
        BY <1>2, <2>1 DEF Summable
    <2> HIDE DEF f
    <2>3. SumOver(f, Physical(k)) \in Int
        BY <2>2, SumType
    <2> QED
        BY <2>3 DEF parseNet, f
<1>8. ASSUME NEW c \in {"DiskRead", "DiskWrite"} PROVE parseDiskIO(k, c) \in Int
    <2> DEFINE f == [d \in Whole(k) |-> SectorSize * k.disks[d][c]]
    <2>1. IsFiniteSet(Whole(k)) /\ Whole(k) \subseteq DOMAIN k.disks
        BY <1>2, FS_Subset DEF Whole
    <2>2. Summable(f, Whole(k))
        BY <1>2, <2>1 DEF Summable, SectorSize
    <2> HIDE DEF f
    <2>3. SumOver(f, Whole(k)) \in Int
        BY <2>2, SumType
    <2> QED
        BY <2>3 DEF parseDiskIO, f
<1>9. \A c \in IO : s.io[c] \in Int
    BY <1>1, <1>7, <1>8 DEF IO
<1> QED
    BY <1>3, <1>4, <1>5, <1>6, <1>9 DEF s, k

LEMMA RatesTypes ==
    ASSUME NEW m \in Moments, NEW p \in Moments, NEW i \in Instants, NEW j \in Instants,
           Derives(Reading(Shows(p), i), Reading(Shows(m), j))
    PROVE  \A x \in Metrics : Rates(Reading(Shows(p), i), Reading(Shows(m), j))[x] \in Int
<1> DEFINE before == Reading(Shows(p), i)
           now == Reading(Shows(m), j)
<1>1. /\ now.at \in Nat /\ before.at \in Nat
      /\ \A c \in CPUStates : now.cpu[c] \in Nat /\ before.cpu[c] \in Nat
      /\ \A c \in IO : now.io[c] \in Int /\ before.io[c] \in Int
      /\ now.mem.Total \in Nat /\ now.mem.Available \in Nat /\ now.load.One \in Nat
    BY ReadingTypes
<1>2. now.at > before.at /\ Total(now.cpu) > Total(before.cpu)
    BY DEF Derives
<1> HIDE DEF now, before
<1>3. Unit \in Nat
    BY UnitAssumption
<1>4. Interval(before, now) \in Nat \ {0}
    <2>1. Total(now.cpu) \in Nat /\ Total(before.cpu) \in Nat
        BY <1>1 DEF Total, CPUStates
    <2> QED
        BY <1>2, <2>1 DEF Interval
<1>5. \A c \in CPUStates : Share(before, now, c) \in Int
    <2> TAKE c \in CPUStates
    <2> DEFINE x == Unit * (now.cpu[c] - before.cpu[c])
    <2>1. x \in Int
        BY <1>1, <1>3
    <2> HIDE DEF x
    <2>2. x \div Interval(before, now) \in Int
        BY <1>4, <2>1, QuotientType
    <2> QED
        BY <2>2 DEF Share, x
<1>6. \A c \in IO : Rate(before, now, c) \in Int
    <2> TAKE c \in IO
    <2> DEFINE x == Unit * (now.io[c] - before.io[c])
               d == now.at - before.at
    <2>1. x \in Int /\ d \in Nat \ {0}
        BY <1>1, <1>2, <1>3
    <2> HIDE DEF x, d
    <2>2. x \div d \in Int
        BY <2>1, QuotientType
    <2> QED
        BY <2>2 DEF Rate, x, d
<1>7. Busy(before, now) \in Int
    BY <1>3, <1>5 DEF Busy, CPUStates
<1>8. SaturatingSub(now.mem.Total, now.mem.Available) \in Int
    BY <1>1 DEF SaturatingSub
<1>9. ASSUME NEW x \in Metrics PROVE Rates(before, now)[x] \in Int
    <2>1. CASE x \in IO
        <3>1. Rates(before, now)[x] = Rate(before, now, x)
            BY <2>1 DEF Rates
        <3> QED
            BY <1>6, <2>1, <3>1
    <2>2. CASE x \in Metrics \ IO
        <3>1. /\ Rates(before, now)["CPUBusy"] = Busy(before, now)
              /\ Rates(before, now)["CPUIOWait"] = Share(before, now, "iowait")
              /\ Rates(before, now)["CPUSteal"] = Share(before, now, "steal")
              /\ Rates(before, now)["CPUUser"]
                    = Share(before, now, "user") + Share(before, now, "nice")
              /\ Rates(before, now)["CPUSystem"] = Share(before, now, "system")
              /\ Rates(before, now)["MemUsed"]
                    = Unit * SaturatingSub(now.mem.Total, now.mem.Available)
              /\ Rates(before, now)["Load1"] = Unit * now.load.One
            BY DEF Rates, IO
        <3>2. Unit * SaturatingSub(now.mem.Total, now.mem.Available) \in Int
            BY <1>3, <1>8
        <3>3. Unit * now.load.One \in Int
            BY <1>1, <1>3
        <3>4. /\ Share(before, now, "iowait") \in Int /\ Share(before, now, "steal") \in Int
              /\ Share(before, now, "user") \in Int /\ Share(before, now, "nice") \in Int
              /\ Share(before, now, "system") \in Int
            BY <1>5 DEF CPUStates
        <3>5. Share(before, now, "user") + Share(before, now, "nice") \in Int
            BY <3>4
        <3>6. x \in {"CPUBusy", "CPUIOWait", "CPUSteal", "CPUUser", "CPUSystem",
                     "MemUsed", "Load1"}
            BY <2>2 DEF Metrics
        <3> QED
            BY <1>7, <3>1, <3>2, <3>3, <3>4, <3>5, <3>6
    <2> QED
        BY <2>1, <2>2
<1> QED
    BY <1>9 DEF before, now

-----------------------------------------------------------------------------
(***************************************************************************)
(* Every window's report is about its readings.                            *)
(***************************************************************************)

Reported ==
    /\ contents = [n \in Readings |-> contents[n]]
    /\ \A n \in Readings : n > taken => contents[n] = NoBucket
    /\ \A b \in AllWindows :
          folded[b.win] # {} /\ About(read, contents[b.win], folded[b.win])

\* The new reading is folded into the window that w opened.
FoldsInto(w, s) ==
    /\ taken > 0 /\ Derives(read[taken], s) /\ w \in Readings
    /\ w = taken + 1 \/ (taken \in folded[w] /\ \E b \in AllWindows : b.win = w)
    /\ \A b \in AllWindows' : b.win = w \/ b \in AllWindows
    /\ \E b \in AllWindows' : b.win = w
    /\ folded' = [folded EXCEPT ![w] = @ \cup {taken + 1}]
    /\ contents' = [contents EXCEPT ![w] = BucketAdd(@, Rates(read[taken], s), s)]

LEMMA ReportCases ==
    ASSUME Inv, NEW m, NEW s, s.at \in Nat, Sample(m, s)
    PROVE  \/ AllWindows' = AllWindows /\ folded' = folded /\ contents' = contents
           \/ \E w \in Readings : FoldsInto(w, s)
<1>1. /\ taken + 1 \in Readings
      /\ \/ Breaks
         \/ Agg!Rated(s) /\ \E c \in current : Joins(c, s)
         \/ Agg!Rated(s) /\ OpensOne(s)
    BY SampleCases
<1> USE DEF Inv, Types
<1>2. CASE ~Agg!Rated(s)
    BY <1>1, <1>2 DEF Breaks, Sample
<1>3. CASE Agg!Rated(s) /\ ~Breaks
    <2>1. taken > 0 /\ prev = {read[taken]} /\ Derives(read[taken], s)
        BY <1>3 DEF Agg!Rated, Last
    <2>2. PICK b \in current' :
              contents' = [contents EXCEPT ![b.win] = BucketAdd(@, Rates(read[taken], s), s)]
        BY <1>3, <2>1 DEF Sample
    <2>3. ASSUME NEW c \in current, Joins(c, s) PROVE FoldsInto(c.win, s)
        <3>1. current = {c} /\ taken \in folded[c.win]
            BY DEF InProgress
        <3>2. b.win = c.win
            BY <2>2, <2>3, <3>1 DEF Joins
        <3>3. c.win \in Readings
            BY <1>1, SamplingAssumption DEF Readings
        <3>4. (\E d \in AllWindows : d.win = c.win) /\ AllWindows' = AllWindows
            BY <2>3, Stamped DEF Joins
        <3> QED
            BY <2>1, <2>2, <2>3, <3>1, <3>2, <3>3, <3>4 DEF FoldsInto, Joins
    <2>4. ASSUME OpensOne(s) PROVE FoldsInto(taken + 1, s)
        <3>1. b.win = taken + 1
            BY <2>2, <2>4 DEF OpensOne
        <3>2. folded' = [folded EXCEPT ![taken + 1] = @ \cup {taken + 1}]
            <4>1. folded[taken + 1] = {}
                BY <1>1 DEF Identities
            <4> QED
                BY <1>1, <2>4, <4>1 DEF OpensOne
        <3>3. /\ \A d \in AllWindows' : d.win = taken + 1 \/ d \in AllWindows
              /\ \E d \in AllWindows' : d.win = taken + 1
            <4>1. Opened(s).win = taken + 1
                BY DEF Opened
            <4>2. AllWindows' = AllWindows \cup {Opened(s)}
                BY <2>4 DEF OpensOne
            <4> QED
                BY <4>1, <4>2
        <3> QED
            BY <1>1, <2>1, <2>2, <3>1, <3>2, <3>3 DEF FoldsInto
    <2>5. \A w : FoldsInto(w, s) => w \in Readings
        BY DEF FoldsInto
    <2>6. \E w : FoldsInto(w, s)
        <3>1. CASE \E c \in current : Joins(c, s)
            BY <2>3, <3>1
        <3>2. CASE OpensOne(s)
            BY <2>4, <3>2
        <3> QED
            BY <1>1, <1>3, <3>1, <3>2
    <2> QED
        BY <2>5, <2>6
<1>4. ~(Agg!Rated(s) /\ Breaks)
    <2>1. Agg!Rated(s) => unrated' = unrated
        BY DEF Sample
    <2>2. Breaks => taken + 1 \in unrated'
        BY DEF Breaks
    <2>3. taken + 1 \notin unrated
        OBVIOUS
    <2> QED
        BY <2>1, <2>2, <2>3
<1> QED
    BY <1>2, <1>3, <1>4

\* The reading that comes after a window's was rated against its last one, in
\* the same boot; with it there are not too many for exact means.
LEMMA FoldedInto ==
    ASSUME UnitSuffices, Inv, Sampled, Reported, Sampled', RatedAgainstLast',
           NEW m, NEW s, s.at \in Nat, Sample(m, s), NEW w, FoldsInto(w, s)
    PROVE  About(read', contents'[w], folded'[w])
<1> DEFINE F == folded[w]
           x == taken + 1
<1> USE DEF Inv, Types
<1>1. /\ x \in Readings /\ taken' = x /\ taken \in Nat \ {0} /\ w \in Readings
      /\ read'[x] = s /\ \A n \in 1..taken : read'[n] = read[n]
      /\ Derives(read[taken], s)
    BY SampleCases DEF FoldsInto
<1>2. F \in SUBSET (1..taken) /\ IsFiniteSet(F)
    <2>1. F \in SUBSET (1..taken) /\ IsFiniteSet(1..taken)
        BY <1>1, FS_Interval
    <2> QED
        BY <2>1, FS_Subset
<1>3. /\ folded'[w] = F \cup {x}
      /\ contents'[w] = BucketAdd(contents[w], RatesAt(read', x), read'[x])
    <2>1. read'[x - 1] = read[taken]
        BY <1>1
    <2>2. contents'[w] = BucketAdd(contents[w], Rates(read[taken], s), s)
        BY <1>1 DEF FoldsInto, Reported
    <2> QED
        BY <1>1, <2>1, <2>2 DEF FoldsInto, RatesAt
<1>4. \A n \in F \cup {x} : n > 1 /\ Derives(read'[n - 1], read'[n])
    <2>1. PICK b \in AllWindows' : b.win = w
        BY DEF FoldsInto
    <2> QED
        BY <1>3, <2>1 DEF RatedAgainstLast
<1>5. \A n \in 1..x : \E p \in Moments, i \in Instants : read'[n] = Reading(Shows(p), i)
    BY <1>1 DEF Sampled
<1>6. F # {} => Cardinality(F) \in 1..(MaxReadings - 2)
    <2>1. F \subseteq 2..taken /\ IsFiniteSet(2..taken)
        BY <1>2, <1>4, FS_Interval
    <2>2. Cardinality(2..taken) = IF 2 > taken THEN 0 ELSE taken - 2 + 1
        <3>1. 2 \in Int /\ taken \in Int
            BY <1>1
        <3> QED
            BY <3>1, FS_Interval, Zenon
    <2>3. Cardinality(F) <= Cardinality(2..taken) /\ Cardinality(F) \in Nat
        BY <1>2, <2>1, FS_Subset, FS_CardinalityType
    <2>4. F # {} => Cardinality(F) # 0
        BY <1>2, FS_EmptySet
    <2>5. x <= MaxReadings /\ MaxReadings \in Nat
        BY <1>1, SamplingAssumption DEF Readings
    <2> HIDE DEF F
    <2> QED
        BY <1>1, <2>2, <2>3, <2>4, <2>5
<1>7. ASSUME NEW n \in F \cup {x}, NEW k \in Metrics
      PROVE  /\ RatesAt(read', n)[k] \in Int
             /\ F # {} => Multiple(RatesAt(read', n)[k], Cardinality(F) * (Cardinality(F) + 1))
    <2>1. n \in 1..x /\ n - 1 \in 1..x /\ Derives(read'[n - 1], read'[n])
        BY <1>1, <1>2, <1>4
    <2>2. PICK p \in Moments, q \in Moments, i \in Instants, j \in Instants :
              read'[n - 1] = Reading(Shows(p), i) /\ read'[n] = Reading(Shows(q), j)
        BY <1>5, <2>1
    <2>3. RatesAt(read', n)[k] \in Int
        BY <2>1, <2>2, RatesTypes DEF RatesAt
    <2>4. F # {} => RatesAt(read', n)[k] % (Cardinality(F) * (Cardinality(F) + 1)) = 0
        BY <1>6, <2>1, <2>2 DEF UnitSuffices, RatesAt
    <2>5. F # {} => Cardinality(F) * (Cardinality(F) + 1) \in Nat \ {0}
        BY <1>6
    <2> QED
        BY <2>3, <2>4, <2>5, Divisible
<1>8. \A n \in F : n < x /\ read'[n].boot = read'[x].boot
    <2>1. ASSUME NEW n \in F PROVE read'[n].boot = read'[x].boot
        <3>1. taken \in F /\ \E b \in AllWindows : b.win = w
            BY <1>1, <1>2 DEF FoldsInto, Identities
        <3>2. contents[w].BootID = read[n].boot /\ contents[w].BootID = read[taken].boot
            BY <3>1 DEF Reported, About
        <3>3. read[taken].boot = s.boot
            BY <1>1 DEF Derives
        <3> QED
            BY <1>1, <1>2, <3>1, <3>2, <3>3
    <2> QED
        BY <1>1, <1>2, <2>1
<1>9. About(read, contents[w], F)
    <2>1. CASE w = taken + 1
        <3>1. F = {} /\ contents[w] = NoBucket
            BY <1>1, <2>1 DEF Identities, Reported
        <3> QED
            BY <3>1, AboutNothing
    <2>2. CASE \E b \in AllWindows : b.win = w
        BY <2>2 DEF Reported
    <2> QED
        BY <2>1, <2>2 DEF FoldsInto
<1>10. About(read', contents[w], F)
    <2>1. \A n \in F : n \in 1..taken /\ n - 1 \in 1..taken
        BY <1>2, <1>4
    <2>2. \A n \in F : read'[n] = read[n] /\ read'[n - 1] = read[n - 1]
        BY <1>1, <2>1
    <2>3. F \in SUBSET (Nat \ {0})
        BY <1>2
    <2> HIDE DEF F
    <2> QED
        BY <1>2, <1>9, <2>2, <2>3, AboutSame
<1>11. About(read', BucketAdd(contents[w], RatesAt(read', x), read'[x]), F \cup {x})
    <2>1. F \in SUBSET Nat /\ x \in Nat
        BY <1>1, <1>2
    <2> HIDE DEF F, x
    <2> QED
        BY <1>2, <1>7, <1>8, <1>10, <2>1, AboutMore
<1> QED
    BY <1>3, <1>11

LEMMA ReportedStep ==
    ASSUME UnitSuffices, Inv, Sampled, Reported, [Next]_vars, Sampled', RatedAgainstLast'
    PROVE  Reported'
<1> USE DEF Inv, Types
<1>0. /\ \A b \in AllWindows : b.win \in 1..taken /\ b.win \in Readings
                                 /\ folded[b.win] \in SUBSET (1..taken)
      /\ taken \in Nat
    <2>1. \A n \in 1..taken : n \in Readings
        BY SamplingAssumption DEF Readings
    <2> QED
        BY <2>1, WindowType
\* The windows keep what is in them; at most there are more readings.
<1>1. ASSUME NEW b \in AllWindows, contents'[b.win] = contents[b.win],
             folded'[b.win] = folded[b.win], \A n \in 1..taken : read'[n] = read[n]
      PROVE  folded'[b.win] # {} /\ About(read', contents'[b.win], folded'[b.win])
    <2> DEFINE F == folded[b.win]
    <2>1. F \in SUBSET (1..taken) /\ F # {} /\ About(read, contents[b.win], F)
        BY <1>0 DEF Reported
    <2>2. IsFiniteSet(F)
        BY <1>0, <2>1, FS_Interval, FS_Subset
    <2>3. \A n \in F : n > 1
        BY DEF RatedAgainstLast
    <2> HIDE DEF F
    <2>4. \A n \in F : n \in 1..taken /\ n - 1 \in 1..taken
        BY <1>0, <2>1, <2>3
    <2>5. \A n \in F : read'[n] = read[n] /\ read'[n - 1] = read[n - 1]
        BY <1>1, <2>4
    <2>6. F \in SUBSET (Nat \ {0})
        BY <2>1
    <2>7. About(read', contents[b.win], F)
        BY <2>1, <2>2, <2>5, <2>6, AboutSame
    <2> QED
        BY <1>1, <2>1, <2>7 DEF F
<1>2. ASSUME NEW m \in Moments, NEW at \in Instants, NEW broken,
             NEW s \in Collect(Shows(m), at, broken), Sample(m, s)
      PROVE  Reported'
    <2>1. s.at \in Nat
        BY Collected
    <2>2. /\ taken + 1 \in Readings /\ taken' = taken + 1
          /\ \A n \in 1..taken : read'[n] = read[n]
        BY <1>2, <2>1, SampleCases
    <2>3. CASE AllWindows' = AllWindows /\ folded' = folded /\ contents' = contents
        <3>1. \A b \in AllWindows' :
                  folded'[b.win] # {} /\ About(read', contents'[b.win], folded'[b.win])
            BY <1>1, <2>2, <2>3
        <3>2. /\ contents' = [n \in Readings |-> contents'[n]]
              /\ \A n \in Readings : n > taken' => contents'[n] = NoBucket
            BY <1>0, <2>2, <2>3 DEF Reported, Readings
        <3> QED
            BY <3>1, <3>2 DEF Reported
    <2>4. ASSUME NEW w \in Readings, FoldsInto(w, s) PROVE Reported'
        <3>1. /\ folded' = [folded EXCEPT ![w] = @ \cup {taken + 1}]
              /\ contents' = [contents EXCEPT ![w] = BucketAdd(@, Rates(read[taken], s), s)]
              /\ w <= taken + 1
              /\ \A b \in AllWindows' : b.win = w \/ b \in AllWindows
            BY <1>0, <2>2, <2>4 DEF FoldsInto
        <3>2. About(read', contents'[w], folded'[w]) /\ folded'[w] # {}
            BY <1>2, <2>1, <2>4, <3>1, FoldedInto
        <3>3. ASSUME NEW b \in AllWindows'
              PROVE  folded'[b.win] # {} /\ About(read', contents'[b.win], folded'[b.win])
            <4>1. CASE b.win = w
                BY <3>2, <4>1
            <4>2. CASE b.win # w
                <5>1. b \in AllWindows
                    BY <3>1, <4>2
                <5>2. folded'[b.win] = folded[b.win] /\ contents'[b.win] = contents[b.win]
                    BY <1>0, <3>1, <4>2, <5>1 DEF Reported
                <5> QED
                    BY <1>1, <2>2, <5>1, <5>2
            <4> QED
                BY <4>1, <4>2
        <3>4. \A n \in Readings : n > taken' => contents'[n] = NoBucket
            <4>1. \A n \in Readings : n > taken' => n > taken /\ n # w
                BY <1>0, <2>2, <3>1 DEF Readings
            <4> QED
                BY <3>1, <4>1 DEF Reported
        <3>5. contents' = [n \in Readings |-> contents'[n]]
            BY <3>1 DEF Reported
        <3> QED
            BY <3>3, <3>4, <3>5 DEF Reported
    <2> QED
        BY <1>2, <2>1, <2>3, <2>4, ReportCases
<1>3. CASE (\E w \in Widths : Reconfigure(w)) \/ Stop \/ UNCHANGED vars
    <2>1. UNCHANGED <<taken, read, folded, contents>>
        BY <1>3 DEF Reconfigure, Stop, vars
    <2>2. AllWindows' = AllWindows
        BY <1>3 DEF Reconfigure, Stop, vars, AllWindows, Stamp, Agg!Fresh, Agg!Flush
    <2> QED
        BY <2>1, <2>2 DEF Reported
<1> QED
    BY <1>2, <1>3 DEF Next

LEMMA AlwaysReported == ASSUME UnitSuffices PROVE Spec => []Reported
<1>1. Init => Reported
    <2> SUFFICES ASSUME Init PROVE Reported
        OBVIOUS
    <2>1. AllWindows = {}
        BY DEF Init, AllWindows, Stamp
    <2> QED
        BY <2>1 DEF Init, Reported
<1>2. Inv' => RatedAgainstLast'
    BY DEF Inv
<1> QED
    BY <1>1, <1>2, ReportedStep, Invariance, AlwaysSampled, PTL DEF Spec

\* What a window that is handed on reports is about exactly its readings
\* (Bucket.add, Stat.Add, Aggregator.Add).
THEOREM ReportsAreTrue == ASSUME UnitSuffices PROVE Spec => []WindowReports
<1>1. Inv /\ Sampled /\ Reported => WindowReports
    <2> SUFFICES ASSUME Inv, Sampled, Reported, NEW b \in closed
                 PROVE  LET report == contents[b.win]
                            rates == [n \in folded[b.win] |-> Rates(read[n - 1], read[n])]
                            values(m) == [n \in folded[b.win] |-> rates[n][m]]
                        IN  /\ report.Samples = Cardinality(folded[b.win])
                            /\ \A n \in folded[b.win] : report.BootID = read[n].boot
                            /\ \A c \in IO : report.Counters[c] = read[Max(folded[b.win])].io[c]
                            /\ \A m \in Metrics :
                                  /\ report.Stats[m].Min = Min(Range(values(m)))
                                  /\ report.Stats[m].Max = Max(Range(values(m)))
                                  /\ report.Stats[m].Avg * report.Samples
                                        = SumOver(values(m), folded[b.win])
        BY DEF WindowReports
    <2> DEFINE F == folded[b.win]
               report == contents[b.win]
    <2>1. F # {} /\ About(read, report, F)
        BY DEF Reported, AllWindows
    <2>2. ASSUME NEW m \in Metrics
          PROVE  LET f == [n \in F |-> Rates(read[n - 1], read[n])[m]]
                 IN  /\ report.Stats[m].Min = Min(Range(f))
                     /\ report.Stats[m].Max = Max(Range(f))
                     /\ report.Stats[m].Avg * report.Samples = SumOver(f, F)
        <3> DEFINE f == [n \in F |-> Rates(read[n - 1], read[n])[m]]
                   st == report.Stats[m]
        <3>1. StatOf(st, F, f) /\ st.N = report.Samples
            BY <2>1 DEF About, StatOf, RatesAt
        <3>2. \A n \in F : f[n] \in Int
            <4> TAKE n \in F
            <4>1. n \in 1..taken /\ n - 1 \in 1..taken /\ Derives(read[n - 1], read[n])
                BY BothSampled
            <4>2. PICK p \in Moments, q \in Moments, i \in Instants, j \in Instants :
                      read[n - 1] = Reading(Shows(p), i) /\ read[n] = Reading(Shows(q), j)
                BY <4>1 DEF Sampled
            <4> QED
                BY <4>1, <4>2, RatesTypes
        <3>3. DOMAIN f = F
            OBVIOUS
        <3> HIDE DEF F, f, st
        <3>4. Range(f) = {f[n] : n \in F}
            BY <3>3 DEF Range
        <3>5. /\ Range(f) \in SUBSET Int
              /\ st.Min \in Range(f) /\ \A y \in Range(f) : st.Min <= y
              /\ st.Max \in Range(f) /\ \A y \in Range(f) : st.Max >= y
            BY <2>1, <3>1, <3>2, <3>4 DEF StatOf
        <3>6. st.Min = Min(Range(f)) /\ st.Max = Max(Range(f))
            BY <3>5, MinIs, MaxIs
        <3>7. st.Avg * report.Samples = SumOver(f, F)
            BY <3>1 DEF StatOf
        <3> QED
            BY <3>6, <3>7 DEF f, st
    <2> QED
        BY <2>1, <2>2 DEF About
<1> QED
    BY <1>1, Invariance, AlwaysSampled, AlwaysReported, PTL
=============================================================================
