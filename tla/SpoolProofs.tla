---------------------------- MODULE SpoolProofs ----------------------------
(***************************************************************************)
(* Theorems about Spool, for every set of windows, sizes, bounds, number   *)
(* of crashes and combination of faults.                                   *)
(***************************************************************************)
EXTENDS Spool, SumProofs

\* What removing one file does to the directory and to the fates.
LEMMA RemoveType ==
    ASSUME TypeOK, NEW n \in Files, NEW what \in Fates,
           dir' = Without(n), Lose(n, what)
    PROVE  /\ Files' = Files \ {n}
           /\ \A m \in Files' : dir'[m] = dir[m]
           /\ (Files \subseteq WinNames)'
           /\ (dir \in [Files -> [win : Windows, state : FileStates]])'
           /\ Holding(n) \in Windows
           /\ fate' \in [Windows -> Fates]
<1>1. /\ Files' = Files \ {n}
      /\ \A m \in Files' : dir'[m] = dir[m]
    BY DEF Files, Without
<1>2. Holding(n) \in Windows
    BY DEF TypeOK, Holding
<1>3. fate' \in [Windows -> Fates]
    BY <1>2 DEF TypeOK, Lose
<1>4. dir' = [m \in Files' |-> dir[m]]
    BY <1>1 DEF Without
<1>5. (dir \in [Files -> [win : Windows, state : FileStates]])'
    BY <1>1, <1>4 DEF TypeOK
<1> QED
    BY <1>1, <1>2, <1>3, <1>5 DEF TypeOK

\* The type invariant is inductive, so it holds in every reachable state.
LEMMA TypeInit == Init => TypeOK
<1> SUFFICES ASSUME Init PROVE TypeOK
    OBVIOUS
<1>1. Files = {}
    BY DEF Init, Files
<1>2. IsFiniteSet(batch) /\ Cardinality(batch) <= MaxBatch
    BY FS_EmptySet, SpoolAssumption DEF Init
<1>3. dir \in [Files -> [win : Windows, state : FileStates]]
    BY <1>1 DEF Init, Files
<1> QED
    BY <1>1, <1>2, <1>3 DEF Init, TypeOK, Fates

LEMMA TypeStep == TypeOK /\ [Next]_vars => TypeOK'
<1> SUFFICES ASSUME TypeOK, [Next]_vars PROVE TypeOK'
    OBVIOUS
<1> USE DEF TypeOK, Files, Holding, Fates, FileStates
<1>e. IsFiniteSet({}) /\ Cardinality({}) = 0 /\ 0 <= MaxBatch
    BY FS_EmptySet, SpoolAssumption
<1>1. CASE Open
    BY <1>1, <1>e DEF Open
<1>2. CASE Close
    BY <1>2 DEF Close
<1>3. CASE Crash
    BY <1>3, <1>e DEF Crash
<1>4. ASSUME NEW n \in Files, Spoil(n) PROVE TypeOK'
    BY <1>4 DEF Spoil
<1>5. ASSUME NEW w \in Windows, NEW start \in Starts, BeginAdd(w, start)
      PROVE  TypeOK'
    BY <1>5 DEF BeginAdd, NextSeq, Name, WinNames
<1>6. ASSUME NEW w \in Windows, RefuseAdd(w) PROVE TypeOK'
    BY <1>6 DEF RefuseAdd
<1>7. CASE BeginPeek
    BY <1>7, <1>e DEF BeginPeek
<1>8. CASE RefusePeek
    BY <1>8, <1>e DEF RefusePeek
<1>9. CASE BeginDiscard
    BY <1>9 DEF BeginDiscard
<1>10. CASE WriteTemp
    BY <1>10 DEF WriteTemp
<1>11. ASSUME NEW f \in pending, FailAdd(f) PROVE TypeOK'
    BY <1>11 DEF FailAdd, Cleaned
<1>12. ASSUME NEW f \in pending, Rename(f) PROVE TypeOK'
    BY <1>12 DEF Rename
<1>13. ASSUME NEW n \in Files, EvictOldest(n) PROVE TypeOK'
    <2>1. dir' = Without(n) /\ Lose(n, "evicted")
        BY <1>13 DEF EvictOldest
    <2> HIDE DEF Files, Holding
    <2> QED
        BY <1>13, <2>1, RemoveType DEF EvictOldest
<1>14. CASE EndAdd
    <2>1. reported' \in Nat
        BY <1>14 DEF EndAdd, OnDrop
    <2> QED
        BY <1>14, <2>1 DEF EndAdd
<1>15. CASE FailEvict
    BY <1>15 DEF FailEvict
<1>24. CASE CreateTemp
    BY <1>24 DEF CreateTemp
<1>25. CASE Measure
    BY <1>25 DEF Measure
<1>16. ASSUME NEW n \in todo, TakeGood(n) PROVE TypeOK'
    <2>1. IsFiniteSet(batch') /\ Cardinality(batch') <= MaxBatch
        <3>1. /\ batch' = batch \cup {n}
              /\ IsFiniteSet(batch) /\ Cardinality(batch) < MaxBatch
            BY <1>16 DEF TakeGood, Reading, PeekMore
        <3> HIDE DEF TypeOK
        <3>2. /\ IsFiniteSet(batch \cup {n})
              /\ \/ Cardinality(batch \cup {n}) = Cardinality(batch)
                 \/ Cardinality(batch \cup {n}) = Cardinality(batch) + 1
            BY <3>1, FS_AddElement
        <3>3. Cardinality(batch) \in Nat /\ MaxBatch \in Nat
            BY <3>1, FS_CardinalityType, SpoolAssumption
        <3> QED
            BY <3>1, <3>2, <3>3
    <2> QED
        BY <1>16, <2>1 DEF TakeGood, Reading
<1>17. ASSUME NEW n \in todo, DropCorrupt(n) PROVE TypeOK'
    <2>1. CASE dir' = Without(n) /\ Lose(n, "purged") /\ n \in Files
        <3> HIDE DEF Files, Holding
        <3> QED
            BY <1>17, <2>1, RemoveType DEF DropCorrupt
    <2>2. CASE UNCHANGED <<dir, fate>>
        BY <1>17, <2>2 DEF DropCorrupt
    <2> QED
        BY <1>17, <2>1, <2>2 DEF DropCorrupt, Reading
<1>18. ASSUME NEW n \in todo, FailPeek(n) PROVE TypeOK'
    BY <1>18, <1>e DEF FailPeek
<1>19. CASE EndPeek
    BY <1>19 DEF EndPeek
<1>20. ASSUME NEW n \in todo, DiscardNext(n) PROVE TypeOK'
    <2>1. CASE dir' = Without(n) /\ Lose(n, "discarded") /\ n \in Files
        <3> HIDE DEF Files, Holding
        <3> QED
            BY <1>20, <2>1, RemoveType DEF DiscardNext
    <2>2. CASE UNCHANGED <<dir, fate>>
        BY <1>20, <2>2 DEF DiscardNext
    <2> QED
        BY <1>20, <2>1, <2>2 DEF DiscardNext
<1>21. ASSUME NEW n \in todo, FailDiscard(n) PROVE TypeOK'
    BY <1>21, <1>e DEF FailDiscard
<1>22. CASE EndDiscard
    BY <1>22, <1>e DEF EndDiscard
<1>23. CASE UNCHANGED vars
    BY <1>23 DEF vars
<1> QED
    BY <1>1, <1>2, <1>3, <1>4, <1>5, <1>6, <1>7, <1>8, <1>9, <1>10, <1>11,
       <1>12, <1>13, <1>14, <1>15, <1>16, <1>17, <1>18, <1>19, <1>20, <1>21,
       <1>22, <1>23, <1>24, <1>25
       DEF Next, Call, Step, AddStep, PeekStep, DiscardStep

\* Type correctness of the spool.
THEOREM TypeCorrect == Spec => []TypeOK
<1> QED
    BY TypeInit, TypeStep, PTL DEF Spec

-----------------------------------------------------------------------------
(***************************************************************************)
(* A file holds a stored window, and no two hold the same: a window is     *)
(* added once, and what leaves the directory is not stored any more.  That *)
(* is so whatever the names are.                                           *)
(***************************************************************************)

Once ==
    /\ \A f \in pending : fate[f.win] = "adding"
    /\ \A n \in Files : fate[Holding(n)] = "stored"
    /\ \A m, n \in Files : Holding(m) = Holding(n) => m = n

\* A step that touches neither the files nor the fate of a stored window.
LEMMA FrameOnce ==
    ASSUME TypeOK, Once, UNCHANGED dir, pending' \subseteq pending,
           \A w \in Windows : fate[w] = "stored" => fate'[w] = "stored",
           \A f \in pending' : fate'[f.win] = fate[f.win]
    PROVE  Once'
<1>1. Files' = Files /\ \A n : Holding(n)' = Holding(n)
    BY DEF Files, Holding
<1>2. \A n \in Files : Holding(n) \in Windows
    BY DEF TypeOK, Holding
<1> QED
    BY <1>1, <1>2 DEF Once

\* Removing a file together with the fate of its window.
LEMMA RemoveOnce ==
    ASSUME TypeOK, Once, NEW n \in Files, NEW what \in Fates,
           dir' = Without(n), Lose(n, what), UNCHANGED pending
    PROVE  Once'
<1>1. /\ Files' = Files \ {n}
      /\ \A m \in Files' : Holding(m)' = Holding(m)
      /\ Holding(n) \in Windows
    BY RemoveType DEF Holding
<1>2. \A w \in Windows : fate'[w] = IF w = Holding(n) THEN what ELSE fate[w]
    BY DEF Lose, TypeOK
<1>3. \A f \in pending : f.win \in Windows /\ f.win # Holding(n)
    BY DEF TypeOK, Once
<1>4. \A m \in Files : Holding(m) \in Windows /\ (m # n => Holding(m) # Holding(n))
    BY DEF TypeOK, Once, Holding
<1> QED
    BY <1>1, <1>2, <1>3, <1>4 DEF Once

LEMMA OnceStep ==
    ASSUME TypeOK, Once, [Next]_vars
    PROVE  Once'
<1>w. /\ \A n \in Files : Holding(n) \in Windows
      /\ \A f \in pending : f.win \in Windows /\ fate[f.win] = "adding"
    BY DEF TypeOK, Once, Holding
<1>1. CASE Crash
    BY <1>1, FrameOnce DEF Crash, TypeOK
<1>2. ASSUME NEW n \in Files, Spoil(n) PROVE Once'
    <2>1. Files' = Files /\ \A m \in Files : Holding(m)' = Holding(m)
        BY <1>2 DEF Spoil, TypeOK, Files, Holding
    <2> QED
        BY <1>2, <2>1 DEF Spoil, Once
<1>3. ASSUME NEW w \in Windows, NEW start \in Starts, BeginAdd(w, start) PROVE Once'
    <2>1. /\ Files' = Files /\ \A n : Holding(n)' = Holding(n)
          /\ pending' = {[name |-> Name(start, seq'), win |-> w]}
          /\ fate' = [fate EXCEPT ![w] = "adding"] /\ fate[w] = "new"
        BY <1>3 DEF BeginAdd, Files, Holding
    <2>2. \A v \in Windows : fate'[v] = IF v = w THEN "adding" ELSE fate[v]
        BY <2>1 DEF TypeOK
    <2> QED
        BY <1>w, <2>1, <2>2 DEF Once
<1>4. ASSUME NEW w \in Windows, RefuseAdd(w) PROVE Once'
    BY <1>4, <1>w, FrameOnce DEF RefuseAdd, TypeOK
<1>5. ASSUME NEW f \in pending, FailAdd(f) PROVE Once'
    BY <1>5, <1>w, FrameOnce DEF FailAdd, TypeOK
<1>6. ASSUME NEW f \in pending, Rename(f) PROVE Once'
    <2>1. /\ Files' = Files \cup {f.name}
          /\ Holding(f.name)' = f.win
          /\ \A n \in Files \ {f.name} : Holding(n)' = Holding(n)
          /\ pending' = {}
        BY <1>6 DEF Rename, Files, Holding
    <2>2. \A v \in Windows : fate'[v] = IF v = f.win THEN "stored" ELSE fate[v]
        BY <1>6 DEF Rename, TypeOK
    <2>3. \A n \in Files : Holding(n) # f.win
        BY <1>w DEF Once
    <2> QED
        BY <1>w, <2>1, <2>2, <2>3 DEF Once
<1>7. ASSUME NEW n \in Files, EvictOldest(n) PROVE Once'
    BY <1>7, RemoveOnce DEF EvictOldest, Fates
<1>8. ASSUME NEW n \in todo, DropCorrupt(n) PROVE Once'
    <2>1. n \in Files
        BY <1>8 DEF DropCorrupt, Reading, TypeOK
    <2>2. CASE dir' = Without(n) /\ Lose(n, "purged")
        BY <1>8, <2>1, <2>2, RemoveOnce DEF DropCorrupt, Fates
    <2>3. CASE UNCHANGED <<dir, fate>>
        BY <1>8, <2>3, FrameOnce DEF DropCorrupt
    <2> QED
        BY <1>8, <2>2, <2>3 DEF DropCorrupt
<1>9. ASSUME NEW n \in todo, DiscardNext(n) PROVE Once'
    <2>1. CASE n \in Files
        BY <1>9, <2>1, RemoveOnce DEF DiscardNext, Fates
    <2>2. CASE n \notin Files
        BY <1>9, <2>2, FrameOnce DEF DiscardNext
    <2> QED
        BY <2>1, <2>2
<1>10. ASSUME UNCHANGED <<dir, fate>>, pending' \subseteq pending PROVE Once'
    BY <1>10, FrameOnce
<1>11. ASSUME \/ Open \/ Close \/ CreateTemp \/ WriteTemp
              \/ Measure \/ EndAdd \/ FailEvict
              \/ BeginPeek \/ RefusePeek \/ EndPeek
              \/ BeginDiscard \/ EndDiscard
              \/ \E n \in todo : TakeGood(n) \/ FailPeek(n) \/ FailDiscard(n)
              \/ UNCHANGED vars
       PROVE  Once'
    BY <1>10, <1>11
       DEF Open, Close, CreateTemp, WriteTemp, Measure, EndAdd, FailEvict,
           BeginPeek, RefusePeek, EndPeek, BeginDiscard, EndDiscard,
           TakeGood, FailPeek, FailDiscard, vars
<1> QED
    BY <1>1, <1>2, <1>3, <1>4, <1>5, <1>6, <1>7, <1>8, <1>9, <1>11
       DEF Next, Call, Step, AddStep, PeekStep, DiscardStep

LEMMA OnceInit == Init => Once
BY DEF Init, Once, Files

-----------------------------------------------------------------------------
(***************************************************************************)
(* No published window is lost to a name collision.  The heart of it is    *)
(* that a name is unused when it is chosen: within one process because the *)
(* sequence number only grows, across processes because of the start       *)
(* instants; and that nothing else can be named before the rename.         *)
(***************************************************************************)

NamesFresh ==
    /\ \A n \in Files : n \in inherited \/ n.seq <= seq
    /\ \A f \in pending : f.name \notin Files /\ f.name.seq <= seq

Kept == \A w \in Windows : fate[w] = "stored" => \E n \in Files : Holding(n) = w

SafeInv == TypeOK /\ Once /\ NamesFresh /\ Kept

LEMMA SafeInit == Init => Once /\ NamesFresh /\ Kept
BY OnceInit DEF Init, NamesFresh, Kept, Files

\* Removing a file is safe when its window's fate says so.
LEMMA RemoveSafe ==
    ASSUME SafeInv, NEW n \in Files, NEW what \in Fates, what # "stored",
           dir' = Without(n), Lose(n, what),
           UNCHANGED <<seq, pending, inherited>>
    PROVE  (NamesFresh /\ Kept)'
<1>1. /\ Files' = Files \ {n}
      /\ \A m \in Files' : Holding(m)' = Holding(m)
      /\ Holding(n) \in Windows
    BY RemoveType DEF SafeInv, Holding
<1>2. \A w \in Windows : fate'[w] = IF w = Holding(n) THEN what ELSE fate[w]
    BY DEF Lose, SafeInv, TypeOK
<1>3. NamesFresh'
    BY <1>1 DEF SafeInv, NamesFresh
<1>4. Kept'
    <2>1. ASSUME NEW w \in Windows, fate'[w] = "stored"
          PROVE  \E m \in Files' : Holding(m)' = w
        <3>1. PICK m \in Files : Holding(m) = w
            BY <1>2, <2>1 DEF SafeInv, Kept
        <3> QED
            BY <1>1, <1>2, <2>1, <3>1
    <2> QED
        BY <2>1 DEF Kept
<1> QED
    BY <1>3, <1>4

\* A step that stores nothing and touches no file.
LEMMA FrameSafe ==
    ASSUME SafeInv, UNCHANGED <<dir, seq, inherited>>, pending' \subseteq pending,
           \A w \in Windows : fate'[w] = "stored" => fate[w] = "stored"
    PROVE  (NamesFresh /\ Kept)'
<1>1. Files' = Files /\ \A n : Holding(n)' = Holding(n)
    BY DEF Files, Holding
<1> QED
    BY <1>1 DEF SafeInv, NamesFresh, Kept

LEMMA SafeStep ==
    ASSUME ~RestartOverlap, SafeInv, [Next]_vars
    PROVE  (NamesFresh /\ Kept)'
<1>t. TypeOK
    BY DEF SafeInv
<1>1. CASE Open
    <2>1. /\ Files' = Files /\ pending' = {} /\ inherited' = Files'
          /\ \A n : Holding(n)' = Holding(n)
        BY <1>t, <1>1 DEF Open, TypeOK, Files, Holding
    <2> QED
        BY <1>1, <2>1 DEF Open, SafeInv, NamesFresh, Kept
<1>2. CASE Crash
    BY <1>2, <1>t, FrameSafe DEF Crash, TypeOK
<1>3. ASSUME NEW n \in Files, Spoil(n) PROVE (NamesFresh /\ Kept)'
    <2>1. Files' = Files /\ \A m \in Files : Holding(m)' = Holding(m)
        BY <1>3, <1>t DEF Spoil, TypeOK, Files, Holding
    <2> QED
        BY <1>3, <2>1 DEF Spoil, SafeInv, NamesFresh, Kept
<1>4. ASSUME NEW w \in Windows, NEW start \in Starts, BeginAdd(w, start)
      PROVE  (NamesFresh /\ Kept)'
    <2> DEFINE name == Name(start, seq + 1)
    <2>1. /\ Files' = Files /\ inherited' = inherited /\ seq' = seq + 1
          /\ \A n : Holding(n)' = Holding(n)
          /\ pending' = {[name |-> name, win |-> w]}
        BY <1>4 DEF BeginAdd, Files, Holding, NextSeq
    <2>2. \A v \in Windows : fate'[v] = "stored" => fate[v] = "stored"
        BY <1>4, <1>t DEF BeginAdd, TypeOK
    <2>3. \A n \in Files : n.seq \in Nat
        BY <1>t DEF TypeOK, WinNames
    <2>4. name \notin Files
        <3>1. name \notin inherited
            BY <1>4 DEF BeginAdd, CanStart, Name
        <3>2. ~(name.seq <= seq) /\ seq \in Nat
            BY <1>t DEF TypeOK, Name
        <3> QED
            BY <3>1, <3>2 DEF SafeInv, NamesFresh
    <2>5. NamesFresh'
        <3>1. \A n \in Files : n \in inherited \/ n.seq <= seq + 1
            BY <1>t, <2>3 DEF SafeInv, NamesFresh, TypeOK
        <3>2. name.seq <= seq + 1
            BY <1>t DEF Name, TypeOK
        <3> HIDE DEF name
        <3> QED
            BY <2>1, <2>4, <3>1, <3>2 DEF NamesFresh
    <2>6. Kept'
        BY <2>1, <2>2 DEF SafeInv, Kept
    <2> QED
        BY <2>5, <2>6
<1>5. ASSUME NEW w \in Windows, RefuseAdd(w) PROVE (NamesFresh /\ Kept)'
    BY <1>5, <1>t, FrameSafe DEF RefuseAdd, TypeOK
<1>6. ASSUME NEW f \in pending, FailAdd(f) PROVE (NamesFresh /\ Kept)'
    BY <1>6, <1>t, FrameSafe DEF FailAdd, TypeOK
<1>7. ASSUME NEW f \in pending, Rename(f) PROVE (NamesFresh /\ Kept)'
    <2>1. f.name \notin Files /\ f.name.seq <= seq /\ f.win \in Windows
        BY DEF SafeInv, NamesFresh, TypeOK
    <2>2. Files' = Files \cup {f.name}
        BY <1>7 DEF Rename, Files
    <2>3. /\ Holding(f.name)' = f.win
          /\ \A n \in Files : Holding(n)' = Holding(n)
        BY <1>7, <2>1 DEF Rename, Files, Holding
    <2>4. \A v \in Windows : fate'[v] = IF v = f.win THEN "stored" ELSE fate[v]
        BY <1>7, <1>t DEF Rename, TypeOK
    <2>5. NamesFresh'
        BY <1>7, <2>1, <2>2 DEF Rename, SafeInv, NamesFresh
    <2>6. Kept'
        BY <2>2, <2>3, <2>4 DEF SafeInv, Kept
    <2> QED
        BY <2>5, <2>6
<1>8. ASSUME NEW n \in Files, EvictOldest(n) PROVE (NamesFresh /\ Kept)'
    BY <1>8, RemoveSafe DEF EvictOldest, Fates
<1>9. ASSUME NEW n \in todo, DropCorrupt(n) PROVE (NamesFresh /\ Kept)'
    <2>1. n \in Files
        BY <1>9, <1>t DEF DropCorrupt, Reading, TypeOK
    <2>2. CASE dir' = Without(n) /\ Lose(n, "purged")
        BY <1>9, <2>1, <2>2, RemoveSafe DEF DropCorrupt, Fates
    <2>3. CASE UNCHANGED <<dir, fate>>
        BY <1>9, <2>3, FrameSafe DEF DropCorrupt
    <2> QED
        BY <1>9, <2>2, <2>3 DEF DropCorrupt
<1>10. ASSUME NEW n \in todo, DiscardNext(n) PROVE (NamesFresh /\ Kept)'
    <2>1. CASE n \in Files
        BY <1>10, <2>1, RemoveSafe DEF DiscardNext, Fates
    <2>2. CASE n \notin Files
        BY <1>10, <2>2, FrameSafe DEF DiscardNext
    <2> QED
        BY <2>1, <2>2
<1>11. ASSUME UNCHANGED <<dir, seq, pending, fate, inherited>>
       PROVE  (NamesFresh /\ Kept)'
    BY <1>11, FrameSafe
<1>12. ASSUME \/ Close \/ CreateTemp \/ WriteTemp
              \/ Measure \/ EndAdd \/ FailEvict
              \/ BeginPeek \/ RefusePeek \/ EndPeek
              \/ BeginDiscard \/ EndDiscard
              \/ UNCHANGED vars
       PROVE  (NamesFresh /\ Kept)'
    BY <1>11, <1>12
       DEF Close, CreateTemp, WriteTemp, Measure, EndAdd, FailEvict,
           BeginPeek, RefusePeek, EndPeek, BeginDiscard, EndDiscard, vars
<1>13. ASSUME NEW n \in todo, TakeGood(n) \/ FailPeek(n) \/ FailDiscard(n)
       PROVE  (NamesFresh /\ Kept)'
    BY <1>11, <1>13 DEF TakeGood, FailPeek, FailDiscard
<1> QED
    BY <1>1, <1>2, <1>3, <1>4, <1>5, <1>6, <1>7, <1>8, <1>9, <1>10, <1>12, <1>13
       DEF Next, Call, Step, AddStep, PeekStep, DiscardStep

LEMMA SafeAgain ==
    ASSUME ~RestartOverlap PROVE SafeInv /\ [Next]_vars => SafeInv'
BY TypeStep, OnceStep, SafeStep DEF SafeInv

LEMMA KeptIsNothingLost == SafeInv => NothingLost
BY DEF SafeInv, Once, Kept, NothingLost, TypeOK, Holding

\* When no process produces a window with the start instant of a file left by
\* an earlier one, no published window is ever overwritten: under every fault
\* of the file system and any number of crashes.
THEOREM NoWindowOverwritten ==
    ASSUME ~RestartOverlap
    PROVE  Spec => []NothingLost
<1>1. Init => SafeInv
    BY TypeInit, SafeInit DEF SafeInv
<1>2. SafeInv /\ [Next]_vars => SafeInv'
    BY SafeAgain
<1> QED
    BY <1>1, <1>2, KeptIsNothingLost, PTL DEF Spec

-----------------------------------------------------------------------------
(***************************************************************************)
(* Evictions are counted.  The ghost fate and the counters agree after     *)
(* every step of enforceCap's loop, because a window is evicted once: it   *)
(* was stored, and a stored window has one file.                           *)
(***************************************************************************)

Evicted == {w \in Windows : fate[w] = "evicted"}

Counted == crashes = 0 => reported + dropped = Cardinality(Evicted)

LEMMA EvictedFinite == IsFiniteSet(Evicted)
BY FiniteWindows, FS_Subset DEF Evicted

\* Evicting one stored window adds one.
LEMMA OneMoreEvicted ==
    ASSUME TypeOK, NEW w \in Windows, fate[w] # "evicted",
           fate' = [fate EXCEPT ![w] = "evicted"]
    PROVE  Cardinality(Evicted') = Cardinality(Evicted) + 1
<1>1. Evicted' = Evicted \cup {w} /\ w \notin Evicted
    BY DEF Evicted, TypeOK
<1> QED
    BY <1>1, EvictedFinite, FS_AddElement

\* Giving another fate to windows that were not evicted adds none.
LEMMA NoMoreEvicted ==
    ASSUME TypeOK,
           \A v \in Windows : fate'[v] = "evicted" <=> fate[v] = "evicted",
           UNCHANGED crashes,
           reported' + dropped' = reported + dropped,
           Counted
    PROVE  Counted'
<1>1. Evicted' = Evicted
    BY DEF Evicted
<1> QED
    BY <1>1 DEF Counted

LEMMA CountedStep ==
    ASSUME "remove" \notin Faults, TypeOK, Once, Counted, [Next]_vars
    PROVE  Counted'
<1>t. /\ TypeOK
      /\ \A n \in Files : Holding(n) \in Windows /\ fate[Holding(n)] = "stored"
      /\ \A f \in pending : f.win \in Windows /\ fate[f.win] = "adding"
    BY DEF TypeOK, Once, Holding
<1>n. reported \in Nat /\ dropped \in Nat /\ crashes \in Nat /\ (op # "evict" => dropped = 0)
    BY <1>t DEF TypeOK
<1>1. CASE Crash
    BY <1>1, <1>n DEF Crash, Counted
<1>2. ASSUME NEW w \in Windows, NEW start \in Starts, BeginAdd(w, start)
      PROVE  Counted'
    BY <1>2, <1>t, NoMoreEvicted DEF BeginAdd, TypeOK
<1>3. ASSUME NEW w \in Windows, RefuseAdd(w) PROVE Counted'
    BY <1>3, <1>t, NoMoreEvicted DEF RefuseAdd, TypeOK
<1>4. ASSUME NEW f \in pending, FailAdd(f) PROVE Counted'
    BY <1>4, <1>t, NoMoreEvicted DEF FailAdd, TypeOK
<1>5. ASSUME NEW f \in pending, Rename(f) PROVE Counted'
    BY <1>5, <1>t, <1>n, NoMoreEvicted DEF Rename, TypeOK
<1>6. ASSUME NEW n \in Files, EvictOldest(n) PROVE Counted'
    <2>1. /\ fate' = [fate EXCEPT ![Holding(n)] = "evicted"]
          /\ dropped' = dropped + 1 /\ UNCHANGED <<reported, crashes>>
        BY <1>6 DEF EvictOldest, Lose
    <2>2. Cardinality(Evicted') = Cardinality(Evicted) + 1
        BY <1>t, <2>1, OneMoreEvicted
    <2> QED
        BY <1>n, <2>1, <2>2 DEF Counted
<1>7. CASE EndAdd
    BY <1>7, <1>t, <1>n, NoMoreEvicted DEF EndAdd, OnDrop
<1>8. CASE FailEvict
    BY <1>8, <1>t, <1>n, NoMoreEvicted DEF FailEvict
<1>9. ASSUME NEW n \in todo, DropCorrupt(n) PROVE Counted'
    <2>1. n \in Files
        BY <1>9, <1>t DEF DropCorrupt, Reading, TypeOK
    <2> QED
        BY <1>9, <1>t, <2>1, NoMoreEvicted DEF DropCorrupt, Lose, TypeOK
<1>10. ASSUME NEW n \in todo, DiscardNext(n) PROVE Counted'
    BY <1>10, <1>t, NoMoreEvicted DEF DiscardNext, Lose, TypeOK
<1>11. ASSUME UNCHANGED <<fate, reported, dropped, crashes>> PROVE Counted'
    BY <1>11, <1>t, NoMoreEvicted
<1>12. ASSUME \/ Open \/ Close \/ CreateTemp \/ WriteTemp \/ Measure
              \/ BeginPeek \/ RefusePeek \/ EndPeek
              \/ BeginDiscard \/ EndDiscard
              \/ \E n \in Files : Spoil(n)
              \/ UNCHANGED vars
       PROVE  Counted'
    BY <1>11, <1>12
       DEF Open, Close, CreateTemp, WriteTemp, Measure,
           BeginPeek, RefusePeek, EndPeek, BeginDiscard, EndDiscard, Spoil, vars
<1>13. ASSUME NEW n \in todo, TakeGood(n) \/ FailPeek(n) \/ FailDiscard(n)
       PROVE  Counted'
    BY <1>11, <1>13 DEF TakeGood, FailPeek, FailDiscard
<1> QED
    BY <1>1, <1>2, <1>3, <1>4, <1>5, <1>6, <1>7, <1>8, <1>9, <1>10, <1>12, <1>13
       DEF Next, Call, Step, AddStep, PeekStep, DiscardStep

\* As long as removing a file never fails, every eviction reaches OnDrop:
\* whatever the cap, the sizes, the other faults and the order of calls.
THEOREM EveryEvictionReported ==
    ASSUME "remove" \notin Faults
    PROVE  Spec => []EvictionsReported
<1>1. Init => TypeOK /\ Once /\ Counted
    <2>1. Init => Evicted = {} /\ reported + dropped = 0
        BY DEF Init, Evicted
    <2> QED
        BY <2>1, TypeInit, OnceInit, FS_EmptySet DEF Counted
<1>2. TypeOK /\ Once /\ Counted /\ [Next]_vars => (TypeOK /\ Once /\ Counted)'
    BY TypeStep, OnceStep, CountedStep
<1>3. TypeOK /\ Once /\ Counted => EvictionsReported
    BY DEF TypeOK, Counted, EvictionsReported, Evicted
<1> QED
    BY <1>1, <1>2, <1>3, PTL DEF Spec

-----------------------------------------------------------------------------
(***************************************************************************)
(* Temporary files: between CreateTemp and the end of an Add there is one  *)
(* more than kills have left.                                              *)
(***************************************************************************)

Temporary ==
    /\ op \in {"create", "write", "rename"} => \E f \in pending : pending = {f}
    /\ IF op \in {"write", "rename"}
                        THEN \A f \in pending : Cardinality(temps \ {f.win}) <= crashes
                        ELSE Cardinality(temps) <= crashes

\* Without any one element a set is one smaller at most.
LEMMA WithoutOne ==
    ASSUME TypeOK, NEW w
    PROVE  /\ Cardinality(temps \ {w}) \in Nat /\ Cardinality(temps) \in Nat
           /\ Cardinality(temps \ {w}) <= Cardinality(temps)
           /\ Cardinality(temps) <= Cardinality(temps \ {w}) + 1
<1>1. IsFiniteSet(temps)
    BY FiniteWindows, FS_Subset DEF TypeOK
<1> QED
    BY <1>1, FS_RemoveElement, FS_CardinalityType

LEMMA TemporaryStep ==
    ASSUME "remove" \notin Faults, TypeOK, Temporary, [Next]_vars
    PROVE  Temporary'
<1>n. crashes \in Nat
    BY DEF TypeOK
<1>m. ASSUME NEW f \in pending
      PROVE  /\ Cardinality(temps \ {f.win}) <= crashes
             /\ Cardinality(temps) <= crashes + 1
    <2>1. /\ Cardinality(temps \ {f.win}) \in Nat /\ Cardinality(temps) \in Nat
          /\ Cardinality(temps \ {f.win}) <= Cardinality(temps)
          /\ Cardinality(temps) <= Cardinality(temps \ {f.win}) + 1
        BY WithoutOne
    <2>2. \/ Cardinality(temps \ {f.win}) <= crashes
          \/ Cardinality(temps) <= crashes
        BY <1>m DEF Temporary
    <2> QED
        BY <1>n, <2>1, <2>2
<1>1. CASE Crash
    <2>1. Cardinality(temps) \in Nat
        BY WithoutOne
    <2>2. Cardinality(temps) <= crashes => Cardinality(temps) <= crashes + 1
        BY <1>n, <2>1
    <2>3. (\E f \in pending : pending = {f}) => Cardinality(temps) <= crashes + 1
        BY <1>m
    <2>4. Cardinality(temps) <= crashes + 1
        BY <2>2, <2>3 DEF Temporary
    <2> QED
        BY <1>1, <2>4 DEF Crash, Temporary
<1>2. ASSUME NEW w \in Windows, NEW start \in Starts, BeginAdd(w, start)
      PROVE  Temporary'
    BY <1>2 DEF BeginAdd, Temporary
<1>3. CASE CreateTemp
    <2>1. PICK f \in pending : pending = {f}
        BY <1>3 DEF CreateTemp, Temporary
    <2>2. temps' \ {f.win} = temps \ {f.win} /\ pending' = {f} /\ op' = "write"
        BY <1>3, <2>1 DEF CreateTemp
    <2>3. Cardinality(temps \ {f.win}) <= crashes /\ crashes' = crashes
        BY <1>3, <1>m DEF CreateTemp
    <2> QED
        BY <2>2, <2>3 DEF Temporary
<1>11. CASE WriteTemp
    BY <1>11 DEF WriteTemp, Temporary
<1>4. ASSUME NEW f \in pending, FailAdd(f) \/ Rename(f) PROVE Temporary'
    <2>1. temps' = temps \ {f.win} /\ crashes' = crashes /\ op' \in {"idle", "scan"}
        BY <1>4 DEF FailAdd, Rename, Cleaned
    <2> QED
        BY <1>m, <2>1 DEF Temporary
<1>5. ASSUME UNCHANGED <<temps, crashes>>,
             \/ /\ op \notin {"create", "write", "rename"}
                /\ op' \notin {"create", "write", "rename"}
             \/ UNCHANGED <<op, pending>>
      PROVE  Temporary'
    BY <1>5 DEF Temporary
<1>6. CASE Open \/ Close \/ Measure \/ EndAdd \/ FailEvict
    BY <1>5, <1>6 DEF Open, Close, Measure, EndAdd, FailEvict
<1>7. CASE BeginPeek \/ RefusePeek \/ EndPeek \/ BeginDiscard \/ EndDiscard
    BY <1>5, <1>7 DEF BeginPeek, RefusePeek, EndPeek, BeginDiscard, EndDiscard
<1>8. CASE \E n \in Files : Spoil(n) \/ EvictOldest(n)
    BY <1>5, <1>8 DEF Spoil, EvictOldest
<1>9. CASE (\E w \in Windows : RefuseAdd(w)) \/ UNCHANGED vars
    BY <1>5, <1>9 DEF RefuseAdd, vars
<1>10. ASSUME NEW n \in todo,
              \/ TakeGood(n) \/ DropCorrupt(n) \/ FailPeek(n)
              \/ DiscardNext(n) \/ FailDiscard(n)
       PROVE  Temporary'
    BY <1>5, <1>10 DEF TakeGood, DropCorrupt, FailPeek, DiscardNext, FailDiscard, Reading
<1> QED
    BY <1>1, <1>2, <1>3, <1>4, <1>6, <1>7, <1>8, <1>9, <1>10, <1>11
       DEF Next, Call, Step, AddStep, PeekStep, DiscardStep

\* As long as removing a file never fails, an Add leaves no temporary file
\* behind, whatever fails in it: there are at most as many as kills.
THEOREM OnlyKillsLeaveTemps ==
    ASSUME "remove" \notin Faults
    PROVE  Spec => []TempsFromKills
<1>1. Init => TypeOK /\ Temporary
    BY TypeInit, FS_EmptySet DEF Init, Temporary
<1>2. TypeOK /\ Temporary /\ [Next]_vars => (TypeOK /\ Temporary)'
    BY TypeStep, TemporaryStep
<1>3. Temporary => TempsFromKills
    BY DEF Temporary, TempsFromKills
<1> QED
    BY <1>1, <1>2, <1>3, PTL DEF Spec

-----------------------------------------------------------------------------
(***************************************************************************)
(* The bound.  Outside enforceCap files only go, and a directory with      *)
(* fewer files has fewer bytes; its loop ends where what it has measured   *)
(* fits, which is the whole of the directory unless a size was missing.    *)
(***************************************************************************)

Occupied == Bytes(Contents)
Fits == Occupied <= MaxBytes \/ Cardinality(Files) <= 1

Bounded ==
    /\ IsFiniteSet(Files)
    /\ op \notin {"scan", "evict"} /\ ~excused => Fits

SizeIn == [n \in Files |-> Size[Holding(n)]]

\* The sizes of the files are numbers that can be added up.
LEMMA Measured ==
    ASSUME TypeOK, IsFiniteSet(Files)
    PROVE  /\ Summable(SizeIn, Files)
           /\ \A n \in Files : SizeIn[n] \in Nat
           /\ Occupied = SumOver(SizeIn, Files)
           /\ Occupied \in Int
<1>1. /\ DOMAIN Contents = Files
      /\ \A n \in Files : Contents[n] = Holding(n) /\ Holding(n) \in Windows
    BY DEF Contents, TypeOK, Holding
<1>2. \A n \in Files : SizeIn[n] \in Nat
    BY <1>1, SpoolAssumption DEF SizeIn
<1>3. Summable(SizeIn, Files)
    BY <1>2 DEF Summable
<1>4. Occupied = SumOver(SizeIn, Files)
    <2>1. [n \in DOMAIN Contents |-> Size[Contents[n]]] = SizeIn
        BY <1>1 DEF SizeIn
    <2> QED
        BY <1>1, <2>1 DEF Occupied, Bytes
<1> QED
    BY <1>2, <1>3, <1>4, SumType

\* What enforceCap adds up is not more than what there is, and the same when it
\* has the size of every file.
LEMMA CountedIn ==
    ASSUME TypeOK, IsFiniteSet(Files)
    PROVE  /\ TotalBytes \in Int /\ TotalBytes <= Occupied
           /\ unsized = {} => TotalBytes = Occupied
<1>1. TotalBytes = SumOver(SizeIn, Files \ unsized)
    BY DEF TotalBytes, SizeIn
<1>2. Files \ unsized \subseteq Files /\ IsFiniteSet(Files \ unsized)
    BY FS_Subset
<1>3. Summable(SizeIn, Files \ unsized)
    BY <1>2, Measured DEF Summable
<1>4. SumOver(SizeIn, Files \ unsized) <= SumOver(SizeIn, Files)
    BY <1>2, Measured, SumPart
<1>5. unsized = {} => Files \ unsized = Files
    OBVIOUS
<1>6. SumOver(SizeIn, Files \ unsized) \in Int
    BY <1>3, SumType
<1> QED
    BY <1>1, <1>4, <1>5, <1>6, Measured

\* A file less is not more bytes.
LEMMA RemoveFits ==
    ASSUME TypeOK, IsFiniteSet(Files), NEW n \in Files, dir' = Without(n)
    PROVE  IsFiniteSet(Files') /\ (Fits => Fits')
<1>1. Files' = Files \ {n} /\ \A m \in Files' : dir'[m] = dir[m]
    BY DEF Files, Without
<1>2. IsFiniteSet(Files') /\ Cardinality(Files') <= Cardinality(Files)
    BY <1>1, FS_Subset
<1>3. Cardinality(Files') \in Nat /\ Cardinality(Files) \in Nat
    BY <1>2, FS_CardinalityType
<1> DEFINE now == SizeIn  later == SizeIn'
<1>4. \A m \in Files' : later[m] = now[m]
    BY <1>1 DEF SizeIn, Holding
<1>5. SumOver(now, Files) = now[n] + SumOver(now, Files') /\ now[n] \in Nat
    BY <1>1, Measured, SumRemove
<1>6. Summable(now, Files') /\ Summable(later, Files')
    BY <1>1, <1>2, <1>4, Measured DEF Summable
<1>7. Occupied' = SumOver(later, Files')
    <2>1. DOMAIN Contents' = Files' /\ \A m \in Files' : Contents'[m] = Holding(m)'
        BY DEF Contents
    <2>2. [m \in DOMAIN Contents' |-> Size[Contents'[m]]] = SizeIn'
        BY <2>1 DEF SizeIn
    <2> QED
        BY <2>1, <2>2 DEF Occupied, Bytes
<1>8. SumOver(later, Files') = SumOver(now, Files')
    BY <1>4, <1>6, SumSame
<1>9. SumOver(now, Files') \in Int /\ Occupied \in Int /\ MaxBytes \in Nat
    BY <1>6, SumType, Measured, SpoolAssumption
<1>10. Occupied' <= Occupied
    BY <1>5, <1>7, <1>8, <1>9, Measured
<1>11. Occupied <= MaxBytes => Occupied' <= MaxBytes
    BY <1>7, <1>8, <1>9, <1>10
<1> QED
    BY <1>2, <1>3, <1>11 DEF Fits

LEMMA BoundedStep ==
    ASSUME TypeOK, Bounded, [Next]_vars
    PROVE  Bounded'
<1>s. ASSUME Contents' = Contents PROVE Files' = Files /\ (Fits => Fits')
    <2>1. Files' = Files
        BY <1>s DEF Contents
    <2> QED
        BY <1>s, <2>1 DEF Fits, Occupied
<1>1. ASSUME Contents' = Contents,
             \/ op' \notin {"scan", "evict"} /\ ~excused'
                  => op \notin {"scan", "evict"} /\ ~excused
             \/ op' \in {"scan", "evict"} \/ excused'
      PROVE  Bounded'
    BY <1>s, <1>1 DEF Bounded
<1>d. dir' = dir => Contents' = Contents
    BY DEF Contents, Files, Holding
<1>2. CASE Open \/ Close \/ Crash
    <2>1. CASE Open \/ Close
        BY <1>1, <1>d, <2>1 DEF Open, Close
    <2>2. CASE Crash
        <3>1. ~excused' => op \notin {"scan", "evict"} /\ ~excused
            BY <2>2 DEF Crash, TypeOK
        <3> QED
            BY <1>1, <1>d, <2>2, <3>1 DEF Crash
    <2> QED
        BY <1>2, <2>1, <2>2
<1>3. ASSUME NEW n \in Files, Spoil(n) PROVE Bounded'
    <2>1. Files' = Files /\ \A m \in Files : dir'[m].win = dir[m].win
        BY <1>3 DEF Spoil, Files, TypeOK
    <2>2. Contents' = Contents
        BY <2>1 DEF Contents, Holding
    <2> QED
        BY <1>3, <1>1, <2>2 DEF Spoil
<1>4. CASE \E w \in Windows : RefuseAdd(w) \/ \E start \in Starts : BeginAdd(w, start)
    BY <1>4, <1>1, <1>d DEF RefuseAdd, BeginAdd
<1>5. CASE \/ CreateTemp \/ WriteTemp \/ Measure \/ FailEvict
           \/ \E f \in pending : FailAdd(f)
    BY <1>5, <1>1, <1>d
       DEF CreateTemp, WriteTemp, Measure, FailEvict, FailAdd
<1>6. ASSUME NEW f \in pending, Rename(f) PROVE Bounded'
    <2>1. Files' = Files \cup {f.name} /\ op' = "scan"
        BY <1>6 DEF Rename, Files
    <2> QED
        BY <2>1, FS_AddElement DEF Bounded
<1>7. ASSUME NEW n \in Files, EvictOldest(n) PROVE Bounded'
    BY <1>7, RemoveFits DEF EvictOldest, Bounded
<1>8. CASE EndAdd
    <2>1. ~MustEvict /\ Contents' = Contents /\ (~excused' => unsized = {})
        BY <1>8, <1>d DEF EndAdd
    <2>2. MaxBytes \in Nat /\ Cardinality(Files) \in Nat
        BY SpoolAssumption, FS_CardinalityType DEF Bounded
    <2>3. TotalBytes \in Int /\ (unsized = {} => TotalBytes = Occupied)
        BY CountedIn DEF Bounded
    <2>4. ~excused' => Fits
        BY <2>1, <2>2, <2>3 DEF MustEvict, Fits
    <2> QED
        BY <1>s, <2>1, <2>4 DEF Bounded
<1>9. CASE BeginPeek \/ RefusePeek \/ EndPeek \/ BeginDiscard \/ EndDiscard
    BY <1>9, <1>1, <1>d DEF BeginPeek, RefusePeek, EndPeek, BeginDiscard, EndDiscard
<1>10. ASSUME NEW n \in todo, TakeGood(n) \/ FailPeek(n) \/ FailDiscard(n) PROVE Bounded'
    BY <1>10, <1>1, <1>d DEF TakeGood, FailPeek, FailDiscard, Reading
<1>11. ASSUME NEW n \in todo, DropCorrupt(n) \/ DiscardNext(n) PROVE Bounded'
    <2>1. CASE dir' = Without(n) /\ n \in Files
        BY <1>11, <2>1, RemoveFits DEF DropCorrupt, DiscardNext, Reading, Bounded
    <2>2. CASE dir' = dir
        BY <1>11, <2>2, <1>1, <1>d DEF DropCorrupt, DiscardNext, Reading
    <2> QED
        BY <1>11, <2>1, <2>2 DEF DropCorrupt, DiscardNext, Reading, TypeOK
<1>12. CASE UNCHANGED vars
    BY <1>12, <1>1, <1>d DEF vars
<1> QED
    BY <1>2, <1>3, <1>4, <1>5, <1>6, <1>7, <1>8, <1>9, <1>10, <1>11, <1>12
       DEF Next, Call, Step, AddStep, PeekStep, DiscardStep

LEMMA BoundedInit == Init => Bounded
<1> SUFFICES ASSUME Init PROVE Bounded
    OBVIOUS
<1>1. Files = {}
    BY DEF Init, Files
<1>2. IsFiniteSet(Files) /\ Cardinality(Files) = 0
    BY <1>1, FS_EmptySet
<1> QED
    BY <1>2 DEF Bounded, Fits

LEMMA BoundedSuffices == TypeOK /\ Bounded => CapHolds
<1> SUFFICES ASSUME TypeOK, Bounded, Fits
             PROVE  Occupied <= MaxBytes \/ Cardinality(Files) = 1
    BY DEF CapHolds, Bounded, Occupied
<1>1. CASE Files = {}
    <2>1. Occupied = 0
        BY <1>1, SumEmpty DEF Occupied, Bytes, Contents
    <2> QED
        BY <2>1, SpoolAssumption
<1>2. CASE Files # {}
    BY <1>2, FS_EmptySet, FS_CardinalityType DEF Bounded, Fits
<1> QED
    BY <1>1, <1>2

\* While no Add enforces the cap, the files in the directory fit it or are a
\* single window, for every cap and all sizes, unless the last enforceCap was
\* killed, failed, or went without the size of a file that stayed: whatever else
\* failed before, and however often the process was killed.
THEOREM DirectoryFits == Spec => []CapHolds
<1>1. Init => TypeOK /\ Bounded
    BY TypeInit, BoundedInit
<1>2. TypeOK /\ Bounded /\ [Next]_vars => (TypeOK /\ Bounded)'
    BY TypeStep, BoundedStep
<1>3. TypeOK /\ Bounded => CapHolds
    BY BoundedSuffices
<1> QED
    BY <1>1, <1>2, <1>3, PTL DEF Spec

\* After an Add without an error enforceCap was neither cut off nor, unless a
\* Stat can fail, left without a size.
Complete ==
    /\ unsized = {}
    /\ result = "added" => op \in {"down", "idle"} /\ ~excused

LEMMA CompleteStep ==
    ASSUME "stat" \notin Faults, TypeOK, Complete, [Next]_vars
    PROVE  Complete'
<1> USE DEF Complete
<1>1. CASE Open \/ Close \/ Crash \/ \E n \in Files : Spoil(n)
    BY <1>1 DEF Open, Close, Crash, Spoil
<1>2. CASE Call \/ PeekStep
    BY <1>2
       DEF Call, BeginAdd, RefuseAdd, BeginPeek, RefusePeek, BeginDiscard,
           PeekStep, TakeGood, DropCorrupt, EndPeek, FailPeek, Reading
<1>3. CASE AddStep
    BY <1>3
       DEF AddStep, CreateTemp, WriteTemp, FailAdd, Rename, Measure,
           EvictOldest, EndAdd, FailEvict
<1>4. CASE DiscardStep
    BY <1>4 DEF DiscardStep, DiscardNext, FailDiscard, EndDiscard
<1>5. CASE UNCHANGED vars
    BY <1>5 DEF vars
<1> QED
    BY <1>1, <1>2, <1>3, <1>4, <1>5 DEF Next, Step

\* As long as the size of a file can always be told, an Add that returns no
\* error has brought the spool within its bound, or to a single window.
THEOREM AddFits ==
    ASSUME "stat" \notin Faults
    PROVE  Spec => []AddKeepsBound
<1>1. Init => TypeOK /\ Bounded /\ Complete
    BY TypeInit, BoundedInit DEF Init, Complete
<1>2. TypeOK /\ Bounded /\ Complete /\ [Next]_vars => (TypeOK /\ Bounded /\ Complete)'
    BY TypeStep, BoundedStep, CompleteStep
<1>3. TypeOK /\ Bounded /\ Complete => AddKeepsBound
    BY BoundedSuffices DEF Complete, CapHolds, AddKeepsBound
<1> QED
    BY <1>1, <1>2, <1>3, PTL DEF Spec
=============================================================================
