---------------------------- MODULE StoreProofs ----------------------------
(***************************************************************************)
(* Spool implements WindowStore: every step of a call maps to one step of  *)
(* the abstract store or to a stutter.                                     *)
(*                                                                         *)
(* The strengthening that the mapping needs is about a call in progress:   *)
(* what Peek has taken is older than what it still has to read, and what   *)
(* it has passed over for good is damaged (CallInv).  That the directory   *)
(* is finite (in Bounded) says that what enforceCap adds up, some sizes    *)
(* missing, is no more than what there is.                                 *)
(***************************************************************************)
EXTENDS SpoolProofs

CallInv ==
    /\ op = "peek" =>
          /\ batch \subseteq Files
          /\ \A m \in batch, n \in todo : Older(m, n)
          /\ \A n \in Files \ (batch \cup todo) : dir[n].state # "good"
    /\ op = "discard" => todo \subseteq batch

LEMMA CallStep ==
    ASSUME TypeOK, CallInv, [Next]_vars
    PROVE  CallInv'
<1> USE DEF CallInv, Files
<1>1. ASSUME UNCHANGED <<dir, op, todo, batch>> PROVE CallInv'
    BY <1>1
<1>2. ASSUME op' \notin {"peek", "discard"} PROVE CallInv'
    BY <1>2
<1>3. ASSUME \/ Open \/ Close \/ Crash \/ CreateTemp \/ WriteTemp
             \/ Measure \/ EndAdd \/ FailEvict
             \/ RefusePeek \/ EndPeek \/ EndDiscard
             \/ \E w \in Windows, start \in Starts : BeginAdd(w, start)
             \/ \E w \in Windows : RefuseAdd(w)
             \/ \E f \in pending : FailAdd(f) \/ Rename(f)
             \/ \E n \in Files : EvictOldest(n)
             \/ \E n \in todo : FailPeek(n) \/ FailDiscard(n)
             \/ UNCHANGED vars
      PROVE  CallInv'
    BY <1>1, <1>2, <1>3
       DEF Open, Close, Crash, CreateTemp, WriteTemp, Measure, EndAdd,
           FailEvict, RefusePeek, EndPeek, EndDiscard, BeginAdd, RefuseAdd, FailAdd, Rename, EvictOldest,
           FailPeek, FailDiscard, vars
<1>4. ASSUME NEW n \in Files, Spoil(n) PROVE CallInv'
    <2>1. Files' = Files /\ \A m \in Files : m # n => dir'[m] = dir[m]
        BY <1>4 DEF Spoil, TypeOK
    <2>2. dir'[n].state # "good"
        BY <1>4 DEF Spoil, TypeOK
    <2> QED
        BY <1>4, <2>1, <2>2 DEF Spoil
<1>5. CASE BeginPeek
    BY <1>5 DEF BeginPeek
<1>6. CASE BeginDiscard
    BY <1>6 DEF BeginDiscard
<1>7. ASSUME NEW n \in todo, TakeGood(n) PROVE CallInv'
    BY <1>7 DEF TakeGood, Reading, IsOldest, TypeOK
<1>8. ASSUME NEW n \in todo, DropCorrupt(n) PROVE CallInv'
    <2>1. op = "peek" /\ dir[n].state = "corrupt" /\ todo' = todo \ {n}
          /\ UNCHANGED <<op, batch>>
        BY <1>8 DEF DropCorrupt, Reading
    <2>2. CASE dir' = Without(n)
        <3>1. Files' = Files \ {n} /\ \A m \in Files' : dir'[m] = dir[m]
            BY <2>2 DEF Without
        <3>2. n \notin batch
            BY <2>1, SpoolAssumption DEF Older, TypeOK, WinNames
        <3> QED
            BY <2>1, <3>1, <3>2
    <2>3. CASE UNCHANGED dir
        BY <2>1, <2>3
    <2> QED
        BY <1>8, <2>2, <2>3 DEF DropCorrupt
<1>9. ASSUME NEW n \in todo, DiscardNext(n) PROVE CallInv'
    BY <1>9 DEF DiscardNext
<1> QED
    BY <1>3, <1>4, <1>5, <1>6, <1>7, <1>8, <1>9
       DEF Next, Call, Step, AddStep, PeekStep, DiscardStep

-----------------------------------------------------------------------------
(***************************************************************************)
(* The mapping.                                                            *)
(***************************************************************************)

Spoiled == {n \in Files : dir[n].state # "good"}
Offered == IF op = "peek" THEN {} ELSE batch

MapInv == SafeInv /\ CallInv /\ Bounded

LEMMA InitMaps == Init => Store!Init
BY DEF Init, Store!Init, Contents, Files

\* An eviction, a purge or a release removes one name on both levels.
LEMMA RemoveMaps ==
    ASSUME TypeOK, NEW n \in Files, NEW what \in Fates,
           dir' = Without(n), Lose(n, what), UNCHANGED <<op, batch>>
    PROVE  Store!Remove(n)
<1>1. /\ Files' = Files \ {n}
      /\ \A m \in Files' : dir'[m] = dir[m]
    BY RemoveType
<1>2. Contents' = [m \in Files \ {n} |-> Contents[m]]
    BY <1>1 DEF Contents, Holding
<1>3. DOMAIN Contents = Files
    BY DEF Contents
<1> QED
    BY <1>1, <1>2, <1>3 DEF Store!Remove, Store!Names

\* A step that changes no file, no damage and no offer is a stutter.
LEMMA StutterMaps ==
    ASSUME UNCHANGED <<dir, Offered>>
    PROVE  UNCHANGED Store!vars
BY DEF Store!vars, Contents, Files, Holding, Offered

\* The end of a call or of a process withdraws what was offered.
LEMMA WithdrawMaps ==
    ASSUME UNCHANGED dir, batch' = {}
    PROVE  Store!Next
BY DEF Store!Next, Store!Withdraw, Contents, Files, Holding

LEMMA StepMaps ==
    ASSUME ~RestartOverlap, MapInv, [Next]_vars
    PROVE  [Store!Next]_Store!vars
<1>t. TypeOK /\ Store!Names = Files
    BY DEF MapInv, SafeInv, Store!Names, Contents
<1>1. ASSUME \/ Open \/ Crash \/ BeginPeek \/ RefusePeek \/ EndDiscard
             \/ \E n \in todo : FailPeek(n) \/ FailDiscard(n)
      PROVE  Store!Next
    BY <1>1, WithdrawMaps
       DEF Open, Crash, BeginPeek, RefusePeek, EndDiscard, FailPeek, FailDiscard
<1>2. ASSUME \/ Close \/ CreateTemp \/ WriteTemp \/ Measure
             \/ EndAdd \/ FailEvict \/ BeginDiscard
             \/ \E w \in Windows, start \in Starts : BeginAdd(w, start)
             \/ \E w \in Windows : RefuseAdd(w)
             \/ \E f \in pending : FailAdd(f)
             \/ \E n \in todo : TakeGood(n)
             \/ UNCHANGED vars
      PROVE  UNCHANGED Store!vars
    BY <1>2, StutterMaps
       DEF Close, CreateTemp, WriteTemp, Measure, EndAdd, FailEvict,
           BeginDiscard, BeginAdd, RefuseAdd, FailAdd, TakeGood, Reading, vars, Offered
<1>3. ASSUME NEW n \in Files, Spoil(n) PROVE Store!Next
    <2>1. /\ Files' = Files /\ \A m \in Files : Holding(m)' = Holding(m)
          /\ \A m \in Files : m # n => dir'[m] = dir[m]
          /\ dir'[n].state # "good"
        BY <1>3, <1>t DEF Spoil, TypeOK, Files, Holding
    <2>2. Contents' = Contents
        BY <2>1 DEF Contents
    <2>3. Spoiled' = Spoiled \cup {n}
        BY <2>1 DEF Spoiled
    <2>4. Store!Spoil(n)
        BY <1>3, <2>2, <2>3 DEF Spoil, Store!Spoil, Spoiled
    <2> QED
        BY <1>t, <2>4 DEF Store!Next
<1>4. ASSUME NEW f \in pending, Rename(f) PROVE Store!Next
    <2>1. /\ f.name \notin Files
          /\ f.win \in Windows /\ fate[f.win] = "adding"
          /\ \A n \in Files : fate[Holding(n)] = "stored"
        BY DEF MapInv, SafeInv, NamesFresh, Once, TypeOK
    <2>2. /\ Files' = Files \cup {f.name}
          /\ dir'[f.name] = [win |-> f.win, state |-> "good"]
          /\ \A n \in Files : dir'[n] = dir[n]
        BY <1>4, <2>1 DEF Rename, Files
    <2>3. Contents' = [m \in Files \cup {f.name} |->
                         IF m = f.name THEN f.win ELSE Contents[m]]
        BY <2>1, <2>2 DEF Contents, Holding
    <2>4. f.win \notin Store!Range(Contents)
        BY <2>1 DEF Contents, Store!Range
    <2>5. Spoiled' = Spoiled
        BY <2>1, <2>2 DEF Spoiled
    <2>6. Store!Put(f.name, f.win)
        BY <1>4, <1>t, <2>1, <2>3, <2>4, <2>5 DEF Store!Put, Rename, Spoiled
    <2>7. f.name \in Store!Names' \ Store!Names
        BY <1>t, <2>1, <2>3 DEF Store!Names
    <2> QED
        BY <2>1, <2>6, <2>7 DEF Store!Next
<1>5. ASSUME NEW n \in Files, EvictOldest(n) PROVE Store!Next
    <2>1. Files # {n}
        <3>1. Cardinality(Files) > 1
            BY <1>5 DEF EvictOldest, MustEvict
        <3>2. Cardinality({n}) = 1
            BY FS_Singleton
        <3> QED
            BY <3>1, <3>2
    <2>2. Store!Remove(n)
        BY <1>5, <1>t, RemoveMaps DEF EvictOldest, Fates
    <2>3. TotalBytes > MaxBytes /\ TotalBytes \in Int /\ MaxBytes \in Nat
          /\ Occupied \in Int /\ TotalBytes <= Occupied
        BY <1>5, <1>t, CountedIn, Measured, SpoolAssumption
           DEF EvictOldest, MustEvict, MapInv, Bounded
    <2>4. Bytes(Contents) > MaxBytes
        BY <2>3 DEF Occupied
    <2>5. Store!Evict(n)
        BY <1>5, <1>t, <2>1, <2>2, <2>4
           DEF EvictOldest, Store!Evict, IsOldest, Store!IsOldest, Older, Store!Older
    <2> QED
        BY <1>t, <2>5 DEF Store!Next
<1>6. ASSUME NEW n \in todo, DropCorrupt(n) PROVE [Store!Next]_Store!vars
    <2>1. n \in Files /\ dir[n].state # "good"
        BY <1>6, <1>t DEF DropCorrupt, Reading, TypeOK
    <2>2. CASE dir' = Without(n) /\ Lose(n, "purged")
        <3>1. Store!Remove(n)
            BY <1>6, <1>t, <2>1, <2>2, RemoveMaps DEF DropCorrupt, Fates
        <3>2. Store!Purge(n)
            BY <2>1, <3>1 DEF Store!Purge
        <3> QED
            BY <1>t, <2>1, <3>2 DEF Store!Next
    <2>3. CASE UNCHANGED <<dir, fate>>
        BY <1>6, <2>3, StutterMaps DEF DropCorrupt, Offered
    <2> QED
        BY <1>6, <2>2, <2>3 DEF DropCorrupt
<1>7. ASSUME EndPeek PROVE Store!Next
    <2>1. /\ batch \subseteq Files /\ Offered' = batch
          /\ Contents' = Contents /\ Spoiled' = Spoiled
        BY <1>7 DEF EndPeek, MapInv, CallInv, Offered, Contents, Files, Holding,
                    Spoiled
    <2>2. ASSUME NEW n \in Files \ (batch \cup Spoiled)
          PROVE  Cardinality(batch) = MaxBatch /\ \A m \in batch : Older(m, n)
        <3>1. n \in todo
            BY <1>7, <2>2 DEF EndPeek, MapInv, CallInv, Spoiled
        <3>2. Cardinality(batch) \in Nat /\ Cardinality(batch) <= MaxBatch
            BY <1>t, FS_CardinalityType DEF TypeOK
        <3>3. ~(Cardinality(batch) < MaxBatch) /\ MaxBatch \in Nat
            BY <1>7, <3>1, SpoolAssumption DEF EndPeek, PeekMore
        <3> QED
            BY <1>7, <3>1, <3>2, <3>3 DEF EndPeek, MapInv, CallInv
    <2>3. Cardinality(batch) <= MaxBatch
        BY <1>t DEF TypeOK
    <2>4. Store!Offer(batch)
        <3>1. \A n \in Files \ (batch \cup Spoiled) :
                 Cardinality(batch) = MaxBatch /\ \A m \in batch : Store!Older(m, n)
            BY <2>2 DEF Older, Store!Older
        <3>2. UNCHANGED <<Contents, Spoiled>> /\ Offered' = batch
            BY <2>1
        <3>3. batch \subseteq Store!Names
            BY <1>t, <2>1
        <3>4. \A n \in Store!Names \ (batch \cup Spoiled) :
                 Cardinality(batch) = MaxBatch /\ \A m \in batch : Store!Older(m, n)
            BY <1>t, <3>1
        <3>5. Store!Cardinality(batch) = Cardinality(batch)
            BY Zenon DEF Store!Cardinality, Cardinality
        <3> QED
            BY <2>3, <3>2, <3>3, <3>4, <3>5, Zenon DEF Store!Offer, Spoiled, Offered
    <2> QED
        BY <2>1, <2>4 DEF Store!Next, Offered
<1>8. ASSUME NEW n \in todo, DiscardNext(n) PROVE [Store!Next]_Store!vars
    <2>1. CASE n \in Files
        <3>1. Store!Remove(n)
            BY <1>8, <1>t, <2>1, RemoveMaps DEF DiscardNext, Fates
        <3>2. Store!Release(n)
            BY <1>8, <3>1 DEF DiscardNext, MapInv, CallInv, Store!Release
        <3> QED
            BY <1>t, <2>1, <3>2 DEF Store!Next
    <2>2. CASE n \notin Files
        BY <1>8, <2>2, StutterMaps DEF DiscardNext, Offered
    <2> QED
        BY <2>1, <2>2
<1> QED
    BY <1>1, <1>2, <1>3, <1>4, <1>5, <1>6, <1>7, <1>8
       DEF Next, Call, Step, AddStep, PeekStep, DiscardStep

\* The directory and its operations implement the abstract store, for every
\* combination of faults and crashes, when start instants do not recur across
\* restarts.
THEOREM SpoolImplementsStore ==
    ASSUME ~RestartOverlap
    PROVE  Spec => ImplementsStore
<1>1. Init => MapInv
    BY TypeInit, SafeInit, BoundedInit DEF MapInv, SafeInv, CallInv, Init
<1>2. MapInv /\ [Next]_vars => MapInv'
    BY SafeAgain, CallStep, BoundedStep DEF MapInv, SafeInv
<1>3. MapInv /\ [Next]_vars => [Store!Next]_Store!vars
    BY StepMaps
<1> QED
    BY <1>1, <1>2, <1>3, InitMaps, PTL DEF Spec, ImplementsStore, Store!Spec
=============================================================================
