------------------------------- MODULE Spool -------------------------------
(***************************************************************************)
(* internal/spool: the directory that holds closed windows until the       *)
(* platform has acknowledged them.                                         *)
(*                                                                         *)
(* One action is one file operation that can fail or be cut off by a       *)
(* crash: creating the temporary file, filling it, renaming it, listing    *)
(* the directory, sizing its files, removing one file, reading one file.   *)
(* Filling the file is one step of four calls (Write, Sync, Close, Chmod): *)
(* whichever fails or is cut off, the file is there and is not read.       *)
(* A call of the package (Add, Peek, Discard) is the run of such steps     *)
(* from its Begin action to the step that returns to op = "idle"; the      *)
(* calls do not overlap because the agent has one goroutine.               *)
(*                                                                         *)
(* Simplifications: a window is a model value of a fixed encoded size; a   *)
(* file is good, corrupt (it does not decode) or unreadable (opening it    *)
(* fails); the sequence number does not wrap; a rename is durable.         *)
(***************************************************************************)
EXTENDS Naturals, FiniteSets, Sums, WindowNames

CONSTANTS
    Windows,        \* identities of closed windows, each produced once
    Starts,         \* start instants a window can have
    Size,           \* bytes of a window's encoding
    MaxBytes,       \* Spool.MaxBytes
    MaxBatch,       \* the n of Peek
    MaxCrashes,     \* bound: how often the process may be killed
    Faults,         \* which file operations may fail
    RestartOverlap  \* may a process produce a window with the start instant
                    \* of a file that its predecessor left behind?

FaultKinds == {"write", "remove", "scan", "stat", "read", "corrupt"}

ASSUME SpoolAssumption ==
    /\ Starts \subseteq Nat
    /\ Size \in [Windows -> Nat]
    /\ MaxBytes \in Nat
    /\ MaxBatch \in Nat \ {0}
    /\ MaxCrashes \in Nat
    /\ Faults \subseteq FaultKinds
    /\ RestartOverlap \in BOOLEAN

ASSUME FiniteWindows == IsFiniteSet(Windows)

VARIABLES
    dir,        \* the spool directory: name -> [win, state]
    temps,      \* windows whose temporary file is in the directory
    seq,        \* Spool.seq, in memory
    op,         \* the step the running call is at
    pending,    \* the file Add is about to publish: none or one [name, win]
    todo,       \* names the running Peek or Discard has still to visit
    batch,      \* the entries of the last Peek
    dropped,    \* enforceCap's dropped
    unsized,    \* names of which enforceCap's sizes has no entry
    result,     \* what the last Peek returned, or that an Add succeeded
    \* history
    fate,       \* what has become of each window
    reported,   \* sum of the arguments of OnDrop
    inherited,  \* names found in the directory when the process started
    crashes,
    excused     \* was enforceCap, when it last ran, cut off or not told
                \* how large a file that stayed is?

vars == <<dir, temps, seq, op, pending, todo, batch, dropped, unsized,
          result, fate, reported, inherited, crashes, excused>>

WinNames == [start : Starts, seq : Nat]
FileStates == {"good", "corrupt", "unreadable"}
Fates == {"new", "adding", "stored", "discarded", "evicted", "purged",
          "failed", "crashed"}

Files == DOMAIN dir
Holding(n) == dir[n].win

Contents == [n \in Files |-> Holding(n)]
\* What files with these contents occupy.
Bytes(contents) ==
    SumOver([n \in DOMAIN contents |-> Size[contents[n]]], DOMAIN contents)
\* enforceCap's total: a file whose Stat failed is not in it.
TotalBytes == SumOver([n \in Files |-> Size[Holding(n)]], Files \ unsized)

Without(n) == [m \in Files \ {n} |-> dir[m]]

Init ==
    /\ dir = [n \in {} |-> {}]
    /\ temps = {} /\ seq = 0 /\ op = "down" /\ pending = {}
    /\ todo = {} /\ batch = {} /\ dropped = 0 /\ unsized = {} /\ result = "none"
    /\ fate = [w \in Windows |-> "new"]
    /\ reported = 0 /\ inherited = {} /\ crashes = 0 /\ excused = FALSE

-----------------------------------------------------------------------------
(***************************************************************************)
(* The life of the process that owns the spool.                            *)
(***************************************************************************)

\* A new process: what it remembers is empty, what is on disk is not.
Open ==
    /\ op = "down"
    /\ op' = "idle" /\ seq' = 0 /\ inherited' = Files
    /\ result' = "none" /\ batch' = {}
    /\ UNCHANGED <<dir, temps, pending, todo, dropped, unsized, fate, reported,
                   crashes, excused>>

Close ==
    /\ op = "idle"
    /\ op' = "down"
    /\ UNCHANGED <<dir, temps, seq, pending, todo, batch, dropped, unsized,
                   result, fate, reported, inherited, crashes, excused>>

\* Killed between any two file operations.
Crash ==
    /\ op # "down" /\ crashes < MaxCrashes
    /\ crashes' = crashes + 1
    /\ excused' = (excused \/ op \in {"scan", "evict"})
    /\ op' = "down"
    /\ pending' = {} /\ todo' = {} /\ batch' = {} /\ dropped' = 0
    /\ unsized' = {} /\ result' = "none"
    /\ fate' = [w \in Windows |-> IF fate[w] = "adding" THEN "crashed" ELSE fate[w]]
    /\ UNCHANGED <<dir, temps, seq, reported, inherited>>

\* The storage damages a file.
Spoil(n) ==
    /\ n \in Files /\ dir[n].state = "good"
    /\ \E s \in {t \in FileStates : \/ t = "corrupt" /\ "corrupt" \in Faults
                                    \/ t = "unreadable" /\ "read" \in Faults} :
          dir' = [dir EXCEPT ![n].state = s]
    /\ UNCHANGED <<temps, seq, op, pending, todo, batch, dropped, unsized,
                   result, fate, reported, inherited, crashes, excused>>

-----------------------------------------------------------------------------
(***************************************************************************)
(* Add: name, fill a temporary file, rename it, then enforceCap.           *)
(***************************************************************************)

CanStart(start) ==
    RestartOverlap \/ start \notin {n.start : n \in inherited}

\* Mutant: the suffix is not counted up.
NextSeqStuck(s) == 1
NextSeq(s) == s + 1

\* pending is the final name, chosen before anything is written.
BeginAdd(w, start) ==
    /\ op = "idle" /\ fate[w] = "new" /\ CanStart(start)
    /\ seq' = NextSeq(seq)
    /\ pending' = {[name |-> Name(start, seq'), win |-> w]}
    /\ op' = "create" /\ result' = "none"
    /\ fate' = [fate EXCEPT ![w] = "adding"]
    /\ UNCHANGED <<dir, temps, todo, batch, dropped, unsized, reported,
                   inherited, crashes, excused>>

\* The directory cannot be made, or the window cannot be encoded.
RefuseAdd(w) ==
    /\ op = "idle" /\ fate[w] = "new" /\ "write" \in Faults
    /\ result' = "none"
    /\ fate' = [fate EXCEPT ![w] = "failed"]
    /\ UNCHANGED <<dir, temps, seq, op, pending, todo, batch, dropped, unsized,
                   reported, inherited, crashes, excused>>

\* From here on a temporary file is in the directory, and its Remove deferred.
CreateTemp ==
    /\ op = "create"
    /\ op' = "write"
    /\ temps' = temps \cup {f.win : f \in pending}
    /\ UNCHANGED <<dir, seq, pending, todo, batch, dropped, unsized, result,
                   fate, reported, inherited, crashes, excused>>

\* The temporary file is written, synced, closed and made private.
WriteTemp ==
    /\ op = "write"
    /\ op' = "rename"
    /\ UNCHANGED <<dir, temps, seq, pending, todo, batch, dropped, unsized,
                   result, fate, reported, inherited, crashes, excused>>

\* Mutant: only the paths before the rename clear the temporary file away.
CleanedBefore(f) == IF op = "rename" THEN temps ELSE temps \ {f.win}
Cleaned(f) == temps \ {f.win}

\* The temporary file cannot be created, filled or renamed.  The deferred Remove
\* clears it away, unless it fails too.
FailAdd(f) ==
    /\ op \in {"create", "write", "rename"} /\ f \in pending /\ "write" \in Faults
    /\ op' = "idle" /\ pending' = {}
    /\ \/ temps' = Cleaned(f)
       \/ "remove" \in Faults /\ temps' = temps
    /\ fate' = [fate EXCEPT ![f.win] = "failed"]
    /\ UNCHANGED <<dir, seq, todo, batch, dropped, unsized, result, reported,
                   inherited, crashes, excused>>

\* rename(2) replaces a file of the same name.
Rename(f) ==
    /\ op = "rename" /\ f \in pending
    /\ dir' = [n \in Files \cup {f.name} |->
                 IF n = f.name THEN [win |-> f.win, state |-> "good"] ELSE dir[n]]
    /\ temps' = temps \ {f.win}
    /\ op' = "scan" /\ pending' = {}
    /\ fate' = [fate EXCEPT ![f.win] = "stored"]
    /\ UNCHANGED <<seq, todo, batch, dropped, unsized, result, reported,
                   inherited, crashes, excused>>

\* enforceCap lists the directory and sizes the files.  One whose Stat fails is
\* passed over: it counts for nothing, and no error is returned.
Measure ==
    /\ op = "scan"
    /\ op' = "evict"
    /\ \E missed \in SUBSET Files :
          /\ missed # {} => "stat" \in Faults
          /\ unsized' = missed
    /\ UNCHANGED <<dir, temps, seq, pending, todo, batch, dropped, result,
                   fate, reported, inherited, crashes, excused>>

\* Mutant: the two newest windows stay.
MustEvictTwo == TotalBytes > MaxBytes /\ Cardinality(Files) > 2
\* The condition of enforceCap's loop; the newest window always stays.
MustEvict == TotalBytes > MaxBytes /\ Cardinality(Files) > 1

Lose(n, what) == fate' = [fate EXCEPT ![Holding(n)] = what]

EvictOldest(n) ==
    /\ op = "evict" /\ MustEvict /\ IsOldest(n, Files)
    /\ dir' = Without(n) /\ Lose(n, "evicted")
    /\ dropped' = dropped + 1 /\ unsized' = unsized \ {n}
    /\ UNCHANGED <<temps, seq, op, pending, todo, batch, result, reported,
                   inherited, crashes, excused>>

\* Mutant: counts the calls, not the windows.
OnDropCalled(n) == reported' = IF n = 0 THEN reported ELSE reported + 1
OnDrop(n) == reported' = reported + n

\* OnDrop is called once, after the loop.
EndAdd ==
    /\ op = "evict" /\ ~MustEvict
    /\ op' = "idle" /\ dropped' = 0 /\ unsized' = {} /\ result' = "added"
    /\ OnDrop(dropped) /\ excused' = (unsized # {})
    /\ UNCHANGED <<dir, temps, seq, pending, todo, batch, fate, inherited,
                   crashes>>

\* The directory cannot be listed, or a Remove fails in the loop: enforceCap
\* returns without calling OnDrop.
FailEvict ==
    /\ \/ op = "scan" /\ "scan" \in Faults
       \/ op = "evict" /\ MustEvict /\ "remove" \in Faults
    /\ op' = "idle" /\ dropped' = 0 /\ unsized' = {} /\ excused' = TRUE
    /\ UNCHANGED <<dir, temps, seq, pending, todo, batch, result, fate,
                   reported, inherited, crashes>>

-----------------------------------------------------------------------------
(***************************************************************************)
(* Peek: list the directory once, then read the files oldest first.        *)
(***************************************************************************)

BeginPeek ==
    /\ op = "idle"
    /\ op' = "peek" /\ todo' = Files /\ batch' = {} /\ result' = "none"
    /\ UNCHANGED <<dir, temps, seq, pending, dropped, unsized, fate, reported,
                   inherited, crashes, excused>>

\* The directory cannot be listed.
RefusePeek ==
    /\ op = "idle" /\ "scan" \in Faults
    /\ batch' = {} /\ result' = "error"
    /\ UNCHANGED <<dir, temps, seq, op, pending, todo, dropped, unsized, fate,
                   reported, inherited, crashes, excused>>

\* Mutant: one entry too many.
PeekOneMore == todo # {} /\ Cardinality(batch) <= MaxBatch
PeekMore == todo # {} /\ Cardinality(batch) < MaxBatch

\* Mutant: the directory's own order, without the sort.
ReadingUnsorted(n, state) ==
    /\ op = "peek" /\ PeekMore /\ n \in todo
    /\ dir[n].state = state
Reading(n, state) ==
    /\ op = "peek" /\ PeekMore /\ IsOldest(n, todo)
    /\ dir[n].state = state

TakeGood(n) ==
    /\ Reading(n, "good")
    /\ batch' = batch \cup {n} /\ todo' = todo \ {n}
    /\ UNCHANGED <<dir, temps, seq, op, pending, dropped, unsized, result,
                   fate, reported, inherited, crashes, excused>>

\* A file that does not decode is removed and passed over; an error of the
\* Remove is ignored.
DropCorrupt(n) ==
    /\ Reading(n, "corrupt")
    /\ \/ dir' = Without(n) /\ Lose(n, "purged")
       \/ "remove" \in Faults /\ UNCHANGED <<dir, fate>>
    /\ todo' = todo \ {n}
    /\ UNCHANGED <<temps, seq, op, pending, batch, dropped, unsized, result,
                   reported, inherited, crashes, excused>>

EndPeek ==
    /\ op = "peek" /\ ~PeekMore
    /\ op' = "idle" /\ todo' = {} /\ result' = "ok"
    /\ UNCHANGED <<dir, temps, seq, pending, batch, dropped, unsized, fate,
                   reported, inherited, crashes, excused>>

\* The next file cannot be opened: Peek returns the error and no entries.
FailPeek(n) ==
    /\ Reading(n, "unreadable")
    /\ op' = "idle" /\ todo' = {} /\ batch' = {} /\ result' = "error"
    /\ UNCHANGED <<dir, temps, seq, pending, dropped, unsized, fate, reported,
                   inherited, crashes, excused>>

-----------------------------------------------------------------------------
(***************************************************************************)
(* Discard: remove the entries one by one; one already gone is no error.   *)
(***************************************************************************)

BeginDiscard ==
    /\ op = "idle" /\ batch # {}
    /\ op' = "discard" /\ todo' = batch /\ result' = "none"
    /\ UNCHANGED <<dir, temps, seq, pending, batch, dropped, unsized, fate,
                   reported, inherited, crashes, excused>>

DiscardNext(n) ==
    /\ op = "discard" /\ IsOldest(n, todo)
    /\ IF n \in Files THEN dir' = Without(n) /\ Lose(n, "discarded")
                      ELSE UNCHANGED <<dir, fate>>
    /\ todo' = todo \ {n}
    /\ UNCHANGED <<temps, seq, op, pending, batch, dropped, unsized, result,
                   reported, inherited, crashes, excused>>

\* Discard stops at the first Remove that fails.
FailDiscard(n) ==
    /\ op = "discard" /\ IsOldest(n, todo)
    /\ n \in Files /\ "remove" \in Faults
    /\ op' = "idle" /\ todo' = {} /\ batch' = {}
    /\ UNCHANGED <<dir, temps, seq, pending, dropped, unsized, result, fate,
                   reported, inherited, crashes, excused>>

EndDiscard ==
    /\ op = "discard" /\ todo = {}
    /\ op' = "idle" /\ batch' = {}
    /\ UNCHANGED <<dir, temps, seq, pending, todo, dropped, unsized, result,
                   fate, reported, inherited, crashes, excused>>

-----------------------------------------------------------------------------
\* The steps a call takes by itself once it has begun.
AddStep ==
    \/ CreateTemp \/ WriteTemp
    \/ \E f \in pending : FailAdd(f) \/ Rename(f)
    \/ Measure
    \/ \E n \in Files : EvictOldest(n)
    \/ EndAdd
    \/ FailEvict

PeekStep ==
    \/ \E n \in todo : TakeGood(n) \/ DropCorrupt(n) \/ FailPeek(n)
    \/ EndPeek

DiscardStep ==
    \/ \E n \in todo : DiscardNext(n) \/ FailDiscard(n)
    \/ EndDiscard

Step == AddStep \/ PeekStep \/ DiscardStep

Call ==
    \/ \E w \in Windows : \/ \E start \in Starts : BeginAdd(w, start)
                          \/ RefuseAdd(w)
    \/ BeginPeek \/ RefusePeek
    \/ BeginDiscard

Next ==
    \/ Open \/ Close \/ Crash
    \/ \E n \in Files : Spoil(n)
    \/ Call
    \/ Step

Spec == Init /\ [][Next]_vars

-----------------------------------------------------------------------------
(***************************************************************************)
(* Properties.                                                             *)
(***************************************************************************)

\* Every variable has its type, a Peek never returns more entries than it was
\* asked for, and no local variable outlives the call it belongs to.
TypeOK ==
    /\ Files \subseteq WinNames
    /\ dir \in [Files -> [win : Windows, state : FileStates]]
    /\ temps \subseteq Windows
    /\ seq \in Nat
    /\ op \in {"down", "idle", "create", "write", "rename", "scan", "evict",
              "peek", "discard"}
    /\ pending \subseteq [name : WinNames, win : Windows]
    /\ todo \subseteq WinNames
    /\ batch \subseteq WinNames
    /\ IsFiniteSet(batch) /\ Cardinality(batch) <= MaxBatch
    /\ dropped \in Nat
    /\ unsized \subseteq Files
    /\ result \in {"none", "added", "ok", "error"}
    /\ fate \in [Windows -> Fates]
    /\ reported \in Nat
    /\ inherited \subseteq WinNames
    /\ crashes \in Nat /\ excused \in BOOLEAN
    /\ pending = {} \/ op \in {"create", "write", "rename"}
    /\ op = "peek" => todo \subseteq Files
    /\ op \notin {"peek", "discard"} => todo = {}
    /\ op # "evict" => dropped = 0 /\ unsized = {}

\* A window that Add published stays in the directory, once, until it is
\* discarded, evicted or found corrupt: no later Add, in this process or the
\* next one, replaces its file (spool.name, os.Rename).
NothingLost ==
    /\ {Holding(n) : n \in Files} = {w \in Windows : fate[w] = "stored"}
    /\ \A m, n \in Files : Holding(m) = Holding(n) => m = n

\* Between calls, everything that enforceCap has ever evicted has been
\* reported to OnDrop, unless the process was killed before it could.
EvictionsReported ==
    op = "idle" /\ crashes = 0 =>
        reported = Cardinality({w \in Windows : fate[w] = "evicted"})

\* Whatever the sequence of calls, the directory fits its bound or holds one
\* window while no Add enforces it.  A kill or an error in enforceCap, or a file
\* it could not size, can leave the directory over the bound, but only until
\* the next Add that gets through: however much is too many by then, it is
\* evicted.
CapHolds ==
    op \notin {"scan", "evict"} /\ ~excused =>
        Bytes(Contents) <= MaxBytes \/ Cardinality(Files) = 1

\* An Add that returned no error has brought the spool within its bound
\* (enforceCap: "deletes the oldest windows until the spool fits its bound").
AddKeepsBound ==
    result = "added" => Bytes(Contents) <= MaxBytes \/ Cardinality(Files) = 1

\* Only a kill leaves a temporary file behind: an Add that fails at whatever
\* point takes its own away (the deferred Remove in spool.write).
TempsFromKills == op \notin {"write", "rename"} => Cardinality(temps) <= crashes

\* The spool implements the abstract store.  During a Peek nothing is on
\* offer: the caller has given up the previous entries.
Store == INSTANCE WindowStore WITH
    held <- Contents,
    spoiled <- {n \in Files : dir[n].state # "good"},
    offered <- IF op = "peek" THEN {} ELSE batch

ImplementsStore == Store!Spec
=============================================================================
