----------------------------- MODULE WindowStore -----------------------------
(***************************************************************************)
(* What the spool promises its caller: a bounded, durable FIFO of windows. *)
(*                                                                         *)
(* A window that is held leaves the store in three ways only: the caller   *)
(* releases it after it was offered, it is the oldest of a store that is   *)
(* over its size, or its content is spoiled and cannot be offered.  A      *)
(* restart forgets what was offered and nothing else.                      *)
(***************************************************************************)
EXTENDS Naturals, FiniteSets, Functions, WindowNames

CONSTANTS
    Windows, MaxBytes, MaxBatch,
    Bytes(_)    \* the bytes occupied by a function from names to windows

VARIABLES
    held,       \* the windows in the store: name -> window
    spoiled,    \* names of held windows whose content is damaged
    offered     \* names handed to the caller and not yet settled

vars == <<held, spoiled, offered>>

Names == DOMAIN held

Init == held = [n \in {} |-> {}] /\ spoiled = {} /\ offered = {}

\* A window that is not held, under a name that is not used.
Put(n, w) ==
    /\ n \notin Names
    /\ w \notin Range(held)
    /\ held' = [m \in Names \cup {n} |-> IF m = n THEN w ELSE held[m]]
    /\ UNCHANGED <<spoiled, offered>>

Remove(n) ==
    /\ held' = [m \in Names \ {n} |-> held[m]]
    /\ spoiled' = spoiled \ {n}
    /\ UNCHANGED offered

\* Only the oldest goes, only when the store is too big, never the last one.
Evict(n) ==
    /\ IsOldest(n, Names) /\ Names # {n}
    /\ Bytes(held) > MaxBytes
    /\ Remove(n)

Spoil(n) ==
    /\ spoiled' = spoiled \cup {n}
    /\ UNCHANGED <<held, offered>>

Purge(n) == n \in spoiled /\ Remove(n)

\* At most MaxBatch of the oldest sound windows: nothing sound is passed over.
Offer(names) ==
    /\ names \subseteq Names
    /\ Cardinality(names) <= MaxBatch
    /\ \A n \in Names \ (names \cup spoiled) :
          /\ Cardinality(names) = MaxBatch
          /\ \A m \in names : Older(m, n)
    /\ offered' = names
    /\ UNCHANGED <<held, spoiled>>

Release(n) == n \in offered /\ Remove(n)

\* The caller is done with what it was offered, or a restart forgot it.
Withdraw == offered' = {} /\ UNCHANGED <<held, spoiled>>

Next ==
    \/ \E n \in Names' \ Names : \E w \in Windows : Put(n, w)
    \/ \E n \in Names : Evict(n) \/ Spoil(n) \/ Purge(n) \/ Release(n)
    \/ Offer(offered')
    \/ Withdraw

Spec == Init /\ [][Next]_vars
=============================================================================
