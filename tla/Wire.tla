-------------------------------- MODULE Wire --------------------------------
(***************************************************************************)
(* internal/wire: what the platform may change about a running agent.      *)
(*                                                                         *)
(* A Config is three numbers of seconds, zero meaning "not set".  Settings *)
(* are the three durations the agent runs on, in the ticks of a            *)
(* time.Duration, whose arithmetic wraps.                                  *)
(***************************************************************************)
EXTENDS Integers

CONSTANTS
    Second,     \* time.Second, in ticks
    Modulus,    \* a time.Duration holds Modulus values (2^64 in the program)
    Lo, Hi      \* the bounds of each field, in ticks

Fields == {"interval", "flush", "window"}

ASSUME WireAssumption ==
    /\ Second \in Nat \ {0}
    /\ Modulus \in Nat \ {0}
    /\ Lo \in [Fields -> Nat \ {0}]
    /\ Hi \in [Fields -> Int]

\* Two's complement: the value that fits a Duration and is congruent to x.
Wrapped(x) == ((x + (Modulus \div 2)) % Modulus) - (Modulus \div 2)

Duration(seconds) == Wrapped(seconds * Second)

Sent(c) == {f \in Fields : c[f] # 0}

\* The time that a reply asks for, however long.
Asked(c, f) == c[f] * Second

InBounds(f, d) == Lo[f] <= d /\ d <= Hi[f]

\* Mutants: each field is checked and adopted on its own; what was not sent is
\* cleared; only the lower bound is checked.
ApplyEach(c, current) ==
    [f \in Fields |-> IF f \in Sent(c) /\ InBounds(f, Duration(c[f]))
                      THEN Duration(c[f]) ELSE current[f]]
ApplyFromZero(c, current) ==
    IF \A f \in Sent(c) : InBounds(f, Duration(c[f]))
    THEN [f \in Fields |-> Duration(c[f])] ELSE current
ApplyUncapped(c, current) ==
    IF \A f \in Sent(c) : Lo[f] <= Duration(c[f])
    THEN [f \in Fields |-> IF f \in Sent(c) THEN Duration(c[f]) ELSE current[f]]
    ELSE current

\* The settings after a reply.  A refused config leaves them as they are,
\* which is also all its caller does about the error.
Apply(c, current) ==
    IF \A f \in Sent(c) : InBounds(f, Duration(c[f]))
    THEN [f \in Fields |-> IF f \in Sent(c) THEN Duration(c[f]) ELSE current[f]]
    ELSE current
=============================================================================
