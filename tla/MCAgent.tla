------------------------------ MODULE MCAgent ------------------------------
(***************************************************************************)
(* Instances of Agent for TLC.  One tick is one second and the numbers are *)
(* small: windows of one or two ticks, three instants.                     *)
(***************************************************************************)
EXTENDS Agent

CONSTANTS w1, w2, w3, w4

MCSize == [w \in Windows |-> IF w = w2 THEN 2 ELSE 1]
MCLo == [f \in Fields |-> 1]
MCHi == [f \in Fields |-> 2]
MCFlags == [f \in Fields |-> 1]

Config(window) == [f \in Fields |-> IF f = "window" THEN window ELSE 0]
\* Unset, a change of width, and one that is out of bounds in one field only.
SomeConfigs == {Config(0), Config(2), [Config(3) EXCEPT !["interval"] = 2]}
\* 258 seconds wrap around to two.
WrappingConfigs == {Config(0), Config(258)}

Attempt(broke, status, decodes, verdict) ==
    [broke |-> broke, status |-> status, decodes |-> decodes, verdict |-> verdict]

Accepted == Attempt("none", 200, TRUE, "taken")
Garbled == Attempt("none", 200, FALSE, "taken")
CutOff == Attempt("read", 200, TRUE, "taken")
NoReply == Attempt("connect", 0, FALSE, "unknown")
Refused == Attempt("none", 422, TRUE, "refused")
BadToken == Attempt("none", 401, TRUE, "none")
Throttled == Attempt("none", 429, TRUE, "none")
Fault == Attempt("none", 503, TRUE, "unknown")

\* The batch is refused before it is sent.
Unencodable == Attempt("encode", 0, FALSE, "refused")
\* Other client errors, which count as refusals as well.
Missing == Attempt("none", 404, TRUE, "refused")
TooSlow == Attempt("none", 408, TRUE, "refused")

\* Every way in which Send can end, with a verdict that fits the reply.
EveryAttempt == {Accepted, Garbled, CutOff, NoReply, Refused, Missing, TooSlow,
                 Unencodable, BadToken, Throttled, Fault}
FewAttempts == {Accepted, NoReply, Refused}
=============================================================================
