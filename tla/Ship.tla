-------------------------------- MODULE Ship --------------------------------
(***************************************************************************)
(* internal/ship: what one upload attempt tells the agent.                 *)
(*                                                                         *)
(* An attempt is where the exchange broke off, if it did, the status code  *)
(* of the reply, and whether its body decodes.                             *)
(***************************************************************************)
EXTENDS Naturals

Stages == {"encode", "connect", "read", "none"}
Kinds == {"ok", "retryable", "rejected", "unauthorized"}

\* Mutant: rate limiting is not told apart from the other client errors.
ClassifyCoarse(status) ==
    CASE status \in {401, 403} -> "unauthorized"
      [] status \in 400..499 \ {401, 403} -> "rejected"
      [] OTHER -> "retryable"

Classify(status) ==
    CASE status \in {401, 403} -> "unauthorized"
      [] status \in 400..499 \ {401, 403, 429} -> "rejected"
      [] OTHER -> "retryable"

\* The order of the checks in Client.Send: a body that cannot be read is
\* retryable whatever its status.
Send(attempt) ==
    CASE attempt.broke = "encode" -> "rejected"
      [] attempt.broke \in {"connect", "read"} -> "retryable"
      [] attempt.broke = "none" /\ attempt.status \notin 200..299 ->
            Classify(attempt.status)
      [] attempt.broke = "none" /\ attempt.status \in 200..299 ->
            IF attempt.decodes THEN "ok" ELSE "retryable"
=============================================================================
