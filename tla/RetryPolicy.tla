---------------------------- MODULE RetryPolicy ----------------------------
(***************************************************************************)
(* What the bridge decides from an error: retryDecision of the worker       *)
(* (src/src/queue/worker.ts), HttpError.retryable (src/src/http) and        *)
(* isAmbiguousSend of the router (src/src/router/message-router.ts).  An    *)
(* error is the part of a JavaScript error these functions look at.         *)
(***************************************************************************)
EXTENDS Naturals

Failure(type, status, code) == [type |-> type, status |-> status, code |-> code]

HttpFailure(status) == Failure("HttpError", status, "")
AwsFailure(status) == Failure("AwsError", status, "")
CodedFailure(code) == Failure("Error", 0, code)
NamedFailure(type) == Failure(type, 0, "")

DeliveryUnknown == NamedFailure("DeliveryUnknownError")
PlainError == NamedFailure("Error")
LeaseLost == PlainError                    \* new Error("Job lease was lost")
UniqueViolation == CodedFailure("23505")   \* PostgreSQL unique_violation

\* codes of a socket that broke or timed out once the request may have left,
\* and of one that was never connected
BrokenCodes == {"ECONNRESET", "ETIMEDOUT", "UND_ERR_CONNECT_TIMEOUT", "UND_ERR_SOCKET"}
UnreachableCodes == {"ECONNREFUSED", "EHOSTUNREACH", "ENETUNREACH", "EAI_AGAIN"}

\* Codes that /^(08|40|53|57P|58)/ matches, and lock_not_available.  The class
\* 40 of PostgreSQL shares its prefix with the codes 400 to 406 of Telegram.
TransientSqlStates ==
  {"08006", "40001", "53300", "57P01", "58030", "55P03", "400", "401", "403", "406"}

AbruptTypes == {"TimeoutError", "AbortError", "TypeError"}

HttpRetryable(status) == status \in {408, 409, 425, 429} \/ status >= 500

IsTransientDependencyError(e) ==
  \/ e.code \in BrokenCodes \cup UnreachableCodes \cup TransientSqlStates
  \/ e.type \in AbruptTypes
  \/ e.type = "AwsError" /\ (e.status \in {408, 429} \/ e.status >= 500)

\* Mutant of WillRetry: everything but a permanent HTTP error is retried.
WillRetryUnlessPermanent(e) == e.type = "HttpError" => HttpRetryable(e.status)

\* retryDecision(error).retry
WillRetry(e) ==
  /\ e.type # "DeliveryUnknownError"
  /\ IF e.type = "HttpError" THEN HttpRetryable(e.status)
                             ELSE IsTransientDependencyError(e)

IsAmbiguousSend(e) ==
  \/ e.type = "DeliveryUnknownError"
  \/ e.type = "HttpError" /\ (e.status = 408 \/ e.status >= 500)
  \/ e.type \in AbruptTypes
  \/ e.code \in BrokenCodes

\* safeError(error) as the queue's last_error tells it apart
SafeError(e) == IF e.type = "DeliveryUnknownError" THEN "unknown" ELSE "failed"
=============================================================================
