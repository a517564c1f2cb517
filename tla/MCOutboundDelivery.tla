------------------------- MODULE MCOutboundDelivery -------------------------
(* A small instance of OutboundDelivery: two messages of one conversation,    *)
(* whose webhooks may come again, and one error of each kind the router tells *)
(* apart.                                                                     *)
EXTENDS OutboundDelivery, FiniteSetsExt, TLC

CONSTANTS w1, w2, m1, m2, noWorker, noRequest

MCWorkers == {w1, w2}
MCMessages == {m1, m2}
MCSymmetry == Permutations(MCWorkers) \cup Permutations(MCMessages)
MCRequests == {[key |-> m, part |-> "p1", payload |-> "a"] : m \in MCMessages}

MCStatementErrors == {CodedFailure("57P01"), PlainError}
MCResolveErrors == {HttpFailure(503), PlainError}
MCSendErrors == {NamedFailure("TimeoutError"), CodedFailure("400"), PlainError}
MCHandlerErrors == MCResolveErrors \cup MCSendErrors \cup MCStatementErrors
                     \cup {DeliveryUnknown, UniqueViolation}

EverythingOnce == [k \in MishapKinds |-> 1]

\* While one message has arrived any two mishaps may meet, once both have arrived
\* one mishap meets every order of the two.
Arrived == {request[id] : id \in Ids} \ {noRequest}
MCMishapsFit ==
  MapThenSumSet(LAMBDA k : mishaps[k], MishapKinds) + Cardinality(Arrived) <= 3
=============================================================================
