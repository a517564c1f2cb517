-------------------------- MODULE MCDurableWorkers --------------------------
(* Small instances of DurableWorkers.  Two workers share one conversation of  *)
(* two jobs; the errors stand for one of each kind the worker tells apart.    *)
EXTENDS DurableWorkers, TLC

CONSTANTS w1, w2, noWorker, noRequest

MCWorkers == {w1, w2}
MCSymmetry == Permutations(MCWorkers)

Event(k, p) == [key |-> k, part |-> p, payload |-> "a"]
OneConversation == {Event("k1", "p1"), Event("k2", "p1")}
OneEvent == {Event("k1", "p1")}

MCHandlerErrors == {DeliveryUnknown, HttpFailure(503), HttpFailure(404)}
MCStatementErrors == {CodedFailure("57P01"), PlainError}

Bounds(c, s, l, r) ==
  [k \in MishapKinds |-> CASE k = "crash" -> c [] k = "statement" -> s
                           [] k = "lapse" -> l [] k = "requeue" -> r]
OneOfEach == Bounds(1, 1, 1, 1)
CrashesOnly == Bounds(2, 0, 0, 0)
=============================================================================
