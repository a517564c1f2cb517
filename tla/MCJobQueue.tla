----------------------------- MODULE MCJobQueue -----------------------------
(* A small instance of JobQueue: two jobs of one conversation, and a          *)
(* redelivery of the first with another body.                                 *)
EXTENDS JobQueue, TLC

CONSTANTS w1, w2, noWorker, noRequest

Event(k, p, b) == [key |-> k, part |-> p, payload |-> b]
MCRequests == {Event("k1", "p1", "a"), Event("k1", "p1", "b"), Event("k2", "p1", "a")}
MCWorkers == {w1, w2}
MCSymmetry == Permutations(MCWorkers)
=============================================================================
