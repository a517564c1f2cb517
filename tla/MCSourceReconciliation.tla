---------------------- MODULE MCSourceReconciliation ----------------------
(* A small instance of SourceReconciliation.                                *)
EXTENDS SourceReconciliation, TLC

CONSTANTS a1, r1, r2, r3

OneAccount == {a1}
ThreeRequests == {r1, r2, r3}
MCSymmetry == Permutations(ThreeRequests)
=============================================================================
