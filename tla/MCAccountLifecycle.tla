------------------------ MODULE MCAccountLifecycle ------------------------
(* Small instances of AccountLifecycle.                                     *)
EXTENDS AccountLifecycle, TLC

CONSTANTS a1, r1, r2

OneAccount == {a1}
OneRequest == {r1}
TwoRequests == {r1, r2}
MCSymmetry == Permutations(TwoRequests)

Bounds(cr, st, dr, ou, ha, re) ==
  [k \in MishapKinds |->
     CASE k = "crash" -> cr [] k = "statement" -> st [] k = "drop" -> dr
       [] k = "outage" -> ou [] k = "hangup" -> ha [] k = "revoke" -> re]
LoginAndReconnect == {"register", "code", "reconnect"}
Reauthorize == LoginAndReconnect \cup {"start"}
NoPassword == LoginAndReconnect \cup {"delete", "disconnect"}

OneOfEach == Bounds(1, 1, 1, 1, 1, 1)
OnlyNetwork == Bounds(0, 0, 2, 2, 0, 1)
OneRevoked == Bounds(0, 0, 1, 0, 0, 1)
=============================================================================
