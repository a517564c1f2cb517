------------------------- MODULE OAuthTokensProofs -------------------------
(***************************************************************************)
(* Proofs about OAuthTokens: the pair in the store stays usable, a refresh   *)
(* is refused only to a caller that was overtaken, a write happens once, and *)
(* the shared promise implements SingleFlight.                              *)
(***************************************************************************)
EXTENDS OAuthTokens, TLAPS

\* A pair on its way to the store is known to nobody else.
ExchangedIsNew ==
  exchange # 0 =>
    /\ exchange \notin used
    /\ exchange \notin {stored, refresh.old, refresh.new}
    /\ \A r \in Requests : got[r] # exchange

RefreshedIsNew ==
  refresh.at = "put" =>
    /\ refresh.new \notin used
    /\ refresh.new \notin {0, stored}
    /\ \A r \in Requests : got[r] # refresh.new

\* A spent pair is still held, or being refreshed, only by an overtaken caller,
\* or before the put of its successor.
SpentIsOvertaken ==
  /\ \A r \in Requests : step[r] = "have" /\ got[r] \in used =>
       lost \/ r \in overtaken \/ refresh.at = "put"
  /\ refresh.at = "post" /\ refresh.old \in used => lost \/ refresh.by \in overtaken

\* Only pairs that exist are held and refreshed.
HeldExists ==
  /\ \A r \in Requests : step[r] = "have" => got[r] # 0
  /\ refresh.at = "post" => refresh.old # 0 /\ refresh.by \in Requests

\* What a write has to do with its client's permission and its one attempt.
WriteInv ==
  /\ \A r \in Requests \ Reads :
       /\ ReadOnly(r) => step[r] \in {"idle", "failed"}
       /\ ReadOnly(r) => handled[r] = 0
       /\ step[r] \in {"idle", "get", "have", "wait", "send"} => handled[r] = 0
       /\ handled[r] <= 1
  /\ used # {} => WritesAllowed
  /\ refresh.at # "none" => WritesAllowed

\* Callers wait for the one refresh there is.
WaitInv ==
  /\ refresh.at = "none" <=> refresh.by = NoRequest
  /\ \A r \in Requests : step[r] = "wait" => refresh.by # NoRequest

PairInv ==
  /\ DataOK
  /\ ExchangedIsNew
  /\ RefreshedIsNew
  /\ SpentIsOvertaken
  /\ HeldExists
  /\ StoredPairIsUsable
  /\ RefusedOnlyIfOvertaken
  /\ WaitInv

TokensInv == FlagsOK /\ PairInv /\ WriteInv

-----------------------------------------------------------------------------
LEMMA TokensInvInit == TokensInit => TokensInv
  <1> SUFFICES ASSUME TokensInit
               PROVE  TokensInv
    OBVIOUS
  <1> USE TokensAssumption DEF TokensInit, NoRefresh
  <1>1. issued \in 0..MaxIssued /\ fresh \subseteq 1..issued
    OBVIOUS
  <1>2. DataOK
    <2>1. refresh \in [by : Requests \cup {NoRequest}, old : 0..issued,
                       new : 0..issued, at : {"none", "post", "put", "stored"}]
      OBVIOUS
    <2>2. QED
      BY <1>1, <2>1 DEF DataOK, Steps
  <1>3. ExchangedIsNew /\ RefreshedIsNew /\ SpentIsOvertaken /\ HeldExists
    BY DEF ExchangedIsNew, RefreshedIsNew, SpentIsOvertaken, HeldExists
  <1>4. StoredPairIsUsable /\ RefusedOnlyIfOvertaken /\ WaitInv
    BY DEF StoredPairIsUsable, RefusedOnlyIfOvertaken, WaitInv
  <1>5. WriteInv
    BY DEF WriteInv
  <1>6. FlagsOK
    BY Zenon DEF FlagsOK
  <1>7. QED
    BY <1>2, <1>3, <1>4, <1>5, <1>6 DEF TokensInv, PairInv

LEMMA FlagsNext == FlagsOK /\ [TokensNext]_tokenVars => FlagsOK'
  <1> SUFFICES ASSUME FlagsOK, [TokensNext]_tokenVars
               PROVE  FlagsOK'
    OBVIOUS
  <1>1. writes' = writes /\ sourceWrites' = sourceWrites
    BY DEF TokensNext, tokenVars, config, Request, ReadTokens, UseFreshToken, RefuseRefresh,
           JoinRefresh, Respond, TransportFails, ReadFails, RefreshGranted, RefreshRefused,
           RefreshStored, RefreshLands, RefreshFails, ExchangeCode, StoreExchanged,
           ExchangeFails, Expire, Crash
  <1>2. lost' \in BOOLEAN
    <2>1. CASE UNCHANGED lost
      BY <2>1, Zenon DEF FlagsOK
    <2>2. CASE lost' = TRUE
      BY <2>2, Zenon
    <2>3. CASE lost' = (lost \/ refresh.at = "put")
      BY <2>3, Zenon
    <2>4. QED
      BY <2>1, <2>2, <2>3
      DEF TokensNext, tokenVars, history, tokens, Request, ReadTokens, UseFreshToken,
          RefuseRefresh, JoinRefresh, Respond, TransportFails, ReadFails, RefreshGranted,
          RefreshRefused, RefreshStored, RefreshLands, RefreshFails, PostFails, PutFails,
          ExchangeCode, StoreExchanged, ExchangeFails, Expire, Crash
  <1>3. QED
    BY <1>1, <1>2, Zenon DEF FlagsOK

LEMMA GrownRange ==
  ASSUME NEW n \in Nat, NEW S \in SUBSET (1..n), NEW x \in 1..(n + 1)
  PROVE  S \cup {x} \subseteq 1..(n + 1)
  OBVIOUS

LEMMA PairInvNext == PairInv /\ [TokensNext]_tokenVars => PairInv'
  <1> SUFFICES ASSUME PairInv, [TokensNext]_tokenVars
               PROVE  PairInv'
    OBVIOUS
  <1> USE TokensAssumption
      DEF PairInv, DataOK, ExchangedIsNew, RefreshedIsNew, SpentIsOvertaken,
          HeldExists, StoredPairIsUsable, RefusedOnlyIfOvertaken, WaitInv, Steps,
          config, tokens, calls, history, GoTo, Forget, Mishap
  <1>1. ASSUME NEW r \in Requests, Request(r)
        PROVE  PairInv'
    BY <1>1 DEF Request
  <1>2. ASSUME NEW r \in Requests, ReadTokens(r)
        PROVE  PairInv'
    BY <1>2 DEF ReadTokens
  <1>3. ASSUME NEW r \in Requests, UseFreshToken(r) \/ RefuseRefresh(r)
        PROVE  PairInv'
    <2>1. CASE UseFreshToken(r)
      BY <2>1 DEF UseFreshToken
    <2>2. CASE RefuseRefresh(r)
      BY <2>2 DEF RefuseRefresh
    <2>3. QED
      BY <1>3, <2>1, <2>2
  <1>4. ASSUME NEW r \in Requests, JoinRefresh(r)
        PROVE  PairInv'
    BY <1>4 DEF JoinRefresh, NewRefresh
  <1>5. ASSUME NEW r \in Requests, Respond(r)
        PROVE  PairInv'
    BY <1>5 DEF Respond, Handle
  <1>6. ASSUME NEW r \in Requests, TransportFails(r)
        PROVE  PairInv'
    BY <1>6 DEF TransportFails, Handle
  <1>7. ASSUME NEW r \in Requests, ReadFails(r)
        PROVE  PairInv'
    BY <1>7 DEF ReadFails
  <1>8. CASE RefreshGranted
    <2>1. DataOK'
      <3>1. /\ issued \in Nat /\ issued' = issued + 1 /\ issued' \in 0..MaxIssued
            /\ refresh.old \in 0..issued /\ refresh.old # 0
            /\ fresh' = fresh \cup {issued'} /\ used' = used \cup {refresh.old}
            /\ refresh' = [refresh EXCEPT !.new = issued', !.at = "put"]
        BY <1>8 DEF RefreshGranted, Issue
      <3>2. refresh.old \in 1..issued' /\ issued' \in 1..issued'
        BY <3>1
      <3>3. fresh' \subseteq 1..issued' /\ used' \subseteq 1..issued'
        BY <3>1, <3>2
      <3>4. refresh' \in [by : Requests \cup {NoRequest}, old : 0..issued',
                          new : 0..issued', at : {"none", "post", "put", "stored"}]
        <4>1. refresh.old \in 0..issued' /\ issued' \in 0..issued'
          BY <3>1
        <4>2. refresh' = [by |-> refresh.by, old |-> refresh.old,
                          new |-> issued', at |-> "put"]
          BY <3>1
        <4>3. refresh.by \in Requests \cup {NoRequest}
          OBVIOUS
        <4>4. QED
          BY <4>1, <4>2, <4>3
      <3>5. stored \in 0..issued' /\ exchange \in 0..issued' /\ got \in [Requests -> 0..issued']
        BY <3>1
      <3>6. QED
        BY <1>8, <3>1, <3>3, <3>4, <3>5 DEF RefreshGranted
    <2>2. ExchangedIsNew' /\ RefreshedIsNew'
      BY <1>8 DEF RefreshGranted, Issue
    <2>3. SpentIsOvertaken' /\ HeldExists'
      BY <1>8 DEF RefreshGranted, Issue
    <2>4. StoredPairIsUsable' /\ RefusedOnlyIfOvertaken' /\ WaitInv'
      BY <1>8 DEF RefreshGranted, Issue
    <2>5. QED
      BY <2>1, <2>2, <2>3, <2>4
  <1>9. CASE RefreshRefused
    <2>1. DataOK'
      <3>1. step' \in [Requests -> Steps]
        BY <1>9 DEF RefreshRefused, Settle
      <3>2. refresh' = NoRefresh /\ UNCHANGED <<tokens, exchange, got, retries, handled>>
        BY <1>9 DEF RefreshRefused, Settle
      <3>3. refresh.by \in Requests
        BY <1>9 DEF RefreshRefused
      <3>4. QED
        BY <1>9, <3>1, <3>2, <3>3 DEF RefreshRefused, NoRefresh
    <2>2. ExchangedIsNew' /\ RefreshedIsNew'
      BY <1>9 DEF RefreshRefused, Settle, NoRefresh
    <2>3. SpentIsOvertaken' /\ HeldExists'
      BY <1>9 DEF RefreshRefused, Settle, NoRefresh
    <2>4. StoredPairIsUsable' /\ RefusedOnlyIfOvertaken' /\ WaitInv'
      BY <1>9 DEF RefreshRefused, Settle, NoRefresh
    <2>5. QED
      BY <2>1, <2>2, <2>3, <2>4
  <1>10. CASE RefreshStored
    BY <1>10 DEF RefreshStored, Overtake
  <1>11. CASE RefreshLands
    BY <1>11 DEF RefreshLands, Settle, NoRefresh
  <1>12. CASE RefreshFails
    <2>1. CASE PostFails
      <3>1. DataOK'
        <4>1. CASE UNCHANGED <<tokens, lost>>
          BY <1>12, <2>1, <4>1 DEF RefreshFails, PostFails, Settle, NoRefresh
        <4>2. CASE Issue /\ used' = used \cup {refresh.old} /\ UNCHANGED stored
          <5>1. /\ issued \in Nat /\ issued' = issued + 1 /\ issued' \in 0..MaxIssued
                /\ refresh.old \in 0..issued /\ refresh.old # 0
                /\ fresh' = fresh \cup {issued'} /\ used' = used \cup {refresh.old}
            BY <2>1, <4>2 DEF PostFails, Issue
          <5>2. fresh' \subseteq 1..issued' /\ used' \subseteq 1..issued'
            <6>1. fresh \in SUBSET (1..issued) /\ used \in SUBSET (1..issued)
              OBVIOUS
            <6>2. refresh.old \in 1..(issued + 1) /\ issued + 1 \in 1..(issued + 1)
              BY <5>1
            <6>3. fresh \cup {issued + 1} \subseteq 1..(issued + 1)
              BY <5>1, <6>1, <6>2, GrownRange
            <6>4. used \cup {refresh.old} \subseteq 1..(issued + 1)
              BY <5>1, <6>1, <6>2, GrownRange
            <6>5. QED
              BY <5>1, <6>3, <6>4
          <5>3. stored \in 0..issued' /\ exchange \in 0..issued' /\ got \in [Requests -> 0..issued']
            BY <5>1
          <5>4. step' \in [Requests -> Steps] /\ refresh' = NoRefresh
            BY <1>12 DEF RefreshFails, Settle
          <5>5. QED
            BY <1>12, <2>1, <4>2, <5>1, <5>2, <5>3, <5>4
            DEF RefreshFails, PostFails, Settle, NoRefresh
        <4>3. QED
          BY <2>1, <4>1, <4>2 DEF PostFails
      <3>2. ExchangedIsNew' /\ RefreshedIsNew'
        BY <1>12, <2>1 DEF RefreshFails, PostFails, Issue, Settle, NoRefresh
      <3>3. SpentIsOvertaken' /\ HeldExists'
        BY <1>12, <2>1 DEF RefreshFails, PostFails, Issue, Settle, NoRefresh
      <3>4. StoredPairIsUsable' /\ RefusedOnlyIfOvertaken' /\ WaitInv'
        BY <1>12, <2>1 DEF RefreshFails, PostFails, Issue, Settle, NoRefresh
      <3>5. QED
        BY <3>1, <3>2, <3>3, <3>4
    <2>2. CASE PutFails
      <3>1. DataOK'
        <4>1. issued' \in 0..MaxIssued /\ issued <= issued' /\ fresh' \subseteq 1..issued' /\ used' \subseteq 1..issued'
          BY <1>12, <2>2 DEF RefreshFails, PutFails, Overtake, Settle, NoRefresh
        <4>2. stored' \in 0..issued' /\ exchange' \in 0..issued' /\ got' \in [Requests -> 0..issued']
          BY <1>12, <2>2, <4>1 DEF RefreshFails, PutFails, Overtake, Settle, NoRefresh
        <4>3. refresh' \in [by : Requests \cup {NoRequest}, old : 0..issued',
                          new : 0..issued', at : {"none", "post", "put", "stored"}]
          BY <1>12, <2>2, <4>1 DEF RefreshFails, PutFails, Overtake, Settle, NoRefresh
        <4>4. QED
          BY <1>12, <2>2, <4>1, <4>2, <4>3 DEF RefreshFails, PutFails, Overtake, Settle, NoRefresh
      <3>2. ExchangedIsNew' /\ RefreshedIsNew'
        BY <1>12, <2>2 DEF RefreshFails, PutFails, Overtake, Settle, NoRefresh
      <3>3. SpentIsOvertaken' /\ HeldExists'
        BY <1>12, <2>2 DEF RefreshFails, PutFails, Overtake, Settle, NoRefresh
      <3>4. StoredPairIsUsable' /\ RefusedOnlyIfOvertaken' /\ WaitInv'
        BY <1>12, <2>2 DEF RefreshFails, PutFails, Overtake, Settle, NoRefresh
      <3>5. QED
        BY <3>1, <3>2, <3>3, <3>4
    <2>3. QED
      BY <1>12, <2>1, <2>2 DEF RefreshFails
  <1>13. CASE ExchangeCode
    BY <1>13 DEF ExchangeCode, Issue
  <1>14. CASE StoreExchanged
    BY <1>14 DEF StoreExchanged, Overtake
  <1>15. CASE ExchangeFails
    BY <1>15 DEF ExchangeFails
  <1>16. ASSUME NEW p \in 1..MaxIssued, Expire(p)
         PROVE  PairInv'
    BY <1>16 DEF Expire
  <1>17. CASE Crash
    <2>1. DataOK'
      BY <1>17 DEF Crash, NoRefresh
    <2>2. ExchangedIsNew' /\ RefreshedIsNew'
      BY <1>17 DEF Crash, NoRefresh
    <2>3. SpentIsOvertaken' /\ HeldExists'
      BY <1>17 DEF Crash, NoRefresh
    <2>4. StoredPairIsUsable' /\ RefusedOnlyIfOvertaken' /\ WaitInv'
      BY <1>17 DEF Crash, NoRefresh
    <2>5. QED
      BY <2>1, <2>2, <2>3, <2>4
  <1>18. CASE UNCHANGED tokenVars
    BY <1>18 DEF tokenVars
  <1> HIDE DEF PairInv
  <1>19. QED
    BY <1>1, <1>2, <1>3, <1>4, <1>5, <1>6, <1>7, <1>8, <1>9, <1>10, <1>11,
       <1>12, <1>13, <1>14, <1>15, <1>16, <1>17, <1>18
    DEF TokensNext

LEMMA WriteInvNext == TokensInv /\ [TokensNext]_tokenVars => WriteInv'
  <1> SUFFICES ASSUME TokensInv, [TokensNext]_tokenVars
               PROVE  WriteInv'
    OBVIOUS
  <1> USE TokensAssumption
      DEF TokensInv, PairInv, DataOK, WriteInv, Steps, ReadOnly, WritesAllowed,
          config, tokens, calls, history, GoTo, Forget, Mishap
  <1>1. ASSUME NEW r \in Requests, Request(r) \/ ReadTokens(r) \/ ReadFails(r)
        PROVE  WriteInv'
    BY <1>1 DEF Request, ReadTokens, ReadFails
  <1>2. ASSUME NEW r \in Requests, UseFreshToken(r) \/ RefuseRefresh(r)
        PROVE  WriteInv'
    BY <1>2 DEF UseFreshToken, RefuseRefresh
  <1>3. ASSUME NEW r \in Requests, JoinRefresh(r)
        PROVE  WriteInv'
    BY <1>3 DEF JoinRefresh, NewRefresh
  <1>4. ASSUME NEW r \in Requests, Respond(r)
        PROVE  WriteInv'
    BY <1>4 DEF Respond, Handle
  <1>5. ASSUME NEW r \in Requests, TransportFails(r)
        PROVE  WriteInv'
    BY <1>5 DEF TransportFails, Handle
  <1>6. CASE RefreshGranted \/ RefreshStored
    BY <1>6 DEF RefreshGranted, Issue, RefreshStored
  <1>7. CASE RefreshRefused \/ RefreshLands
    BY <1>7 DEF RefreshRefused, RefreshLands, Settle, NoRefresh
  <1>8. CASE RefreshFails
    BY <1>8 DEF RefreshFails, PostFails, PutFails, Issue, Settle, NoRefresh
  <1>9. CASE ExchangeCode \/ StoreExchanged \/ ExchangeFails
    BY <1>9 DEF ExchangeCode, StoreExchanged, ExchangeFails, Issue
  <1>10. ASSUME NEW p \in 1..MaxIssued, Expire(p)
         PROVE  WriteInv'
    BY <1>10 DEF Expire
  <1>11. CASE Crash
    BY <1>11 DEF Crash, NoRefresh
  <1>12. CASE UNCHANGED tokenVars
    BY <1>12 DEF tokenVars
  <1> HIDE DEF WriteInv
  <1>13. QED
    BY <1>1, <1>2, <1>3, <1>4, <1>5, <1>6, <1>7, <1>8, <1>9, <1>10, <1>11, <1>12
    DEF TokensNext

LEMMA TokensInvAlways == TokensSpec => []TokensInv
  <1>1. TokensInv /\ [TokensNext]_tokenVars => TokensInv'
    BY FlagsNext, PairInvNext, WriteInvNext DEF TokensInv
  <1>2. QED
    BY TokensInvInit, <1>1, PTL DEF TokensSpec

\* The variables of the token client have their types.
THEOREM TokensType == TokensSpec => []TokensTypeOK
  <1>1. TokensInv => TokensTypeOK
    BY DEF TokensInv, PairInv, TokensTypeOK
  <1>2. QED
    BY <1>1, TokensInvAlways, PTL

\* The pair in the secret store can be refreshed, however the refreshes, the code
\* exchanges, the failures and the restarts fall, unless a pair that replaced it
\* was lost or is just being put.
THEOREM StoredPairStaysUsable == TokensSpec => []StoredPairIsUsable
  <1>1. TokensInv => StoredPairIsUsable
    BY DEF TokensInv, PairInv
  <1>2. QED
    BY <1>1, TokensInvAlways, PTL

\* Reading the secret before the check for a running refresh costs a caller at most
\* the refusal that follows a store between the two.
THEOREM RefusalsAreOvertaken == TokensSpec => []RefusedOnlyIfOvertaken
  <1>1. TokensInv => RefusedOnlyIfOvertaken
    BY DEF TokensInv, PairInv
  <1>2. QED
    BY <1>1, TokensInvAlways, PTL

\* Only requests with the method GET are repeated, so a write is handled once, and
\* never for a client that may not write.
THEOREM WritesHappenOnce == TokensSpec => []WritesAtMostOnce
  <1>1. TokensInv => WritesAtMostOnce
    BY DEF TokensInv, PairInv, DataOK, WriteInv, WritesAtMostOnce
  <1>2. QED
    BY <1>1, TokensInvAlways, PTL

-----------------------------------------------------------------------------
\* The refinement mapping, one step at a time.
Aboard == [k \in {"token"} |-> {r \in Requests : step[r] = "wait"}]

\* A step that starts and ends no refresh and moves nobody in or out of the wait.
LEMMA FlightStutters ==
  ASSUME refresh'.by = refresh.by,
         \A r \in Requests : step'[r] = "wait" <=> step[r] = "wait"
  PROVE  UNCHANGED Flight!flightVars
  BY DEF Flight!flightVars

LEMMA FlightLands ==
  ASSUME refresh.by # NoRequest, refresh'.by = NoRequest,
         \A r \in Requests : step'[r] # "wait"
  PROVE  Flight!Land("token")
  BY DEF Flight!Land

LEMMA FlightGrounded ==
  ASSUME refresh'.by = NoRequest, \A r \in Requests : step'[r] # "wait"
  PROVE  Flight!Ground
  BY DEF Flight!Ground

LEMMA FlightBoards ==
  ASSUME TokensInv, NEW r \in Requests, JoinRefresh(r)
  PROVE  Flight!Board("token", r)
  <1> USE DEF TokensInv, PairInv, DataOK, WaitInv, JoinRefresh, GoTo, Forget
  <1>1. step[r] # "wait" /\ step'[r] = "wait" /\ \A q \in Requests \ {r} : step'[q] = step[q]
    OBVIOUS
  <1>2. Aboard' = [Aboard EXCEPT !["token"] = @ \cup {r}]
    <2>1. {q \in Requests : step'[q] = "wait"} = {q \in Requests : step[q] = "wait"} \cup {r}
      BY <1>1
    <2>2. QED
      BY <2>1 DEF Aboard
  <1>3. CASE refresh.at = "none"
    <2>1. refresh.by = NoRequest /\ refresh'.by = r
      BY <1>3 DEF NewRefresh
    <2>2. QED
      BY <1>1, <1>2, <2>1 DEF Flight!Board, Aboard
  <1>4. CASE refresh.at # "none"
    <2>1. refresh' = refresh /\ refresh.by # NoRequest
      BY <1>4
    <2>2. QED
      BY <1>1, <1>2, <2>1 DEF Flight!Board, Aboard
  <1>5. QED
    BY <1>3, <1>4

LEMMA FlightStep ==
  TokensInv /\ [TokensNext]_tokenVars => [Flight!FlightNext]_(Flight!flightVars)
  <1> SUFFICES ASSUME TokensInv, [TokensNext]_tokenVars
               PROVE  Flight!FlightNext \/ UNCHANGED Flight!flightVars
    OBVIOUS
  <1> USE DEF TokensInv, PairInv, DataOK, WaitInv, config, tokens, calls,
              history, GoTo, Forget
  <1>1. ASSUME NEW r \in Requests,
               \/ Request(r) \/ ReadTokens(r) \/ UseFreshToken(r) \/ RefuseRefresh(r)
               \/ Respond(r) \/ TransportFails(r) \/ ReadFails(r)
        PROVE  UNCHANGED Flight!flightVars
    <2>1. /\ refresh' = refresh
          /\ \A q \in Requests : step'[q] = "wait" <=> step[q] = "wait"
      BY <1>1 DEF Request, ReadTokens, UseFreshToken, RefuseRefresh, Respond,
                  TransportFails, ReadFails, Mishap
    <2>2. QED
      BY <2>1, FlightStutters
  <1>2. ASSUME NEW r \in Requests, JoinRefresh(r)
        PROVE  Flight!FlightNext
    BY <1>2, FlightBoards DEF Flight!FlightNext
  <1>3. CASE RefreshRefused \/ RefreshLands \/ RefreshFails
    <2>1. /\ refresh.by # NoRequest /\ refresh'.by = NoRequest
          /\ \A r \in Requests : step'[r] # "wait"
      BY <1>3 DEF RefreshRefused, RefreshLands, RefreshFails, PostFails, PutFails,
                  Settle, NoRefresh
    <2>2. QED
      BY <2>1, FlightLands DEF Flight!FlightNext
  <1>4. CASE RefreshGranted \/ RefreshStored
    BY <1>4, FlightStutters DEF RefreshGranted, RefreshStored
  <1>5. CASE \/ ExchangeCode \/ StoreExchanged \/ ExchangeFails
             \/ \E p \in 1..MaxIssued : Expire(p)
    BY <1>5, FlightStutters DEF ExchangeCode, StoreExchanged, ExchangeFails, Expire
  <1>6. CASE Crash
    <2>1. refresh'.by = NoRequest /\ \A r \in Requests : step'[r] # "wait"
      BY <1>6 DEF Crash, NoRefresh
    <2>2. QED
      BY <2>1, FlightGrounded DEF Flight!FlightNext
  <1>7. CASE UNCHANGED tokenVars
    BY <1>7, FlightStutters DEF tokenVars
  <1>8. QED
    BY <1>1, <1>2, <1>3, <1>4, <1>5, <1>6, <1>7 DEF TokensNext

\* The promise the callers of a refresh share implements SingleFlight.
THEOREM RefreshesAreShared == TokensSpec => RefreshIsShared
  <1>1. TokensInit => Flight!FlightInit
    BY DEF TokensInit, NoRefresh, Flight!FlightInit
  <1>2. QED
    BY <1>1, FlightStep, TokensInvAlways, PTL
    DEF TokensSpec, RefreshIsShared, Flight!FlightSpec
=============================================================================
