----------------------- MODULE OutboundDeliveryProofs -----------------------
(***************************************************************************)
(* Proofs about OutboundDelivery: the router runs inside the workers, so    *)
(* every theorem about DurableWorkers and JobQueue holds of outbound        *)
(* delivery as well.                                                        *)
(***************************************************************************)
EXTENDS OutboundDelivery, DurableWorkersProofs

\* The error that is rethrown after clearDeliveryUnknown is a refusal of adapter.send.
RaisedIsSendError ==
  /\ step \in [Workers -> Steps] /\ DOMAIN raised = Workers /\ DOMAIN message = Workers
  /\ \A w \in Workers :
       step[w] = "clear" => raised[w] \in SendErrors /\ ~IsAmbiguousSend(raised[w])

LEMMA RaisedNext == RaisedIsSendError /\ [OutNext]_outVars => RaisedIsSendError'
  <1> SUFFICES ASSUME RaisedIsSendError, [OutNext]_outVars
               PROVE  RaisedIsSendError'
    OBVIOUS
  <1> USE DEF RaisedIsSendError, Steps
  <1>1. ASSUME NEW w \in Workers, NEW s \in Steps, s # "clear", Continue(w, s)
        PROVE  RaisedIsSendError'
    BY <1>1 DEF Continue
  <1>2. ASSUME NEW w \in Workers, EndHandler(w)
        PROVE  RaisedIsSendError'
    BY <1>2 DEF EndHandler
  <1>3. ASSUME NEW w \in Workers, NEW id \in Ids, StartHandler(w, id)
        PROVE  RaisedIsSendError'
    BY <1>3 DEF StartHandler
  <1>4. ASSUME NEW w \in Workers, NEW e \in SendErrors, SendRefused(w, e)
        PROVE  RaisedIsSendError'
    BY <1>4 DEF SendRefused
  <1>5. ASSUME NEW w \in Workers,
               \/ FindMessage(w) \/ Resolve(w) \/ Mark(w) \/ SendAccepted(w)
               \/ \E e \in SendErrors : SendAmbiguous(w, e)
               \/ Clear(w) \/ Record(w)
               \/ \E e \in StatementErrors : StoreFails(w, e)
        PROVE  RaisedIsSendError'
    <2>1. EndHandler(w) \/ \E s \in Steps \ {"clear"} : Continue(w, s)
      <3>1. CASE FindMessage(w) \/ Mark(w) \/ SendAccepted(w)
        BY <3>1 DEF FindMessage, Mark, SendAccepted, Return, Throw
      <3>2. CASE Resolve(w)
        BY <3>2 DEF Resolve, Return, Throw
      <3>3. CASE Clear(w) \/ Record(w) \/ \E e \in SendErrors : SendAmbiguous(w, e)
        BY <3>3 DEF Clear, Record, SendAmbiguous, Return, Throw
      <3>4. CASE \E e \in StatementErrors : StoreFails(w, e)
        BY <3>4 DEF StoreFails, Throw
      <3>5. QED
        BY <1>5, <3>1, <3>2, <3>3, <3>4
    <2>2. QED
      BY <1>1, <1>2, <2>1
  <1>6. ASSUME UNCHANGED handlerVars
        PROVE  RaisedIsSendError'
    BY <1>6 DEF handlerVars
  <1>7. CASE CrashOut
    BY <1>7 DEF CrashOut
  <1>8. CASE \/ \E m \in Messages : ReconcileAccepted(m)
             \/ \E id \in Ids : ConfirmNotAccepted(id)
             \/ Outside
             \/ UNCHANGED outVars
    BY <1>6, <1>8 DEF ReconcileAccepted, ConfirmNotAccepted, Outside, handlerVars, outVars
  <1> HIDE DEF RaisedIsSendError
  <1>9. QED
    BY <1>3, <1>4, <1>5, <1>7, <1>8 DEF OutNext, HandlerStep

LEMMA OutStepIsPoolStep ==
  RaisedIsSendError /\ [OutNext]_outVars => [PoolNext]_poolVars
  <1> SUFFICES ASSUME RaisedIsSendError, [OutNext]_outVars
               PROVE  PoolNext \/ UNCHANGED poolVars
    OBVIOUS
  <1> USE OutboundAssumption
  <1>1. ASSUME NEW w \in Workers, Return(w)
        PROVE  PoolNext
    BY <1>1 DEF Return, PoolNext, WorkerStep
  <1>2. ASSUME NEW w \in Workers, NEW e \in HandlerErrors, Throw(w, e)
        PROVE  PoolNext
    BY <1>2 DEF Throw, PoolNext, WorkerStep
  <1>3. ASSUME NEW w \in Workers, NEW s, Continue(w, s)
        PROVE  UNCHANGED poolVars
    BY <1>3 DEF Continue
  <1>4. ASSUME NEW w \in Workers, NEW id \in Ids, StartHandler(w, id)
        PROVE  PoolNext
    BY <1>4 DEF StartHandler, PoolNext, WorkerStep
  <1>5. ASSUME NEW w \in Workers, HandlerStep(w)
        PROVE  PoolNext \/ UNCHANGED poolVars
    <2>1. CASE FindMessage(w) \/ Resolve(w) \/ Mark(w) \/ SendAccepted(w) \/ Record(w)
      BY <1>1, <1>2, <1>3, <2>1
      DEF FindMessage, Resolve, Mark, SendAccepted, Record
    <2>2. ASSUME NEW e \in SendErrors, SendAmbiguous(w, e) \/ SendRefused(w, e)
          PROVE  PoolNext \/ UNCHANGED poolVars
      BY <1>2, <2>2 DEF SendAmbiguous, SendRefused
    <2>3. CASE Clear(w)
      BY <1>2, <2>3 DEF Clear, RaisedIsSendError
    <2>4. QED
      BY <1>5, <2>1, <2>2, <2>3 DEF HandlerStep
  <1>6. ASSUME NEW w \in Workers, NEW e \in StatementErrors, StoreFails(w, e)
        PROVE  PoolNext
    BY <1>2, <1>6 DEF StoreFails
  <1>7. ASSUME NEW m \in Messages, ReconcileAccepted(m)
        PROVE  UNCHANGED poolVars
    BY <1>7 DEF ReconcileAccepted
  <1>8. ASSUME NEW id \in Ids, ConfirmNotAccepted(id)
        PROVE  PoolNext
    BY <1>8 DEF ConfirmNotAccepted, PoolNext
  <1>9. CASE CrashOut
    BY <1>9 DEF CrashOut, PoolNext, Faults
  <1>10. CASE Outside
    BY <1>10 DEF Outside, PoolNext, WorkerStep, Faults
  <1>11. CASE UNCHANGED outVars
    BY <1>11 DEF outVars
  <1>12. QED
    BY <1>4, <1>5, <1>6, <1>7, <1>8, <1>9, <1>10, <1>11 DEF OutNext

\* Outbound delivery is one behaviour of the workers: the router changes jobs
\* and leases only through them, and the operator's confirmation is a requeue.
THEOREM OutboundImplementsPool == OutSpec => ImplementsPool
  <1>1. OutInit => PoolInit /\ RaisedIsSendError
    BY DEF OutInit, RaisedIsSendError, Steps
  <1>2. OutSpec => []RaisedIsSendError
    BY <1>1, RaisedNext, PTL DEF OutSpec
  <1>3. QED
    BY <1>1, <1>2, OutStepIsPoolStep, PTL DEF OutSpec, PoolSpec, ImplementsPool

-----------------------------------------------------------------------------
(***************************************************************************)
(* One handler per message.  A handler runs for the message of an           *)
(* acknowledged job; unless a lease of the message was lost it holds the    *)
(* row of that job, and the message has only this row.                      *)
(***************************************************************************)
HandlerInv ==
  \A w \in Workers : step[w] # "idle" =>
    /\ phase[w] = "handling"
    /\ \E a \in acked : a.id = running[w] /\ a.request.key = message[w]

LEMMA OutsideKeepsHandlers ==
  WorkerInv /\ Outside =>
    \A w \in Workers : phase[w] = "handling" =>
                         phase'[w] = "handling" /\ running'[w] = running[w]
  <1> SUFFICES ASSUME WorkerInv, Outside, NEW w \in Workers, phase[w] = "handling"
               PROVE  phase'[w] = "handling" /\ running'[w] = running[w]
    OBVIOUS
  <1> USE DEF WorkerInv, PoolTypeOK, Busy
  <1>1. ASSUME NEW v \in Workers, NEW p,
               \/ GoTo(v, p) \/ LetGo(v, p) \/ UNCHANGED workerVars,
               phase[v] # "handling" \/ UNCHANGED workerVars
        PROVE  phase'[w] = "handling" /\ running'[w] = running[w]
    BY <1>1 DEF GoTo, LetGo, workerVars
  <1>2. ASSUME NEW v \in Workers,
               \/ Recover(v) \/ Idle(v) \/ Beat(v) \/ RecoverFails(v) \/ ClaimFails(v)
        PROVE  phase'[w] = "handling" /\ running'[w] = running[w]
    BY <1>1, <1>2 DEF Recover, Idle, Beat, RecoverFails, ClaimFails, poolVars
  <1>3. ASSUME NEW v \in Workers,
               \/ CompleteJob(v) \/ SettleJob(v) \/ SettleFails(v)
               \/ \E e \in StatementErrors : CompleteFails(v, e)
        PROVE  phase'[w] = "handling" /\ running'[w] = running[w]
    BY <1>1, <1>3 DEF CompleteJob, SettleJob, SettleFails, CompleteFails, Catch
  <1>4. CASE Restart
    BY <1>4 DEF Restart
  <1>5. CASE \/ \E id \in Ids :
                  AbandonedLapses(id) \/ LapseUnderHandler(id) \/ DelayEnds(id)
                  \/ Requeue(id, FALSE)
             \/ Retention
             \/ Clients
    BY <1>5 DEF AbandonedLapses, LapseUnderHandler, DelayEnds, Requeue, Retention,
                Clients, workerVars
  <1>6. QED
    BY <1>2, <1>3, <1>4, <1>5 DEF Outside

LEMMA HandlerMessage ==
  ASSUME QueueInv, HandlerInv, NEW w \in Workers, step[w] # "idle"
  PROVE  message[w] \in Messages
  BY DEF QueueInv, QueueTypeOK, HandlerInv, Messages

LEMMA OneRow ==
  ASSUME PoolFacts, HandlerInv, NEW w \in Workers, step[w] # "idle",
         ~LeaseLostFor(message[w]),
         NEW id \in Ids, Visible(id), request[id].key = message[w]
  PROVE  id = running[w] /\ Holds(w, id)
  <1>1. PICK a \in acked : a.id = running[w] /\ a.request.key = message[w]
    BY DEF HandlerInv
  <1>2. running[w] \notin lapsed
    BY <1>1 DEF LeaseLostFor
  <1>3. running[w] \in Ids /\ Holds(w, running[w])
    BY <1>2 DEF HandlerInv, PoolFacts, HandlingHolds, WorkerInv, PhaseInv, Busy
  <1>4. Visible(running[w])
    BY <1>3 DEF Holds, Visible
  <1>5. request[running[w]].key = message[w]
    BY <1>1, <1>4 DEF PoolFacts, AckedIsStored
  <1>6. QED
    BY <1>3, <1>4, <1>5 DEF PoolFacts, DedupeSound

LEMMA OneHandler ==
  ASSUME PoolFacts, HandlerInv, NEW v \in Workers, NEW w \in Workers,
         step[v] # "idle", step[w] # "idle", message[v] = message[w],
         ~LeaseLostFor(message[w])
  PROVE  v = w
  <1>1. PICK a \in acked : a.id = running[v] /\ a.request.key = message[v]
    BY DEF HandlerInv
  <1>2. running[v] \in Ids /\ Holds(v, running[v])
    BY <1>1 DEF LeaseLostFor, HandlerInv, PoolFacts, HandlingHolds, WorkerInv,
                PhaseInv, Busy
  <1>3. Visible(running[v])
    BY <1>2 DEF Holds, Visible
  <1>4. request[running[v]].key = message[w]
    BY <1>1, <1>3 DEF PoolFacts, AckedIsStored
  <1>5. Holds(w, running[v])
    BY <1>2, <1>3, <1>4, OneRow
  <1>6. QED
    BY <1>2, <1>5 DEF Holds

LEMMA HistoriesGrow ==
  ASSUME RaisedIsSendError, QueueInv, WorkerInv, [OutNext]_outVars
  PROVE  acked \subseteq acked' /\ lapsed \subseteq lapsed'
  BY OutStepIsPoolStep, PoolStepIsQueueStep, AckedGrows, LapsedGrows

LEMMA LostStaysLost ==
  ASSUME RaisedIsSendError, QueueInv, WorkerInv, [OutNext]_outVars,
         NEW m, LeaseLostFor(m)
  PROVE  LeaseLostFor(m)'
  BY HistoriesGrow DEF LeaseLostFor

LEMMA HandlerInvNext ==
  PoolFacts /\ RaisedIsSendError /\ HandlerInv /\ [OutNext]_outVars => HandlerInv'
  <1> SUFFICES ASSUME PoolFacts, RaisedIsSendError, HandlerInv, [OutNext]_outVars
               PROVE  HandlerInv'
    OBVIOUS
  <1>a. acked \subseteq acked'
    BY HistoriesGrow DEF PoolFacts
  <1>b. /\ step \in [Workers -> Steps]
        /\ phase \in [Workers -> Phases] /\ running \in [Workers -> Ids \cup {0}]
    BY DEF RaisedIsSendError, PoolFacts, WorkerInv, PoolTypeOK
  <1> USE <1>a, <1>b DEF HandlerInv
  <1>1. ASSUME NEW w \in Workers, NEW s, step[w] # "idle", Continue(w, s)
        PROVE  HandlerInv'
    BY <1>1 DEF Continue, poolVars, workerVars
  <1>2. ASSUME NEW w \in Workers, EndHandler(w),
               \A v \in Workers \ {w} : phase'[v] = phase[v] /\ running'[v] = running[v]
        PROVE  HandlerInv'
    BY <1>2 DEF EndHandler
  <1>3. ASSUME NEW w \in Workers, Return(w) \/ \E e : Throw(w, e)
        PROVE  HandlerInv'
    <2>1. EndHandler(w)
      BY <1>3 DEF Return, Throw
    <2>2. \A v \in Workers \ {w} : phase'[v] = phase[v] /\ running'[v] = running[v]
      BY <1>3 DEF Return, Throw, HandlerReturns, HandlerThrows, Catch, GoTo
    <2>3. QED
      BY <1>2, <2>1, <2>2
  <1>4. ASSUME NEW w \in Workers, NEW id \in Ids, StartHandler(w, id)
        PROVE  HandlerInv'
    <2>1. [id |-> id, request |-> request[id]] \in acked
      BY <1>4 DEF StartHandler, ClaimJob, Claim, Claimable, PoolFacts, VisibleIsAcked,
                  Visible
    <2>2. /\ phase' = [phase EXCEPT ![w] = "handling"]
          /\ running' = [running EXCEPT ![w] = id]
          /\ step' = [step EXCEPT ![w] = "find"]
          /\ message' = [message EXCEPT ![w] = request[id].key]
      BY <1>4 DEF StartHandler, ClaimJob
    <2>3. ASSUME NEW v \in Workers, step'[v] # "idle"
          PROVE  /\ phase'[v] = "handling"
                 /\ \E a \in acked' : a.id = running'[v] /\ a.request.key = message'[v]
      <3>1. CASE v = w
        <4> DEFINE a == [id |-> id, request |-> request[id]]
        <4>1. phase'[v] = "handling" /\ running'[v] = id /\ message'[v] = request[id].key
          BY <2>2, <3>1 DEF RaisedIsSendError
        <4>2. a \in acked' /\ a.id = id /\ a.request.key = request[id].key
          BY <2>1
        <4>3. QED
          BY <4>1, <4>2
      <3>2. CASE v # w
        BY <2>2, <2>3, <3>2
      <3>3. QED
        BY <3>1, <3>2
    <2>4. QED
      BY <2>3
  <1>5. ASSUME NEW w \in Workers,
               \/ FindMessage(w) \/ Resolve(w) \/ Mark(w) \/ SendAccepted(w)
               \/ \E e \in SendErrors : SendAmbiguous(w, e)
               \/ Clear(w) \/ Record(w)
               \/ \E e \in StatementErrors : StoreFails(w, e)
        PROVE  HandlerInv'
    <2>1. CASE FindMessage(w) \/ Mark(w) \/ SendAccepted(w)
      BY <1>1, <1>3, <2>1 DEF FindMessage, Mark, SendAccepted
    <2>2. CASE Resolve(w)
      BY <1>1, <1>3, <2>2 DEF Resolve
    <2>3. CASE Clear(w) \/ Record(w) \/ \E e \in SendErrors : SendAmbiguous(w, e)
      BY <1>3, <2>3 DEF Clear, Record, SendAmbiguous
    <2>4. CASE \E e \in StatementErrors : StoreFails(w, e)
      BY <1>3, <2>4 DEF StoreFails
    <2>5. QED
      BY <1>5, <2>1, <2>2, <2>3, <2>4
  <1>6. ASSUME NEW w \in Workers, NEW e, SendRefused(w, e)
        PROVE  HandlerInv'
    BY <1>6 DEF SendRefused, poolVars, workerVars
  <1>7. ASSUME NEW m, ReconcileAccepted(m)
        PROVE  HandlerInv'
    BY <1>7 DEF ReconcileAccepted, poolVars, workerVars, handlerVars
  <1>8. ASSUME NEW id, ConfirmNotAccepted(id)
        PROVE  HandlerInv'
    BY <1>8 DEF ConfirmNotAccepted, Requeue, workerVars, handlerVars
  <1>9. CASE CrashOut
    BY <1>9 DEF CrashOut
  <1>10. CASE Outside
    BY <1>10, OutsideKeepsHandlers DEF Outside, handlerVars, PoolFacts
  <1>11. CASE UNCHANGED outVars
    BY <1>11 DEF outVars, poolVars, workerVars, handlerVars
  <1> HIDE DEF HandlerInv
  <1>12. QED
    BY <1>4, <1>5, <1>6, <1>7, <1>8, <1>9, <1>10, <1>11 DEF OutNext, HandlerStep

LEMMA OutTypeNext ==
  PoolFacts /\ HandlerInv /\ OutTypeOK /\ [OutNext]_outVars => OutTypeOK'
  <1> SUFFICES ASSUME PoolFacts, HandlerInv, OutTypeOK, [OutNext]_outVars
               PROVE  OutTypeOK'
    OBVIOUS
  <1>a. \A w \in Workers : step[w] # "idle" => message[w] \in Messages
    BY HandlerMessage DEF PoolFacts
  <1> USE <1>a DEF OutTypeOK, Steps
  <1>1. ASSUME NEW w \in Workers, NEW s \in Steps, Continue(w, s)
        PROVE  /\ step' \in [Workers -> Steps]
               /\ message' \in [Workers -> Messages \cup {NoRequest}]
               /\ DOMAIN raised' = Workers
    BY <1>1 DEF Continue
  <1>2. ASSUME NEW w \in Workers, Return(w) \/ \E e : Throw(w, e)
        PROVE  /\ step' \in [Workers -> Steps]
               /\ message' \in [Workers -> Messages \cup {NoRequest}]
               /\ DOMAIN raised' = Workers
    BY <1>2 DEF Return, Throw, EndHandler
  <1>3. ASSUME NEW w \in Workers, NEW id \in Ids, StartHandler(w, id)
        PROVE  OutTypeOK'
    <2>1. request[id].key \in Messages
      BY <1>3 DEF StartHandler, ClaimJob, Claim, Claimable, PoolFacts, QueueInv,
                  EmptyRows, Messages
    <2>2. QED
      BY <1>3, <2>1 DEF StartHandler
  <1>4. ASSUME NEW w \in Workers,
               FindMessage(w) \/ Resolve(w) \/ Mark(w) \/ Clear(w) \/ Record(w)
        PROVE  OutTypeOK'
    BY <1>1, <1>2, <1>4 DEF FindMessage, Resolve, Mark, Clear, Record, SetMapping
  <1>5. ASSUME NEW w \in Workers, NEW e, SendAmbiguous(w, e) \/ StoreFails(w, e)
        PROVE  OutTypeOK'
    BY <1>2, <1>5, OutboundAssumption DEF SendAmbiguous, StoreFails, Accept, SetMapping
  <1>6. ASSUME NEW w \in Workers, SendAccepted(w)
        PROVE  OutTypeOK'
    BY <1>1, <1>6, OutboundAssumption DEF SendAccepted, Accept
  <1>7. ASSUME NEW w \in Workers, NEW e, SendRefused(w, e)
        PROVE  OutTypeOK'
    BY <1>7 DEF SendRefused
  <1>8. ASSUME NEW m \in Messages, ReconcileAccepted(m)
        PROVE  OutTypeOK'
    BY <1>8 DEF ReconcileAccepted, SetMapping, handlerVars
  <1>9. ASSUME NEW id \in Ids, ConfirmNotAccepted(id)
        PROVE  OutTypeOK'
    BY <1>9 DEF ConfirmNotAccepted, SetMapping, handlerVars
  <1>10. CASE CrashOut
    BY <1>10 DEF CrashOut
  <1>11. CASE Outside \/ UNCHANGED outVars
    BY <1>11 DEF Outside, handlerVars, outVars
  <1> HIDE DEF OutTypeOK
  <1>12. QED
    BY <1>3, <1>4, <1>5, <1>6, <1>7, <1>8, <1>9, <1>10, <1>11 DEF OutNext, HandlerStep

OutFacts == PoolFacts /\ RaisedIsSendError /\ HandlerInv /\ OutTypeOK

-----------------------------------------------------------------------------
(***************************************************************************)
(* The marker.  While no lease of the message was lost, its row follows its *)
(* one handler: no row until it is about to send, the marker until the send *)
(* is known to have failed, and no send while the last one is in doubt.     *)
(***************************************************************************)
MarkerFollows(m) ==
  /\ mapping[m] = "none" => m \notin unsure
  /\ accepted[m] > 0 => m \in unsure
  /\ accepted[m] <= 1
  /\ \A w \in Workers : message[w] = m =>
       /\ step[w] \in {"resolve", "mark"} => mapping[m] = "none"
       /\ step[w] \in {"send", "clear"} => mapping[m] = "unknown" /\ m \notin unsure
       /\ step[w] = "record" => mapping[m] # "none"

MarkerInv == \A m \in Messages : ~LeaseLostFor(m) => MarkerFollows(m)

\* A handler of another message leaves the row and the handlers of m alone.
LEMMA OtherMessage ==
  ASSUME OutTypeOK, NEW m \in Messages, MarkerFollows(m),
         NEW w \in Workers, message[w] # m,
         mapping'[m] = mapping[m], accepted'[m] = accepted[m], m \in unsure' <=> m \in unsure,
         \A v \in Workers \ {w} : step'[v] = step[v] /\ message'[v] = message[v],
         message'[w] = message[w] \/ step'[w] \in {"idle", "find"}
  PROVE  MarkerFollows(m)'
  <1>1. ASSUME NEW v \in Workers, message'[v] = m
        PROVE  /\ step'[v] \in {"resolve", "mark"} => mapping[m] = "none"
               /\ step'[v] \in {"send", "clear"} => mapping[m] = "unknown" /\ m \notin unsure
               /\ step'[v] = "record" => mapping[m] # "none"
    BY <1>1 DEF MarkerFollows
  <1>2. QED
    BY <1>1 DEF MarkerFollows

\* The one handler of m does a step: its own place and the row are what count.
LEMMA OwnMessage ==
  ASSUME OutFacts, NEW m \in Messages, ~LeaseLostFor(m),
         NEW w \in Workers, step[w] # "idle", message[w] = m,
         \A v \in Workers \ {w} : step'[v] = step[v] /\ message'[v] = message[v],
         mapping'[m] = "none" => m \notin unsure',
         accepted'[m] > 0 => m \in unsure',
         accepted'[m] <= 1,
         step'[w] \in {"resolve", "mark"} => mapping'[m] = "none",
         step'[w] \in {"send", "clear"} => mapping'[m] = "unknown" /\ m \notin unsure',
         step'[w] = "record" => mapping'[m] # "none"
  PROVE  MarkerFollows(m)'
  <1>1. \A v \in Workers \ {w} : message[v] = m => step[v] = "idle"
    BY OneHandler DEF OutFacts
  <1>2. QED
    BY <1>1 DEF MarkerFollows

\* What ends, or goes on with, the handler of w changes nothing of the others.
LEMMA OthersGoOn ==
  ASSUME OutTypeOK, NEW w \in Workers,
         \/ Return(w) \/ (\E e : Throw(w, e)) \/ (\E s \in Steps : Continue(w, s))
  PROVE  /\ \A v \in Workers \ {w} : step'[v] = step[v] /\ message'[v] = message[v]
         /\ message'[w] = message[w] \/ step'[w] = "idle"
  <1>1. CASE EndHandler(w)
    BY <1>1 DEF OutTypeOK, EndHandler
  <1>2. CASE \E s \in Steps : Continue(w, s)
    BY <1>2 DEF OutTypeOK, Continue
  <1>3. QED
    BY <1>1, <1>2 DEF Return, Throw

LEMMA MarkerStepOfHandler ==
  ASSUME OutFacts, NEW m \in Messages, ~LeaseLostFor(m), MarkerFollows(m),
         NEW w \in Workers,
         \/ FindMessage(w) \/ Resolve(w) \/ Mark(w) \/ SendAccepted(w)
         \/ \E e \in SendErrors : SendAmbiguous(w, e) \/ SendRefused(w, e)
         \/ Clear(w) \/ Record(w)
         \/ \E e \in StatementErrors : StoreFails(w, e)
  PROVE  MarkerFollows(m)'
  <1>a. step[w] # "idle" /\ message[w] \in Messages
    <2>1. step[w] # "idle"
      BY DEF FindMessage, Resolve, Mark, SendAccepted, SendAmbiguous, SendRefused,
             Clear, Record, StoreFails
    <2>2. QED
      BY <2>1, HandlerMessage DEF OutFacts, PoolFacts
  <1>b. /\ \A v \in Workers \ {w} : step'[v] = step[v] /\ message'[v] = message[v]
        /\ message'[w] = message[w] \/ step'[w] = "idle"
    <2>1. CASE \E e \in SendErrors : SendRefused(w, e)
      BY <2>1 DEF SendRefused, OutFacts, OutTypeOK
    <2>2. CASE FindMessage(w) \/ Resolve(w) \/ Mark(w) \/ SendAccepted(w)
      BY <2>2, OthersGoOn DEF FindMessage, Resolve, Mark, SendAccepted, OutFacts, Steps
    <2>3. CASE \/ \E e \in SendErrors : SendAmbiguous(w, e)
               \/ Clear(w) \/ Record(w)
               \/ \E e \in StatementErrors : StoreFails(w, e)
      BY <2>3, OthersGoOn DEF SendAmbiguous, Clear, Record, StoreFails, OutFacts
    <2>4. QED
      BY <2>1, <2>2, <2>3
  <1>1. CASE message[w] # m
    <2>1. /\ mapping'[m] = mapping[m] /\ accepted'[m] = accepted[m]
          /\ m \in unsure' <=> m \in unsure
      <3> USE <1>1, <1>a DEF OutFacts, OutTypeOK
      <3>1. CASE FindMessage(w) \/ Resolve(w) \/ Mark(w)
        BY <3>1 DEF FindMessage, Resolve, Mark, SetMapping
      <3>2. CASE SendAccepted(w) \/ \E e \in SendErrors : SendAmbiguous(w, e)
        BY <3>2 DEF SendAccepted, SendAmbiguous, Accept
      <3>3. CASE \/ \E e \in SendErrors : SendRefused(w, e)
                 \/ Clear(w) \/ Record(w)
        BY <3>3 DEF SendRefused, Clear, Record, SetMapping
      <3>4. CASE \E e \in StatementErrors : StoreFails(w, e)
        BY <3>4 DEF StoreFails, SetMapping
      <3>5. QED
        BY <3>1, <3>2, <3>3, <3>4
    <2>2. QED
      BY <1>1, <1>b, <2>1, OtherMessage DEF OutFacts
  <1>2. CASE message[w] = m
    <2> DEFINE Goal ==
          /\ mapping'[m] = "none" => m \notin unsure'
          /\ accepted'[m] > 0 => m \in unsure'
          /\ accepted'[m] <= 1
          /\ step'[w] \in {"resolve", "mark"} => mapping'[m] = "none"
          /\ step'[w] \in {"send", "clear"} => mapping'[m] = "unknown" /\ m \notin unsure'
          /\ step'[w] = "record" => mapping'[m] # "none"
    <2>1. Goal
      <3>a. /\ step \in [Workers -> Steps] /\ mapping \in [Messages -> {"none", "unknown", "recorded"}]
            /\ accepted \in [Messages -> 0..MaxSends]
        BY DEF OutFacts, OutTypeOK
      <3>b. /\ step[w] \in {"resolve", "mark"} => mapping[m] = "none"
            /\ step[w] \in {"send", "clear"} => mapping[m] = "unknown" /\ m \notin unsure
            /\ step[w] = "record" => mapping[m] # "none"
            /\ mapping[m] = "none" => m \notin unsure
            /\ accepted[m] > 0 => m \in unsure
            /\ accepted[m] <= 1
        BY <1>2 DEF MarkerFollows
      <3>c. ASSUME Return(w) \/ \E e : Throw(w, e)
            PROVE  step'[w] = "idle"
        BY <3>a, <3>c DEF Return, Throw, EndHandler
      <3>d. ASSUME NEW s, Continue(w, s)
            PROVE  step'[w] = s
        BY <3>a, <3>d DEF Continue
      <3> USE <1>2, <3>a, <3>b
      <3>1. CASE FindMessage(w)
        BY <3>1, <3>c, <3>d DEF FindMessage
      <3>2. CASE Resolve(w)
        BY <3>2, <3>c, <3>d DEF Resolve
      <3>3. CASE Mark(w)
        BY <3>3, <3>c, <3>d DEF Mark, SetMapping
      <3>4. CASE SendAccepted(w)
        BY <3>4, <3>d, OutboundAssumption DEF SendAccepted, Accept
      <3>5. CASE \E e \in SendErrors : SendAmbiguous(w, e)
        BY <3>5, <3>c, OutboundAssumption DEF SendAmbiguous, Accept
      <3>6. CASE \E e \in SendErrors : SendRefused(w, e)
        BY <3>6 DEF SendRefused
      <3>7. CASE Clear(w)
        BY <3>7, <3>c DEF Clear, SetMapping
      <3>8. CASE Record(w)
        BY <3>8, <3>c DEF Record, SetMapping
      <3>9. CASE \E e \in StatementErrors : StoreFails(w, e)
        BY <3>9, <3>c DEF StoreFails, SetMapping
      <3>10. QED
        BY <3>1, <3>2, <3>3, <3>4, <3>5, <3>6, <3>7, <3>8, <3>9
    <2>2. QED
      BY <1>2, <1>a, <1>b, <2>1, OwnMessage
  <1>3. QED
    BY <1>1, <1>2

LEMMA MarkerInvNext == OutFacts /\ MarkerInv /\ [OutNext]_outVars => MarkerInv'
  <1> SUFFICES ASSUME OutFacts, MarkerInv, [OutNext]_outVars,
                      NEW m \in Messages, ~LeaseLostFor(m)'
               PROVE  MarkerFollows(m)'
    BY DEF MarkerInv
  <1>a. ~LeaseLostFor(m) /\ MarkerFollows(m)
    BY LostStaysLost DEF MarkerInv, OutFacts, PoolFacts
  <1>1. ASSUME NEW w \in Workers, NEW id \in Ids, StartHandler(w, id)
        PROVE  MarkerFollows(m)'
    <2>1. /\ step' = [step EXCEPT ![w] = "find"]
          /\ \A v \in Workers \ {w} : message'[v] = message[v]
          /\ UNCHANGED <<mapping, accepted, unsure>>
      BY <1>1 DEF StartHandler
    <2>2. QED
      BY <1>a, <2>1 DEF MarkerFollows, OutFacts, OutTypeOK
  <1>2. ASSUME NEW w \in Workers,
               HandlerStep(w) \/ \E e \in StatementErrors : StoreFails(w, e)
        PROVE  MarkerFollows(m)'
    BY <1>2, <1>a, MarkerStepOfHandler DEF HandlerStep
  <1>3. ASSUME NEW n \in Messages, ReconcileAccepted(n)
        PROVE  MarkerFollows(m)'
    <2>1. /\ accepted[n] > 0 /\ mapping' = [mapping EXCEPT ![n] = "recorded"]
          /\ UNCHANGED <<step, message, accepted, unsure>>
      BY <1>3 DEF ReconcileAccepted, SetMapping, handlerVars
    <2>2. \A w \in Workers : message[w] = n /\ n = m =>
                             step[w] \notin {"resolve", "mark", "send", "clear"}
      BY <1>a, <2>1 DEF MarkerFollows
    <2>3. QED
      BY <1>a, <2>1, <2>2 DEF MarkerFollows, OutFacts, OutTypeOK
  <1>4. ASSUME NEW id \in Ids, ConfirmNotAccepted(id)
        PROVE  MarkerFollows(m)'
    <2> DEFINE n == request[id].key
    <2>1. /\ state[id] = "dead" /\ accepted[n] = 0 /\ mapping[n] = "unknown"
          /\ mapping' = [mapping EXCEPT ![n] = "none"] /\ unsure' = unsure \ {n}
          /\ UNCHANGED <<step, message, accepted>>
      BY <1>4 DEF ConfirmNotAccepted, SetMapping, handlerVars
    <2>2. ASSUME NEW w \in Workers, step[w] # "idle", message[w] = n, n = m
          PROVE  FALSE
      BY <1>a, <2>1, <2>2, OneRow DEF OutFacts, Holds, Visible
    <2>3. CASE n = m
      <3>1. mapping'[m] = "none" /\ m \notin unsure' /\ accepted'[m] = 0
        BY <2>1, <2>3 DEF OutFacts, OutTypeOK
      <3>2. \A w \in Workers : message'[w] = m => step'[w] = "idle"
        BY <2>1, <2>2, <2>3
      <3>3. QED
        BY <3>1, <3>2 DEF MarkerFollows
    <2>4. CASE n # m
      BY <1>a, <2>1, <2>4 DEF MarkerFollows, OutFacts, OutTypeOK
    <2>5. QED
      BY <2>3, <2>4
  <1>5. CASE CrashOut
    BY <1>5, <1>a DEF CrashOut, MarkerFollows
  <1>6. CASE Outside \/ UNCHANGED outVars
    BY <1>6, <1>a DEF Outside, outVars, handlerVars, MarkerFollows
  <1>7. QED
    BY <1>1, <1>2, <1>3, <1>4, <1>5, <1>6 DEF OutNext

-----------------------------------------------------------------------------
(***************************************************************************)
(* What is parked has a row.  A job gets the verdict of an unknown delivery *)
(* from a handler that leaves the row behind, and keeps it until it is dead. *)
(***************************************************************************)
Dooms(w) == phase[w] = "burying" /\ verdict[w] = "unknown" /\ Holds(w, running[w])

NothingParked(m) ==
  /\ \A id \in Ids : lastError[id] = "unknown" => request[id].key # m
  /\ \A w \in Workers : Dooms(w) => request[running[w]].key # m

ParkedInv ==
  \A m \in Messages : mapping[m] = "none" => NothingParked(m) \/ LeaseLostFor(m)

\* The steps of queue and workers outside the handler park no other job.
LEMMA OutsideParks ==
  ASSUME PoolFacts, NEW m, NothingParked(m),
         Outside \/ \E w \in Workers, id \in Ids : StartHandler(w, id)
  PROVE  NothingParked(m)'
  <1>a. /\ \A id \in Ids : lastError[id] = "unknown" => state[id] = "dead"
        /\ \A w \in Workers : phase[w] \in Busy => running[w] \in Ids
        /\ \A w \in Workers : phase[w] = "retrying" => verdict[w] = "failed"
    BY DEF PoolFacts, UnknownIsParked, WorkerInv, PhaseInv
  <1>b. /\ state \in [Ids -> States] /\ lockedBy \in [Ids -> Workers \cup {NoWorker}]
        /\ request \in [Ids -> Requests \cup {NoRequest}] /\ lastError \in [Ids -> Errors]
        /\ NoWorker \notin Workers
        /\ phase \in [Workers -> Phases] /\ running \in [Workers -> Ids \cup {0}]
        /\ verdict \in [Workers -> {"none", "failed", "unknown"}]
    BY QueueAssumption DEF PoolFacts, QueueInv, QueueTypeOK, WorkerInv, PoolTypeOK
  <1>c. \A e \in StatementErrors \cup {LeaseLost} : SafeError(e) = "failed"
    <2>1. SafeError(LeaseLost) = "failed"
      BY DEF SafeError, LeaseLost, PlainError, NamedFailure, Failure
    <2>2. QED
      BY <2>1, OutboundAssumption
  <1> USE <1>a, <1>b DEF NothingParked, Dooms, Holds, Busy
  <1>1. ASSUME NEW w \in Workers, Recover(w) \/ RecoverFails(w)
        PROVE  NothingParked(m)'
    BY <1>1 DEF Recover, RecoverFails, RecoverStale, Stale, GoTo, queueVars, workerVars
  <1>2. ASSUME NEW w \in Workers, Idle(w) \/ Beat(w)
        PROVE  NothingParked(m)'
    BY <1>2 DEF Idle, Beat, Heartbeat, poolVars, queueVars, workerVars
  <1>3. ASSUME NEW w \in Workers, ClaimFails(w) \/ \E id \in Ids : StartHandler(w, id)
        PROVE  NothingParked(m)'
    BY <1>3 DEF ClaimFails, StartHandler, ClaimJob, Claim, Claimable, GoTo, queueVars
  <1>4. ASSUME NEW w \in Workers,
               CompleteJob(w) \/ \E e \in StatementErrors : CompleteFails(w, e)
        PROVE  NothingParked(m)'
    <2>1. /\ UNCHANGED queueVars \/ Complete(w, running[w])
          /\ running' = running \/ LetGo(w, "polling")
          /\ \A v \in Workers \ {w} : phase'[v] = phase[v] /\ verdict'[v] = verdict[v]
          /\ ~(phase'[w] = "burying" /\ verdict'[w] = "unknown")
      BY <1>4, <1>c DEF CompleteJob, CompleteFails, Catch, GoTo, LetGo
    <2>2. /\ UNCHANGED <<lastError, request>>
          /\ \A v \in Workers, id \in Ids : Holds(v, id)' => Holds(v, id)
      BY <2>1 DEF Complete, Unlock, queueVars
    <2>3. \A v \in Workers \ {w} : running'[v] = running[v]
      BY <2>1 DEF LetGo
    <2>4. QED
      BY <2>1, <2>2, <2>3
  <1>5. ASSUME NEW w \in Workers, SettleJob(w) \/ SettleFails(w)
        PROVE  NothingParked(m)'
    <2>1. /\ running' = [running EXCEPT ![w] = 0]
          /\ \A v \in Workers \ {w} : phase'[v] = phase[v] /\ verdict'[v] = verdict[v]
          /\ phase'[w] # "burying"
      BY <1>5 DEF SettleJob, SettleFails, LetGo
    <2>2. UNCHANGED queueVars \/ Settle(w)
      BY <1>5 DEF SettleJob, SettleFails
    <2>3. CASE UNCHANGED queueVars
      BY <2>1, <2>3 DEF queueVars
    <2>4. CASE Settle(w)
      <3>1. /\ request' = request
            /\ \A v \in Workers, id \in Ids : Holds(v, id)' => Holds(v, id)
            /\ \A id \in Ids : lastError'[id] = "unknown" =>
                 lastError[id] = "unknown" \/ (id = running[w] /\ Dooms(w))
        <4>1. CASE phase[w] = "retrying" /\ Retry(w, running[w], verdict[w])
          BY <4>1 DEF Retry, Unlock
        <4>2. CASE phase[w] = "burying" /\ DeadLetter(w, running[w], verdict[w])
          BY <4>2 DEF DeadLetter, Unlock
        <4>3. QED
          BY <2>4, <4>1, <4>2 DEF Settle
      <3>2. QED
        BY <2>1, <3>1
    <2>5. QED
      BY <2>2, <2>3, <2>4
  <1>6. CASE Restart
    BY <1>6 DEF Restart, queueVars
  <1>7. ASSUME NEW id \in Ids,
               \/ AbandonedLapses(id) \/ LapseUnderHandler(id) \/ DelayEnds(id)
               \/ Requeue(id, FALSE)
        PROVE  NothingParked(m)'
    BY <1>7 DEF AbandonedLapses, LapseUnderHandler, LeaseLapses, DelayEnds, BecomeDue,
                Requeue, RequeueDead, workerVars
  <1>8. CASE Retention
    BY <1>8 DEF Retention, Cleanup, SettledIds, Settled, workerVars
  <1>9. CASE Clients
    <2>1. ASSUME NEW r \in Requests, BeginEnqueue(r)
          PROVE  NothingParked(m)'
      <3>1. state[sequence + 1] = "absent" /\ sequence + 1 \in Ids
        BY <2>1, QueueAssumption
        DEF BeginEnqueue, PoolFacts, QueueInv, QueueTypeOK, FreshIds, Ids
      <3>2. QED
        BY <1>9, <2>1, <3>1 DEF Clients, BeginEnqueue, workerVars
    <2>2. ASSUME NEW id \in Ids,
                 CommitEnqueue(id) \/ ConflictEnqueue(id) \/ AbortEnqueue(id)
          PROVE  NothingParked(m)'
      BY <1>9, <2>2
      DEF Clients, CommitEnqueue, ConflictEnqueue, AbortEnqueue, workerVars
    <2>3. QED
      BY <1>9, <2>1, <2>2 DEF Clients, ClientNext
  <1>10. QED
    BY <1>1, <1>2, <1>3, <1>4, <1>5, <1>6, <1>7, <1>8, <1>9 DEF Outside

\* While the handler of m is at work no job of m is parked or about to be.
LEMMA NoneBeside ==
  ASSUME OutFacts, NEW m \in Messages, ~LeaseLostFor(m),
         NEW w \in Workers, step[w] # "idle", message[w] = m
  PROVE  NothingParked(m)
  <1>1. ASSUME NEW id \in Ids, Visible(id), request[id].key = m
        PROVE  Holds(w, id)
    BY <1>1, OneRow DEF OutFacts
  <1>2. ASSUME NEW id \in Ids, lastError[id] = "unknown", request[id].key = m
        PROVE  FALSE
    BY <1>1, <1>2 DEF OutFacts, PoolFacts, UnknownIsParked, Visible, Holds
  <1>3. ASSUME NEW v \in Workers, Dooms(v), request[running[v]].key = m
        PROVE  FALSE
    <2>1. running[v] \in Ids /\ Visible(running[v])
      BY <1>3 DEF Dooms, Holds, Visible, OutFacts, PoolFacts, WorkerInv, PhaseInv, Busy
    <2>2. v = w
      BY <1>1, <1>3, <2>1 DEF Dooms, Holds
    <2>3. QED
      BY <1>3, <2>2 DEF Dooms, OutFacts, HandlerInv
  <1>4. QED
    BY <1>2, <1>3 DEF NothingParked

LEMMA ParkedStepOfHandler ==
  ASSUME OutFacts, MarkerInv, ParkedInv, NEW m \in Messages, ~LeaseLostFor(m),
         mapping'[m] = "none", NEW w \in Workers,
         \/ FindMessage(w) \/ Resolve(w) \/ Mark(w) \/ SendAccepted(w)
         \/ \E e \in SendErrors : SendAmbiguous(w, e) \/ SendRefused(w, e)
         \/ Clear(w) \/ Record(w)
         \/ \E e \in StatementErrors : StoreFails(w, e)
  PROVE  NothingParked(m)'
  <1>a. /\ step \in [Workers -> Steps]
        /\ mapping \in [Messages -> {"none", "unknown", "recorded"}]
        /\ phase \in [Workers -> Phases] /\ running \in [Workers -> Ids \cup {0}]
        /\ verdict \in [Workers -> {"none", "failed", "unknown"}]
    BY DEF OutFacts, OutTypeOK, PoolFacts, WorkerInv, PoolTypeOK
  <1>1. step[w] # "idle" /\ message[w] \in Messages
    <2>1. step[w] # "idle"
      BY DEF FindMessage, Resolve, Mark, SendAccepted, SendAmbiguous, SendRefused,
             Clear, Record, StoreFails
    <2>2. QED
      BY <2>1, HandlerMessage DEF OutFacts, PoolFacts
  <1>b. phase[w] = "handling"
    BY <1>1 DEF OutFacts, HandlerInv
  <1>2. \/ Return(w) \/ (\E e : Throw(w, e)) \/ UNCHANGED poolVars
    BY DEF FindMessage, Resolve, Mark, SendAccepted, SendAmbiguous, SendRefused,
           Clear, Record, StoreFails, Continue
  <1>3. /\ UNCHANGED queueVars /\ running' = running
        /\ \A v \in Workers \ {w} : phase'[v] = phase[v] /\ verdict'[v] = verdict[v]
    BY <1>a, <1>2 DEF Return, Throw, HandlerReturns, HandlerThrows, Catch, GoTo,
                      poolVars, workerVars
  <1>4. mapping[m] = "none" \/ message[w] = m
    <2>1. CASE \/ FindMessage(w) \/ Resolve(w) \/ SendAccepted(w)
               \/ \E e \in SendErrors : SendAmbiguous(w, e) \/ SendRefused(w, e)
      BY <2>1 DEF FindMessage, Resolve, SendAccepted, SendAmbiguous, SendRefused
    <2>2. CASE Mark(w) \/ Clear(w) \/ Record(w)
      BY <1>a, <1>1, <2>2 DEF Mark, Clear, Record, SetMapping
    <2>3. CASE \E e \in StatementErrors : StoreFails(w, e)
      BY <1>a, <1>1, <2>3 DEF StoreFails, SetMapping
    <2>4. QED
      BY <2>1, <2>2, <2>3
  <1>5. NothingParked(m)
    BY <1>1, <1>4, NoneBeside DEF ParkedInv
  <1>6. ASSUME message[w] = m, phase'[w] = "burying"
        PROVE  verdict'[w] # "unknown"
    <2>1. /\ step[w] \in {"send", "clear"} => mapping[m] = "unknown"
          /\ step[w] = "record" => mapping[m] # "none"
      BY <1>6 DEF MarkerInv, MarkerFollows
    <2>2. ASSUME NEW e, Throw(w, e), SafeError(e) = "failed"
          PROVE  verdict'[w] # "unknown"
      BY <1>a, <2>2 DEF Throw, HandlerThrows, Catch
    <2>3. ASSUME Return(w) \/ UNCHANGED poolVars
          PROVE  FALSE
      BY <1>a, <1>b, <1>6, <2>3 DEF Return, HandlerReturns, GoTo, poolVars, workerVars
    <2>4. \A e \in ResolveErrors \cup StatementErrors : SafeError(e) = "failed"
      BY OutboundAssumption
    <2> USE <1>a, <1>6
    <2>5. CASE FindMessage(w) \/ SendAccepted(w) \/ \E e \in SendErrors : SendRefused(w, e)
      BY <2>3, <2>5 DEF FindMessage, SendAccepted, SendRefused, Continue
    <2>6. CASE Resolve(w)
      BY <2>2, <2>3, <2>4, <2>6 DEF Resolve, Continue
    <2>7. CASE Mark(w)
      <3>1. SafeError(UniqueViolation) = "failed"
        BY DEF SafeError, UniqueViolation, CodedFailure, Failure
      <3>2. QED
        BY <2>2, <2>3, <2>7, <3>1 DEF Mark, Continue
    <2>8. CASE \E e \in SendErrors : SendAmbiguous(w, e)
      BY <2>1, <2>8 DEF SendAmbiguous
    <2>9. CASE Clear(w)
      <3>1. Throw(w, raised[w]) /\ ~IsAmbiguousSend(raised[w])
        BY <2>9 DEF Clear, OutFacts, RaisedIsSendError
      <3>2. SafeError(raised[w]) = "failed"
        BY <3>1 DEF IsAmbiguousSend, SafeError
      <3>3. QED
        BY <2>2, <3>1, <3>2
    <2>10. CASE Record(w)
      BY <2>1, <2>3, <2>10 DEF Record, SetMapping
    <2>11. CASE \E e \in StatementErrors : StoreFails(w, e)
      <3>1. PICK e \in StatementErrors : StoreFails(w, e)
        BY <2>11
      <3>2. CASE step[w] = "record"
        BY <2>1, <3>1, <3>2 DEF StoreFails, SetMapping
      <3>3. CASE step[w] # "record"
        BY <2>2, <2>4, <3>1, <3>3 DEF StoreFails
      <3>4. QED
        BY <3>2, <3>3
    <2>12. QED
      BY <2>5, <2>6, <2>7, <2>8, <2>9, <2>10, <2>11
  <1>7. ASSUME Dooms(w)'
        PROVE  request[running[w]].key # m
    <2>1. running[w] \in Ids /\ Visible(running[w])
      BY <1>3, <1>7, <1>b
      DEF Dooms, Holds, Visible, queueVars, OutFacts, PoolFacts, WorkerInv, PhaseInv, Busy
    <2>2. request[running[w]].key = message[w]
      BY <1>1, <2>1 DEF OutFacts, HandlerInv, PoolFacts, AckedIsStored
    <2>3. QED
      BY <1>6, <1>7, <2>2 DEF Dooms
  <1>8. ASSUME NEW v \in Workers, Dooms(v)'
        PROVE  (request[running[v]].key)' # m
    <2>1. CASE v = w
      BY <1>3, <1>7, <1>8, <2>1 DEF queueVars
    <2>2. CASE v # w
      BY <1>3, <1>5, <1>8, <2>2 DEF Dooms, Holds, NothingParked, queueVars
    <2>3. QED
      BY <2>1, <2>2
  <1>9. QED
    BY <1>3, <1>5, <1>8 DEF NothingParked, queueVars

LEMMA ParkedInvNext ==
  OutFacts /\ MarkerInv /\ ParkedInv /\ [OutNext]_outVars => ParkedInv'
  <1> SUFFICES ASSUME OutFacts, MarkerInv, ParkedInv, [OutNext]_outVars,
                      NEW m \in Messages, mapping'[m] = "none", ~LeaseLostFor(m)'
               PROVE  NothingParked(m)'
    BY DEF ParkedInv
  <1>a. ~LeaseLostFor(m)
    BY LostStaysLost DEF OutFacts, PoolFacts
  <1>b. ASSUME mapping' = mapping
        PROVE  NothingParked(m)
    BY <1>a, <1>b DEF ParkedInv
  <1>1. ASSUME Outside \/ \E w \in Workers, id \in Ids : StartHandler(w, id)
        PROVE  NothingParked(m)'
    <2>1. mapping' = mapping
      BY <1>1 DEF Outside, StartHandler
    <2>2. QED
      BY <1>1, <1>b, <2>1, OutsideParks DEF OutFacts
  <1>2. ASSUME NEW w \in Workers,
               HandlerStep(w) \/ \E e \in StatementErrors : StoreFails(w, e)
        PROVE  NothingParked(m)'
    BY <1>a, <1>2, ParkedStepOfHandler DEF HandlerStep
  <1>3. ASSUME NEW n \in Messages, ReconcileAccepted(n)
        PROVE  NothingParked(m)'
    <2>1. mapping[m] = "none" /\ UNCHANGED poolVars
      BY <1>3 DEF ReconcileAccepted, SetMapping, OutFacts, OutTypeOK
    <2>2. QED
      BY <1>a, <2>1 DEF ParkedInv, NothingParked, Dooms, Holds, poolVars, queueVars, workerVars
  <1>4. ASSUME NEW id \in Ids, ConfirmNotAccepted(id)
        PROVE  NothingParked(m)'
    <2>1. /\ state[id] = "dead"
          /\ mapping' = [mapping EXCEPT ![request[id].key] = "none"]
          /\ state' = [state EXCEPT ![id] = "pending"]
          /\ lastError' = [lastError EXCEPT ![id] = "none"]
          /\ UNCHANGED <<request, lockedBy, workerVars>>
      BY <1>4 DEF ConfirmNotAccepted, SetMapping, Requeue, RequeueDead
    <2>t. /\ state \in [Ids -> States] /\ lastError \in [Ids -> Errors]
          /\ \A w \in Workers : phase[w] \in Busy => running[w] \in Ids
      BY DEF OutFacts, PoolFacts, QueueInv, QueueTypeOK, WorkerInv, PhaseInv
    <2>2. \A k \in Ids : Visible(k) /\ request[k].key = request[id].key => k = id
      BY <2>1 DEF OutFacts, PoolFacts, DedupeSound, Visible
    <2>3. ASSUME NEW k \in Ids, lastError'[k] = "unknown"
          PROVE  request[k].key # m
      <3>1. k # id /\ lastError[k] = "unknown"
        BY <2>1, <2>3, <2>t
      <3>2. Visible(k)
        BY <3>1 DEF OutFacts, PoolFacts, UnknownIsParked, Visible
      <3>3. CASE request[id].key = m
        BY <2>2, <3>1, <3>2, <3>3
      <3>4. CASE request[id].key # m
        <4>1. mapping[m] = "none"
          BY <2>1, <3>4 DEF OutFacts, OutTypeOK
        <4>2. QED
          BY <1>a, <3>1, <4>1 DEF ParkedInv, NothingParked
      <3>5. QED
        BY <3>3, <3>4
    <2>4. ASSUME NEW w \in Workers, Dooms(w)'
          PROVE  request[running[w]].key # m
      <3>1. Dooms(w) /\ running[w] \in Ids
        BY <2>1, <2>4, <2>t DEF Dooms, Holds, workerVars, Busy
      <3>2. Visible(running[w]) /\ running[w] # id
        BY <2>1, <3>1 DEF Dooms, Holds, Visible
      <3>3. CASE request[id].key = m
        BY <2>2, <3>1, <3>2, <3>3
      <3>4. CASE request[id].key # m
        <4>1. mapping[m] = "none"
          BY <2>1, <3>4 DEF OutFacts, OutTypeOK
        <4>2. QED
          BY <1>a, <3>1, <4>1 DEF ParkedInv, NothingParked
      <3>5. QED
        BY <3>3, <3>4
    <2>5. QED
      BY <2>1, <2>3, <2>4 DEF NothingParked, workerVars
  <1>5. CASE CrashOut
    <2>1. /\ mapping' = mapping /\ UNCHANGED queueVars
          /\ phase' = [w \in Workers |-> "down"]
      BY <1>5 DEF CrashOut, Crash
    <2>2. QED
      BY <1>b, <2>1 DEF NothingParked, Dooms, queueVars
  <1>6. CASE UNCHANGED outVars
    BY <1>6, <1>b DEF NothingParked, Dooms, Holds, outVars, poolVars, queueVars, workerVars
  <1>7. QED
    BY <1>1, <1>2, <1>3, <1>4, <1>5, <1>6 DEF OutNext

-----------------------------------------------------------------------------
(***************************************************************************)
(* What is completed was delivered.  This needs no lease: a handler returns *)
(* only for a recorded message, or after it told amoCRM of the failure.     *)
(***************************************************************************)
Delivered(m) == accepted[m] > 0 \/ m \in rejected

RecordedWasAccepted ==
  /\ \A m \in Messages : mapping[m] = "recorded" => accepted[m] > 0
  /\ \A w \in Workers : step[w] = "record" => accepted[message[w]] > 0

ReturnedWasDelivered ==
  \A w \in Workers : phase[w] = "completing" =>
    \E a \in acked : a.id = running[w] /\ Delivered(a.request.key)

CompletedInv == RecordedWasAccepted /\ ReturnedWasDelivered /\ CompletedWasDelivered

LEMMA DeliveredStays ==
  ASSUME OutFacts, [OutNext]_outVars, NEW m
  PROVE  /\ m \in Messages /\ accepted[m] > 0 => accepted'[m] > 0
         /\ m \in rejected => m \in rejected'
  <1>a. /\ accepted \in [Messages -> 0..MaxSends] /\ MaxSends \in Nat
        /\ rejected \subseteq Messages
    BY OutboundAssumption DEF OutFacts, OutTypeOK
  <1>1. rejected \subseteq rejected'
    BY DEF OutNext, HandlerStep, StartHandler, FindMessage, Resolve, Mark, SendAccepted,
           SendAmbiguous, SendRefused, Clear, Record, StoreFails, ReconcileAccepted,
           ConfirmNotAccepted, CrashOut, Outside, outVars
  <1>2. accepted' = accepted \/ \E k : Accept(k)
    BY DEF OutNext, HandlerStep, StartHandler, FindMessage, Resolve, Mark, SendAccepted,
           SendAmbiguous, SendRefused, Clear, Record, StoreFails, ReconcileAccepted,
           ConfirmNotAccepted, CrashOut, Outside, outVars
  <1>3. QED
    BY <1>a, <1>1, <1>2 DEF Accept

LEMMA RecordedNext ==
  OutFacts /\ RecordedWasAccepted /\ [OutNext]_outVars => RecordedWasAccepted'
  <1> SUFFICES ASSUME OutFacts, RecordedWasAccepted, [OutNext]_outVars
               PROVE  RecordedWasAccepted'
    OBVIOUS
  <1>a. /\ accepted \in [Messages -> 0..MaxSends] /\ step \in [Workers -> Steps]
        /\ mapping \in [Messages -> {"none", "unknown", "recorded"}]
        /\ MaxSends \in Nat
        /\ \A w \in Workers : step[w] # "idle" => message[w] \in Messages
    BY HandlerMessage, OutboundAssumption DEF OutFacts, OutTypeOK, PoolFacts
  <1>b. \A m \in Messages : accepted[m] > 0 => accepted'[m] > 0
    BY DeliveredStays
  <1> DEFINE RowsSound == \A m \in Messages : mapping'[m] = "recorded" =>
                            mapping[m] = "recorded" \/ accepted[m] > 0
             StepsSound == \A w \in Workers : step'[w] = "record" =>
                             /\ step[w] # "idle" /\ message'[w] = message[w]
                             /\ step[w] = "record" \/ accepted'[message[w]] > 0
  <1>c. ASSUME RowsSound, StepsSound
        PROVE  RecordedWasAccepted'
    BY <1>a, <1>b, <1>c DEF RecordedWasAccepted, Steps
  <1>d. /\ DOMAIN message = Workers
        /\ \A w \in Workers : step[w] = "record" => accepted[message[w]] > 0
    BY DEF RecordedWasAccepted, OutFacts, RaisedIsSendError
  <1>e. ASSUME NEW w \in Workers,
               \/ Return(w) \/ (\E e : Throw(w, e))
               \/ (\E s \in Steps \ {"record"} : Continue(w, s))
        PROVE  \A v \in Workers : step'[v] = "record" =>
                 /\ message'[v] = message[v] /\ step[v] = "record"
    <2>1. CASE EndHandler(w)
      BY <1>a, <1>d, <2>1 DEF EndHandler
    <2>2. CASE \E s \in Steps \ {"record"} : Continue(w, s)
      BY <1>a, <2>2 DEF Continue
    <2>3. QED
      BY <1>e, <2>1, <2>2 DEF Return, Throw
  <1>1. ASSUME NEW w \in Workers,
               \/ FindMessage(w) \/ Resolve(w) \/ Mark(w)
               \/ \E e \in SendErrors : SendAmbiguous(w, e)
               \/ Clear(w) \/ Record(w)
               \/ \E e \in StatementErrors : StoreFails(w, e)
        PROVE  RecordedWasAccepted'
    <2>1. \/ Return(w) \/ (\E e : Throw(w, e))
          \/ (\E s \in Steps \ {"record"} : Continue(w, s))
      <3>1. CASE FindMessage(w) \/ Resolve(w) \/ Mark(w)
        BY <3>1 DEF FindMessage, Resolve, Mark, Steps
      <3>2. CASE \/ \E e \in SendErrors : SendAmbiguous(w, e)
                 \/ Clear(w) \/ Record(w)
                 \/ \E e \in StatementErrors : StoreFails(w, e)
        BY <3>2 DEF SendAmbiguous, Clear, Record, StoreFails
      <3>3. QED
        BY <1>1, <3>1, <3>2
    <2>2. \A m \in Messages : mapping'[m] = "recorded" =>
            mapping[m] = "recorded" \/ accepted[m] > 0
      <3>1. CASE FindMessage(w) \/ Resolve(w) \/ \E e \in SendErrors : SendAmbiguous(w, e)
        BY <3>1 DEF FindMessage, Resolve, SendAmbiguous
      <3>2. CASE Mark(w) \/ Clear(w)
        BY <3>2, <1>a DEF Mark, Clear, SetMapping
      <3>3. CASE Record(w)
        BY <3>3, <1>a, <1>d DEF Record, SetMapping
      <3>4. CASE \E e \in StatementErrors : StoreFails(w, e)
        BY <3>4, <1>a, <1>d DEF StoreFails, SetMapping
      <3>5. QED
        BY <1>1, <3>1, <3>2, <3>3, <3>4
    <2>3. QED
      BY <1>c, <1>e, <2>1, <2>2
  <1>2. ASSUME NEW w \in Workers, SendAccepted(w)
        PROVE  RecordedWasAccepted'
    BY <1>2, <1>a, <1>c DEF SendAccepted, Accept, Continue
  <1>3. ASSUME NEW w \in Workers, NEW e, SendRefused(w, e)
        PROVE  RecordedWasAccepted'
    BY <1>3, <1>a, <1>c DEF SendRefused
  <1>4. ASSUME NEW w \in Workers, NEW id \in Ids, StartHandler(w, id)
        PROVE  RecordedWasAccepted'
    BY <1>4, <1>a, <1>c, <1>d DEF StartHandler
  <1>5. ASSUME NEW m \in Messages, ReconcileAccepted(m)
        PROVE  RecordedWasAccepted'
    BY <1>5, <1>a, <1>c DEF ReconcileAccepted, SetMapping, handlerVars
  <1>6. ASSUME NEW id \in Ids, ConfirmNotAccepted(id)
        PROVE  RecordedWasAccepted'
    BY <1>6, <1>a, <1>c DEF ConfirmNotAccepted, SetMapping, handlerVars
  <1>7. CASE CrashOut
    BY <1>7, <1>c DEF CrashOut
  <1>8. CASE Outside \/ UNCHANGED outVars
    BY <1>8, <1>c DEF Outside, outVars, handlerVars
  <1>9. QED
    BY <1>1, <1>2, <1>3, <1>4, <1>5, <1>6, <1>7, <1>8 DEF OutNext, HandlerStep

LEMMA ReturningIsDelivering ==
  ASSUME OutFacts, RecordedWasAccepted, OutNext, NEW w \in Workers,
         phase[w] = "handling", phase'[w] = "completing"
  PROVE  step[w] # "idle" /\ (accepted'[message[w]] > 0 \/ message[w] \in rejected')
  <1> DEFINE Goal ==
        step[w] # "idle" /\ (accepted'[message[w]] > 0 \/ message[w] \in rejected')
  <1> SUFFICES Goal
    OBVIOUS
  <1>a. /\ phase \in [Workers -> Phases]
        /\ \A v \in Workers : step[v] # "idle" => message[v] \in Messages
    BY HandlerMessage DEF OutFacts, PoolFacts, WorkerInv, PoolTypeOK
  <1>b. /\ \A m \in Messages : mapping[m] = "recorded" => accepted[m] > 0
        /\ \A v \in Workers : step[v] = "record" => accepted[message[v]] > 0
    BY DEF RecordedWasAccepted
  <1>1. ASSUME UNCHANGED poolVars \/ \E v \in Workers : \E e : Throw(v, e)
        PROVE  FALSE
    BY <1>1, <1>a DEF Throw, HandlerThrows, Catch, GoTo, poolVars, workerVars
  <1>2. ASSUME NEW v \in Workers, Return(v)
        PROVE  v = w
    BY <1>2, <1>a DEF Return, HandlerReturns, GoTo
  <1>3. ASSUME NEW v \in Workers, FindMessage(v)
        PROVE  Goal
    BY <1>3, <1>1, <1>2, <1>a, <1>b DEF FindMessage, Continue
  <1>4. ASSUME NEW v \in Workers, Resolve(v)
        PROVE  Goal
    BY <1>4, <1>1, <1>2 DEF Resolve, Continue
  <1>5. ASSUME NEW v \in Workers, Record(v)
        PROVE  Goal
    BY <1>5, <1>1, <1>2, <1>b DEF Record
  <1>6. ASSUME NEW v \in Workers,
               \/ Mark(v) \/ SendAccepted(v) \/ Clear(v)
               \/ \E e \in SendErrors : SendAmbiguous(v, e) \/ SendRefused(v, e)
               \/ \E e \in StatementErrors : StoreFails(v, e)
        PROVE  Goal
    BY <1>6, <1>1
    DEF Mark, SendAccepted, Clear, SendAmbiguous, SendRefused, StoreFails, Continue
  <1>7. ASSUME NEW v \in Workers, NEW id \in Ids, StartHandler(v, id)
        PROVE  FALSE
    BY <1>7, <1>a DEF StartHandler, ClaimJob
  <1>8. CASE Outside
    BY <1>8, OutsideKeepsHandlers DEF OutFacts, PoolFacts
  <1>9. CASE CrashOut
    BY <1>9 DEF CrashOut, Crash
  <1>10. CASE \/ \E m \in Messages : ReconcileAccepted(m)
              \/ \E id \in Ids : ConfirmNotAccepted(id)
    BY <1>10 DEF ReconcileAccepted, ConfirmNotAccepted, Requeue, poolVars, workerVars
  <1> HIDE DEF Goal
  <1>11. QED
    BY <1>3, <1>4, <1>5, <1>6, <1>7, <1>8, <1>9, <1>10 DEF OutNext, HandlerStep

LEMMA CompletedInvNext ==
  OutFacts /\ CompletedInv /\ [OutNext]_outVars => CompletedInv'
  <1> SUFFICES ASSUME OutFacts, CompletedInv, [OutNext]_outVars
               PROVE  CompletedInv'
    OBVIOUS
  <1>a. RecordedWasAccepted /\ ReturnedWasDelivered /\ CompletedWasDelivered
    BY DEF CompletedInv
  <1>b. [PoolNext]_poolVars /\ acked \subseteq acked'
    BY OutStepIsPoolStep, HistoriesGrow DEF OutFacts, PoolFacts
  <1>c. \A r \in Requests : Delivered(r.key) => accepted'[r.key] > 0 \/ r.key \in rejected'
    BY DeliveredStays DEF Delivered, Messages
  <1>d. acked \subseteq [id : Ids, request : Requests]
    BY DEF OutFacts, PoolFacts, QueueInv, QueueTypeOK
  <1>1. RecordedWasAccepted'
    BY <1>a, RecordedNext
  <1>2. ASSUME NEW w \in Workers, phase'[w] = "completing"
        PROVE  \E a \in acked' : a.id = running'[w] /\ Delivered(a.request.key)'
    <2>1. running'[w] = running[w] /\ phase[w] \in {"completing", "handling"}
      BY <1>b, <1>2, CompletingComesFromHandler DEF OutFacts, PoolFacts
    <2>2. CASE phase[w] = "completing"
      <3>1. PICK a \in acked : a.id = running[w] /\ Delivered(a.request.key)
        BY <1>a, <2>2 DEF ReturnedWasDelivered
      <3>2. accepted'[a.request.key] > 0 \/ a.request.key \in rejected'
        BY <1>c, <1>d, <3>1
      <3>3. QED
        BY <1>b, <2>1, <3>1, <3>2 DEF Delivered
    <2>3. CASE phase[w] = "handling"
      <3>1. OutNext
        BY <1>2, <2>3 DEF outVars, poolVars, workerVars
      <3>2. step[w] # "idle" /\ (accepted'[message[w]] > 0 \/ message[w] \in rejected')
        BY <1>2, <1>a, <2>3, <3>1, ReturningIsDelivering
      <3>3. PICK a \in acked : a.id = running[w] /\ a.request.key = message[w]
        BY <3>2 DEF OutFacts, HandlerInv
      <3>4. QED
        BY <1>b, <2>1, <3>2, <3>3 DEF Delivered
    <2>4. QED
      BY <2>1, <2>2, <2>3
  <1>3. ASSUME NEW id \in Ids, state'[id] = "completed"
        PROVE  accepted'[request'[id].key] > 0 \/ request'[id].key \in rejected'
    <2>1. /\ request'[id] = request[id]
          /\ \/ state[id] = "completed"
             \/ \E w \in Workers :
                  phase[w] = "completing" /\ running[w] = id /\ Holds(w, id)
      BY <1>b, <1>3, OnlyCompletingCompletes DEF OutFacts, PoolFacts
    <2>2. Delivered(request[id].key) /\ request[id] \in Requests
      <3>1. CASE state[id] = "completed"
        BY <1>a, <3>1
        DEF CompletedWasDelivered, Delivered, OutFacts, PoolFacts, QueueInv, EmptyRows
      <3>2. ASSUME NEW w \in Workers,
                   phase[w] = "completing", running[w] = id, Holds(w, id)
            PROVE  Delivered(request[id].key) /\ request[id] \in Requests
        <4>1. PICK a \in acked : a.id = id /\ Delivered(a.request.key)
          BY <1>a, <3>2 DEF ReturnedWasDelivered
        <4>2. request[id].key = a.request.key
          BY <3>2, <4>1 DEF OutFacts, PoolFacts, AckedIsStored, Visible, Holds
        <4>3. QED
          BY <3>2, <4>1, <4>2 DEF Holds, OutFacts, PoolFacts, QueueInv, EmptyRows
      <3>3. QED
        BY <2>1, <3>1, <3>2
    <2>3. QED
      BY <1>c, <2>1, <2>2
  <1>4. QED
    BY <1>1, <1>2, <1>3 DEF CompletedInv, ReturnedWasDelivered, CompletedWasDelivered

-----------------------------------------------------------------------------
LEMMA OutFactsAlways == OutSpec => []OutFacts
  <1>1. OutInit => PoolInit /\ RaisedIsSendError /\ HandlerInv /\ OutTypeOK
    BY OutboundAssumption DEF OutInit, RaisedIsSendError, HandlerInv, OutTypeOK, Steps
  <1>2. OutSpec => []RaisedIsSendError
    BY <1>1, RaisedNext, PTL DEF OutSpec
  <1>3. OutSpec => []PoolFacts
    BY PoolFactsAlways, OutboundImplementsPool, PTL DEF ImplementsPool
  <1>4. QED
    BY <1>1, <1>2, <1>3, HandlerInvNext, OutTypeNext, PTL DEF OutSpec, OutFacts

\* Every variable of the router and of message_mappings keeps its type.
THEOREM DeliveryType == OutSpec => []OutTypeOK
  <1>1. OutFacts => OutTypeOK
    BY DEF OutFacts
  <1>2. QED
    BY <1>1, OutFactsAlways, PTL

LEMMA MarkerInvAlways == OutSpec => [](OutFacts /\ MarkerInv)
  <1>1. OutInit => MarkerInv
    BY DEF OutInit, MarkerInv, MarkerFollows
  <1>2. QED
    BY <1>1, OutFactsAlways, MarkerInvNext, PTL DEF OutSpec

\* For any number of workers, messages, crashes and failures the provider accepts
\* a message once, unless a worker lost its lease while it handled the message
\* (message-router.ts routeAmoOutbound).
THEOREM MessagesAreSentOnce == OutSpec => []SentOnceUnlessLeaseLost
  <1>1. OutFacts /\ MarkerInv => SentOnceUnlessLeaseLost
    <2> SUFFICES ASSUME OutFacts, MarkerInv, NEW m \in Messages, accepted[m] > 1
                 PROVE  LeaseLostFor(m)
      BY DEF SentOnceUnlessLeaseLost
    <2>1. QED
      BY OutboundAssumption DEF MarkerInv, MarkerFollows, OutFacts, OutTypeOK
  <1>2. QED
    BY <1>1, MarkerInvAlways, PTL

\* A message that the provider may have accepted is not sent again before an operator
\* confirmed that it was not, unless a lease was lost (docs/architecture.md).
THEOREM DoubtIsNotResent == OutSpec => []NoAutomaticResend
  <1>1. OutFacts /\ MarkerInv => NoAutomaticResend
    <2> SUFFICES ASSUME OutFacts, MarkerInv,
                        NEW w \in Workers, step[w] = "send", message[w] \in unsure
                 PROVE  LeaseLostFor(message[w])
      BY DEF NoAutomaticResend
    <2>1. message[w] \in Messages
      BY HandlerMessage DEF OutFacts, PoolFacts
    <2>2. QED
      BY <2>1 DEF MarkerInv, MarkerFollows
  <1>2. QED
    BY <1>1, MarkerInvAlways, PTL

\* What the provider may have accepted, and every job parked as unknown, keeps its
\* row in message_mappings unless a lease was lost (docs/e2e-runbook.md).
THEOREM UnresolvedStaysOnRecord == OutSpec => []UnresolvedIsOnRecord
  <1>1. OutInit => ParkedInv
    BY DEF OutInit, PoolInit, QueueInit, ParkedInv, NothingParked, Dooms
  <1>2. OutSpec => []ParkedInv
    BY <1>1, MarkerInvAlways, ParkedInvNext, PTL DEF OutSpec
  <1>3. OutFacts /\ MarkerInv /\ ParkedInv => UnresolvedIsOnRecord
    BY DEF MarkerInv, MarkerFollows, ParkedInv, NothingParked, UnresolvedIsOnRecord
  <1>4. QED
    BY <1>2, <1>3, MarkerInvAlways, PTL

\* A job is completed only for a message the provider accepted or amoCRM was told
\* cannot be delivered, even when leases are lost (worker.ts with message-router.ts).
THEOREM CompletedJobsAreDelivered == OutSpec => []CompletedWasDelivered
  <1>1. OutInit => CompletedInv
    BY DEF OutInit, PoolInit, QueueInit, CompletedInv, RecordedWasAccepted,
           ReturnedWasDelivered, CompletedWasDelivered
  <1>2. CompletedInv => CompletedWasDelivered
    BY DEF CompletedInv
  <1>3. QED
    BY <1>1, <1>2, OutFactsAlways, CompletedInvNext, PTL DEF OutSpec

LEMMA UnknownStep ==
  ASSUME OutFacts, [OutNext]_outVars, NEW id \in Ids,
         lastError[id] = "unknown", state'[id] = "pending"
  PROVE  mapping[request[id].key] = "unknown" /\ mapping'[request[id].key] = "none"
  <1>a. /\ state[id] = "dead" /\ request[id].key \in Messages
        /\ state \in [Ids -> States] /\ lastError \in [Ids -> Errors]
        /\ mapping \in [Messages -> {"none", "unknown", "recorded"}]
    BY DEF OutFacts, PoolFacts, UnknownIsParked, QueueInv, QueueTypeOK, EmptyRows,
           OutTypeOK, Messages
  <1>1. ASSUME UNCHANGED queueVars
        PROVE  FALSE
    BY <1>1, <1>a DEF queueVars
  <1>2. ASSUME NEW k \in Ids, ConfirmNotAccepted(k)
        PROVE  mapping[request[id].key] = "unknown" /\ mapping'[request[id].key] = "none"
    BY <1>2, <1>a DEF ConfirmNotAccepted, SetMapping, Requeue, RequeueDead
  <1>3. ASSUME NEW w \in Workers, NEW k \in Ids, StartHandler(w, k)
        PROVE  FALSE
    BY <1>3, <1>a DEF StartHandler, ClaimJob, Claim
  <1>4. CASE Outside
    <2>1. ASSUME NEW w \in Workers, Recover(w) \/ RecoverFails(w) \/ ClaimFails(w)
          PROVE  FALSE
      BY <1>1, <1>a, <2>1 DEF Recover, RecoverFails, RecoverStale, Stale, ClaimFails, Claim
    <2>2. ASSUME NEW w \in Workers,
                 \/ CompleteJob(w) \/ SettleJob(w) \/ SettleFails(w)
                 \/ \E e \in StatementErrors : CompleteFails(w, e)
          PROVE  FALSE
      <3>1. ASSUME \/ Complete(w, running[w])
                   \/ Retry(w, running[w], verdict[w])
                   \/ DeadLetter(w, running[w], verdict[w])
            PROVE  FALSE
        BY <1>a, <3>1 DEF Complete, Retry, DeadLetter, Holds
      <3>2. QED
        BY <1>1, <2>2, <3>1 DEF CompleteJob, CompleteFails, SettleJob, SettleFails, Settle
    <2>3. ASSUME NEW w \in Workers, Beat(w) \/ Idle(w)
          PROVE  FALSE
      BY <1>a, <2>3 DEF Beat, Heartbeat, Idle, poolVars, queueVars
    <2>4. ASSUME NEW k \in Ids,
                 \/ AbandonedLapses(k) \/ LapseUnderHandler(k) \/ DelayEnds(k)
                 \/ Requeue(k, FALSE)
          PROVE  FALSE
      BY <1>a, <2>4 DEF AbandonedLapses, LapseUnderHandler, LeaseLapses, DelayEnds,
                        BecomeDue, Requeue, RequeueDead
    <2>5. CASE Retention \/ Restart
      BY <1>1, <1>a, <2>5 DEF Retention, Cleanup, Restart
    <2>6. CASE Clients
      BY <1>a, <2>6 DEF Clients, ClientNext, BeginEnqueue, CommitEnqueue,
                        ConflictEnqueue, AbortEnqueue
    <2>7. QED
      BY <1>4, <2>1, <2>2, <2>3, <2>4, <2>5, <2>6 DEF Outside
  <1>5. ASSUME NEW w \in Workers,
               HandlerStep(w) \/ \E e \in StatementErrors : StoreFails(w, e)
        PROVE  FALSE
    BY <1>1, <1>5
    DEF HandlerStep, FindMessage, Resolve, Mark, SendAccepted, SendAmbiguous,
        SendRefused, Clear, Record, StoreFails, Continue, Return, Throw, HandlerReturns,
        HandlerThrows, poolVars
  <1>6. CASE CrashOut \/ (\E m \in Messages : ReconcileAccepted(m)) \/ UNCHANGED outVars
    BY <1>1, <1>6 DEF CrashOut, Crash, ReconcileAccepted, outVars, poolVars
  <1>7. QED
    BY <1>2, <1>3, <1>4, <1>5, <1>6 DEF OutNext

\* A job parked as unknown becomes runnable only in the transaction in which the
\* operator's confirmation deletes its marker (delivery-reconciliation.ts).
THEOREM ConfirmationIsNeeded == OutSpec => UnknownNeedsConfirmation
  <1>1. OutFacts /\ [OutNext]_outVars =>
          [\A id \in Ids :
             (lastError[id] = "unknown" /\ state'[id] = "pending") =>
               /\ mapping[request[id].key] = "unknown"
               /\ mapping'[request[id].key] = "none"]_outVars
    BY UnknownStep
  <1>2. QED
    BY <1>1, OutFactsAlways, PTL DEF OutSpec, UnknownNeedsConfirmation
-----------------------------------------------------------------------------
(***************************************************************************)
(* What holds of the queue and of the workers holds with the router inside  *)
(* them, and with it the order in which the provider sees a conversation.   *)
(***************************************************************************)
\* Every promise of the job table and of the worker pool is kept while the router
\* runs, with whatever it throws and whatever the operator decides.
THEOREM DeliveryKeepsPoolPromises ==
  OutSpec => [](/\ AttemptBudget /\ PartitionOrder /\ DedupeSound /\ RunnableHasPayload
                /\ LeaseNamesAttempt /\ OneHandlerPerLease /\ UnknownIsParked)
  BY OutboundImplementsPool, PoolKeepsQueuePromises, SettledAttemptIsOwn,
     HandlersAreExclusive, UnknownStaysParked, PTL
  DEF ImplementsPool

LEMMA OnlySendsAreAccepted ==
  ASSUME OutFacts, [OutNext]_outVars,
         NEW m \in Messages, accepted'[m] > accepted[m]
  PROVE  \E w \in Workers : step[w] = "send" /\ message[w] = m
  <1>a. accepted \in [Messages -> 0..MaxSends] /\ MaxSends \in Nat
    BY OutboundAssumption DEF OutFacts, OutTypeOK
  <1>b. accepted' # accepted
    BY <1>a
  <1>1. ASSUME NEW w \in Workers, step[w] = "send", Accept(message[w])
        PROVE  \E v \in Workers : step[v] = "send" /\ message[v] = m
    BY <1>a, <1>1 DEF Accept
  <1>2. ASSUME NEW w \in Workers, HandlerStep(w)
        PROVE  \E v \in Workers : step[v] = "send" /\ message[v] = m
    BY <1>b, <1>1, <1>2
    DEF HandlerStep, FindMessage, Resolve, Mark, SendAccepted, SendAmbiguous,
        SendRefused, Clear, Record
  <1>3. QED
    BY <1>b, <1>2
    DEF OutNext, StartHandler, StoreFails, ReconcileAccepted, ConfirmNotAccepted,
        CrashOut, Outside, outVars

LEMMA SendStep ==
  ASSUME OutFacts, PartitionOrder, [OutNext]_outVars,
         NEW i \in Ids, NEW j \in Ids,
         i < j, state[i] \in Unfinished, Visible(j), SamePartition(i, j),
         accepted'[request[j].key] > accepted[request[j].key]
  PROVE  i \in overtaken \/ LeaseLostFor(request[j].key)
  <1>1. request[j].key \in Messages
    BY DEF OutFacts, PoolFacts, QueueInv, EmptyRows, Visible, Messages
  <1>2. PICK w \in Workers : step[w] = "send" /\ message[w] = request[j].key
    BY <1>1, OnlySendsAreAccepted
  <1>3. CASE ~LeaseLostFor(request[j].key)
    <2>1. Holds(w, j)
      BY <1>2, <1>3, OneRow DEF OutFacts
    <2>2. QED
      BY <2>1 DEF Holds, PartitionOrder
  <1>4. QED
    BY <1>3

\* The provider sees the messages of a conversation in the order of their rows: none
\* is sent past an unsettled earlier one, but for a row that came late or a lease
\* that was lost (postgres-job-queue.ts claim with message-router.ts).
THEOREM ConversationsAreSentInOrder == OutSpec => SendsInOrder
  <1>1. OutFacts /\ PartitionOrder /\ [OutNext]_outVars =>
          [\A i, j \in Ids :
             (/\ i < j
              /\ state[i] \in Unfinished
              /\ Visible(j)
              /\ SamePartition(i, j)
              /\ accepted'[request[j].key] > accepted[request[j].key])
             => i \in overtaken \/ LeaseLostFor(request[j].key)]_outVars
    BY SendStep
  <1>2. QED
    BY <1>1, OutFactsAlways, DeliveryKeepsPoolPromises, PTL DEF OutSpec, SendsInOrder
=============================================================================
