-------------------------- MODULE OutboundDelivery --------------------------
(***************************************************************************)
(* routeAmoOutbound of the message router (src/src/router/                  *)
(* message-router.ts) as the handler the workers run, with the              *)
(* message_mappings row of the message (src/src/storage/postgres-store.ts), *)
(* the messenger provider, and the operator's reconciliation                *)
(* (src/src/storage/delivery-reconciliation.ts, src/src/webhooks/server.ts). *)
(*                                                                          *)
(* A message is the dedupe key of its job.  step[w] says which await of the *)
(* handler worker w has reached; between two of them everybody else runs.   *)
(***************************************************************************)
EXTENDS DurableWorkers

CONSTANTS
  ResolveErrors,   \* what the lookups before the send may throw
  SendErrors,      \* what adapter.send may throw
  MaxSends         \* bound: accepted sends counted per message

ASSUME OutboundAssumption ==
  /\ MaxSends \in Nat
  /\ ResolveErrors \cup SendErrors \cup StatementErrors
       \cup {DeliveryUnknown, UniqueViolation} \subseteq HandlerErrors
  \* only the router itself raises DeliveryUnknownError
  /\ \A e \in ResolveErrors \cup StatementErrors : SafeError(e) = "failed"

Messages == {r.key : r \in Requests}

VARIABLES
  step,       \* idle, find, resolve, mark, send, record, clear
  message,    \* the message of the job the worker was given
  raised,     \* the send error that is rethrown once the marker is cleared
  mapping,    \* the message's row: none, unknown (delivery_unknown), recorded
  accepted,   \* how often the provider accepted the message
  unsure,     \* history: messages whose last send may have been accepted
  rejected    \* history: messages reported to amoCRM as undeliverable

handlerVars == <<step, message, raised>>
outVars == <<poolVars, handlerVars, mapping, accepted, unsure, rejected>>

NoError == NamedFailure("none")
Steps == {"idle", "find", "resolve", "mark", "send", "record", "clear"}

OutInit ==
  /\ PoolInit
  /\ step = [w \in Workers |-> "idle"]
  /\ message = [w \in Workers |-> NoRequest]
  /\ raised = [w \in Workers |-> NoError]
  /\ mapping = [m \in Messages |-> "none"]
  /\ accepted = [m \in Messages |-> 0]
  /\ unsure = {}
  /\ rejected = {}

Continue(w, s) ==
  /\ step' = [step EXCEPT ![w] = s]
  /\ UNCHANGED <<poolVars, message, raised>>

EndHandler(w) ==
  /\ step' = [step EXCEPT ![w] = "idle"]
  /\ message' = [message EXCEPT ![w] = NoRequest]
  /\ raised' = [raised EXCEPT ![w] = NoError]

Return(w) == HandlerReturns(w) /\ EndHandler(w)
Throw(w, e) == HandlerThrows(w, e) /\ EndHandler(w)

SetMapping(m, status) == mapping' = [mapping EXCEPT ![m] = status]

\* claim() and the call of the handler
StartHandler(w, id) ==
  /\ ClaimJob(w, id)
  /\ step' = [step EXCEPT ![w] = "find"]
  /\ message' = [message EXCEPT ![w] = request[id].key]
  /\ UNCHANGED <<raised, mapping, accepted, unsure, rejected>>

(***************************************************************************)
(* find_message_by_amo_id: a message with an unreconciled marker throws,    *)
(* one that is recorded is done.                                            *)
(***************************************************************************)
\* Mutants of FindMessage: the marker is ignored, any row means done.
FindMessageUnmarked(w) ==
  /\ step[w] = "find"
  /\ IF mapping[message[w]] = "recorded" THEN Return(w) ELSE Continue(w, "resolve")
  /\ UNCHANGED <<mapping, accepted, unsure, rejected>>
FindMessageAnyRow(w) ==
  /\ step[w] = "find"
  /\ IF mapping[message[w]] # "none" THEN Return(w) ELSE Continue(w, "resolve")
  /\ UNCHANGED <<mapping, accepted, unsure, rejected>>

FindMessage(w) ==
  LET previous == mapping[message[w]] IN
  /\ step[w] = "find"
  /\ \/ previous = "none" /\ Continue(w, "resolve")
     \/ previous = "unknown" /\ Throw(w, DeliveryUnknown)
     \/ previous = "recorded" /\ Return(w)
  /\ UNCHANGED <<mapping, accepted, unsure, rejected>>

(***************************************************************************)
(* Conversation, account, adapter, media and peer lookups.  A recipient     *)
(* that cannot be resolved is reported to amoCRM with status -1 and ends    *)
(* the job.                                                                 *)
(***************************************************************************)
Resolve(w) ==
  /\ step[w] = "resolve"
  /\ \/ Continue(w, "mark") /\ UNCHANGED rejected
     \/ Return(w) /\ rejected' = rejected \cup {message[w]}
     \/ \E e \in ResolveErrors : Throw(w, e) /\ UNCHANGED rejected
  /\ UNCHANGED <<mapping, accepted, unsure>>

\* Mutants of Mark: no marker is saved, it is saved with the status "queued".
MarkNothing(w) ==
  /\ step[w] = "mark"
  /\ Continue(w, "send")
  /\ UNCHANGED <<mapping, accepted, unsure, rejected>>

\* saveMessage of the delivery-unknown marker.  A row of the message that has
\* its provider id already fails the unique index on amo_message_id.
Mark(w) ==
  /\ step[w] = "mark"
  /\ IF mapping[message[w]] = "recorded"
     THEN Throw(w, UniqueViolation) /\ UNCHANGED mapping
     ELSE Continue(w, "send") /\ SetMapping(message[w], "unknown")
  /\ UNCHANGED <<accepted, unsure, rejected>>

(***************************************************************************)
(* adapter.send.  The provider accepts and answers, or something fails: an  *)
(* unambiguous error is the provider's refusal or a connection that was     *)
(* never made, after an ambiguous one it may or may not have accepted.      *)
(***************************************************************************)
Accept(m) ==
  /\ accepted[m] < MaxSends
  /\ accepted' = [accepted EXCEPT ![m] = @ + 1]

SendAccepted(w) ==
  /\ step[w] = "send"
  /\ Accept(message[w])
  /\ Continue(w, "record")
  /\ unsure' = unsure \cup {message[w]}
  /\ UNCHANGED <<mapping, rejected>>

SendAmbiguous(w, e) ==
  /\ step[w] = "send"
  /\ IsAmbiguousSend(e)
  /\ Accept(message[w]) \/ UNCHANGED accepted
  /\ Throw(w, DeliveryUnknown)
  /\ unsure' = unsure \cup {message[w]}
  /\ UNCHANGED <<mapping, rejected>>

SendRefused(w, e) ==
  /\ step[w] = "send"
  /\ ~IsAmbiguousSend(e)
  /\ step' = [step EXCEPT ![w] = "clear"]
  /\ raised' = [raised EXCEPT ![w] = e]
  /\ UNCHANGED <<poolVars, message, mapping, accepted, unsure, rejected>>

\* clearDeliveryUnknown, whose result is ignored, and the rethrow
Clear(w) ==
  LET m == message[w] IN
  /\ step[w] = "clear"
  /\ IF mapping[m] = "unknown" THEN SetMapping(m, "none") ELSE UNCHANGED mapping
  /\ Throw(w, raised[w])
  /\ UNCHANGED <<accepted, unsure, rejected>>

\* reconcileDeliveryUnknown with the provider's message id
Record(w) ==
  LET m == message[w] IN
  /\ step[w] = "record"
  /\ IF mapping[m] = "unknown"
     THEN SetMapping(m, "recorded") /\ Return(w)
     ELSE UNCHANGED mapping /\ Throw(w, DeliveryUnknown)
  /\ UNCHANGED <<accepted, unsure, rejected>>

(***************************************************************************)
(* A failing statement of the store; it may have been applied.  Behind the  *)
(* send the router turns it into DeliveryUnknownError.                      *)
(***************************************************************************)
StoreFails(w, e) ==
  LET m == message[w] IN
  /\ \/ step[w] \in {"find", "mark", "clear", "record"} /\ UNCHANGED mapping
     \/ step[w] = "mark" /\ mapping[m] # "recorded" /\ SetMapping(m, "unknown")
     \/ step[w] = "clear" /\ mapping[m] = "unknown" /\ SetMapping(m, "none")
     \/ step[w] = "record" /\ mapping[m] = "unknown" /\ SetMapping(m, "recorded")
  /\ Throw(w, IF step[w] = "record" THEN DeliveryUnknown ELSE e)
  /\ UNCHANGED <<accepted, unsure, rejected>>

(***************************************************************************)
(* The operator, who has asked the provider: POST .../reconcile records the *)
(* provider's message id, or confirms that nothing was accepted, which      *)
(* deletes the marker and requeues the matching dead job in one transaction. *)
(***************************************************************************)
ReconcileAccepted(m) ==
  /\ accepted[m] > 0
  /\ mapping[m] = "unknown"
  /\ SetMapping(m, "recorded")
  /\ UNCHANGED <<poolVars, handlerVars, accepted, unsure, rejected>>

\* Mutants of ConfirmNotAccepted: the marker is deleted without the requeue, the
\* requeue does not ask for a dead job.
ConfirmWithoutRequeue(id) ==
  LET m == request[id].key IN
  /\ state[id] = "dead"
  /\ accepted[m] = 0
  /\ mapping[m] = "unknown"
  /\ SetMapping(m, "none")
  /\ UNCHANGED <<poolVars, handlerVars, accepted, unsure, rejected>>
ConfirmAnyJob(id) ==
  LET m == request[id].key IN
  /\ state[id] \in {"processing", "dead"}
  /\ accepted[m] = 0
  /\ mapping[m] = "unknown"
  /\ SetMapping(m, "none")
  /\ state' = [state EXCEPT ![id] = "pending"]
  /\ lockedBy' = [lockedBy EXCEPT ![id] = NoWorker]
  /\ UNCHANGED <<sequence, request, attempts, available, leaseLive, lastError,
                 pruned, overtaken, acked, workerVars, mishaps, lapsed, handled,
                 handlerVars, accepted, unsure, rejected>>

ConfirmNotAccepted(id) ==
  LET m == request[id].key IN
  /\ state[id] = "dead"
  /\ lastError[id] = "unknown"
  /\ accepted[m] = 0
  /\ mapping[m] = "unknown"
  /\ SetMapping(m, "none")
  /\ Requeue(id, TRUE)
  /\ unsure' = unsure \ {m}
  /\ UNCHANGED <<handlerVars, accepted, rejected>>

CrashOut ==
  /\ Crash
  /\ step' = [w \in Workers |-> "idle"]
  /\ message' = [w \in Workers |-> NoRequest]
  /\ raised' = [w \in Workers |-> NoError]
  /\ UNCHANGED <<mapping, accepted, unsure, rejected>>

-----------------------------------------------------------------------------
HandlerStep(w) ==
  \/ FindMessage(w)
  \/ Resolve(w)
  \/ Mark(w)
  \/ SendAccepted(w)
  \/ \E e \in SendErrors : SendAmbiguous(w, e) \/ SendRefused(w, e)
  \/ Clear(w)
  \/ Record(w)

\* Steps of the queue and of the workers outside the handler.
Outside ==
  /\ \/ \E w \in Workers :
          \/ Recover(w) \/ Idle(w) \/ Beat(w) \/ CompleteJob(w) \/ SettleJob(w)
          \/ RecoverFails(w) \/ ClaimFails(w) \/ SettleFails(w)
          \/ \E e \in StatementErrors : CompleteFails(w, e)
     \/ Restart
     \/ \E id \in Ids :
          AbandonedLapses(id) \/ LapseUnderHandler(id) \/ DelayEnds(id)
          \/ Requeue(id, FALSE)
     \/ Retention
     \/ Clients
  /\ UNCHANGED <<handlerVars, mapping, accepted, unsure, rejected>>

OutNext ==
  \/ \E w \in Workers :
       \/ \E id \in Ids : StartHandler(w, id)
       \/ HandlerStep(w)
       \/ \E e \in StatementErrors : StoreFails(w, e)
  \/ \E m \in Messages : ReconcileAccepted(m)
  \/ \E id \in Ids : ConfirmNotAccepted(id)
  \/ CrashOut
  \/ Outside

OutSpec == OutInit /\ [][OutNext]_outVars

-----------------------------------------------------------------------------
(***************************************************************************)
(* Properties.                                                              *)
(***************************************************************************)

\* The handler's and the store's variables have their types.
OutTypeOK ==
  /\ step \in [Workers -> Steps]
  /\ message \in [Workers -> Messages \cup {NoRequest}]
  /\ DOMAIN raised = Workers
  /\ mapping \in [Messages -> {"none", "unknown", "recorded"}]
  /\ accepted \in [Messages -> 0..MaxSends]
  /\ unsure \subseteq Messages
  /\ rejected \subseteq Messages

\* A handler that lost its lease has run for the message.
LeaseLostFor(m) == \E a \in acked : a.request.key = m /\ a.id \in lapsed

\* The provider is given a message twice only if a worker lost its lease while
\* it handled that message: crashes, lost answers, redelivered webhooks, retries
\* and every decision of an operator who asked the provider keep it at one.
SentOnceUnlessLeaseLost ==
  \A m \in Messages : accepted[m] > 1 => LeaseLostFor(m)

\* docs/architecture.md: a send that may have been accepted is not repeated
\* automatically, only after an operator confirmed that it was not accepted.
NoAutomaticResend ==
  \A w \in Workers :
    (step[w] = "send" /\ message[w] \in unsure) => LeaseLostFor(message[w])

\* An outbound job is completed only if its message was accepted or amoCRM was
\* told that it cannot be delivered: no message is dropped silently.
CompletedWasDelivered ==
  \A id \in Ids :
    state[id] = "completed" =>
      accepted[request[id].key] > 0 \/ request[id].key \in rejected

\* docs/e2e-runbook.md: a job that is dead with DeliveryUnknownError can be
\* resolved through the reconcile endpoint, which needs the message's row; and what
\* the provider accepted keeps its row, as a marker the operator sees or with its
\* provider id, after any crash.  Only a lost lease breaks this (message-router.ts:93):
\* then one handler may delete the marker that another one has parked the job with.
UnresolvedIsOnRecord ==
  \A m \in Messages :
    \/ accepted[m] > 0
    \/ \E id \in Ids : lastError[id] = "unknown" /\ request[id].key = m
    => mapping[m] # "none" \/ LeaseLostFor(m)

\* Such a job becomes runnable only in the transaction that deletes its marker.
UnknownNeedsConfirmation ==
  [][\A id \in Ids :
       (lastError[id] = "unknown" /\ state'[id] = "pending") =>
         /\ mapping[request[id].key] = "unknown"
         /\ mapping'[request[id].key] = "none"]_outVars

\* docs/architecture.md: the partition key keeps the messages of a conversation in
\* order.  The provider is not given a message while an earlier one of the same
\* conversation is still unsettled, be it running, parked for a retry or abandoned by
\* a crash, unless the earlier row came late (PartitionOrder) or the lease of the
\* later one was lost (postgres-job-queue.ts claim with message-router.ts).
SendsInOrder ==
  [][\A i, j \in Ids :
       (/\ i < j
        /\ state[i] \in Unfinished
        /\ Visible(j)
        /\ SamePartition(i, j)
        /\ accepted'[request[j].key] > accepted[request[j].key])
       => i \in overtaken \/ LeaseLostFor(request[j].key)]_outVars

\* The router runs inside the workers (refinement).
ImplementsPool == PoolSpec
=============================================================================
