------------------------ MODULE DurableWorkersProofs ------------------------
(***************************************************************************)
(* Proofs about DurableWorkers: the workers implement the queue of          *)
(* JobQueue, and one claim of a job is one run of its handler.              *)
(***************************************************************************)
EXTENDS DurableWorkers, JobQueueProofs

\* What a worker's phase says about its variables.  A retry is never recorded
\* as an unknown delivery because WillRetry excludes that error.
PhaseInv ==
  \A w \in Workers :
    /\ running[w] \in Ids <=> phase[w] \in Busy
    /\ phase[w] = "retrying" => verdict[w] = "failed"
    /\ phase[w] = "burying" => verdict[w] \in {"failed", "unknown"}

WorkerInv == PoolTypeOK /\ PhaseInv

LEMMA WillRetryIsFailed == \A e : WillRetry(e) => SafeError(e) = "failed"
  BY DEF WillRetry, SafeError

LEMMA WorkerInvInit == PoolInit => WorkerInv
  BY PoolAssumption, QueueAssumption
  DEF PoolInit, WorkerInv, PoolTypeOK, PhaseInv, Phases, Busy, Ids

LEMMA WorkerInvNext ==
  QueueInv /\ QueueInv' /\ WorkerInv /\ [PoolNext]_poolVars => WorkerInv'
  <1> SUFFICES ASSUME QueueInv, QueueInv', WorkerInv, [PoolNext]_poolVars
               PROVE  WorkerInv'
    OBVIOUS
  <1>a. /\ attempts \in [Ids -> 0..MaxAttempts]
        /\ attempts' \in [Ids -> 0..MaxAttempts]
        /\ 0 \notin Ids
    BY DEF QueueInv, QueueTypeOK, Ids
  <1> USE PoolAssumption, QueueAssumption, WillRetryIsFailed
      DEF WorkerInv, PoolTypeOK, PhaseInv, Phases, Busy, MishapKinds
  <1>1. ASSUME NEW w \in Workers, Recover(w)
        PROVE  WorkerInv'
    BY <1>1 DEF Recover, GoTo
  <1>2. ASSUME NEW w \in Workers, NEW id \in Ids, ClaimJob(w, id)
        PROVE  WorkerInv'
    BY <1>2, <1>a DEF ClaimJob
  <1>3. ASSUME NEW w \in Workers, HandlerReturns(w)
        PROVE  WorkerInv'
    BY <1>3, <1>a DEF HandlerReturns, GoTo
  <1>4. ASSUME NEW w \in Workers, NEW e \in HandlerErrors, HandlerThrows(w, e)
        PROVE  WorkerInv'
    BY <1>4 DEF HandlerThrows, Catch, GoTo, SafeError
  <1>5. ASSUME NEW w \in Workers, CompleteJob(w)
        PROVE  WorkerInv'
    <2>1. CASE LetGo(w, "polling")
      BY <1>5, <1>a, <2>1 DEF CompleteJob, LetGo
    <2>2. CASE Catch(w, LeaseLost)
      BY <1>5, <2>2 DEF CompleteJob, Catch, GoTo, SafeError
    <2>3. QED
      BY <1>5, <2>1, <2>2 DEF CompleteJob
  <1>6. ASSUME NEW w \in Workers, SettleJob(w)
        PROVE  WorkerInv'
    BY <1>6, <1>a DEF SettleJob, LetGo
  <1>7. ASSUME NEW w \in Workers, Beat(w)
        PROVE  WorkerInv'
    BY <1>7 DEF Beat, workerVars
  <1>8. ASSUME NEW w \in Workers, Idle(w)
        PROVE  WorkerInv'
    BY <1>8 DEF Idle, poolVars, workerVars
  <1>9. ASSUME NEW w \in Workers, ClaimFails(w)
        PROVE  WorkerInv'
    BY <1>9 DEF ClaimFails, Mishap, GoTo
  <1>10. ASSUME NEW w \in Workers, NEW e \in StatementErrors, CompleteFails(w, e)
         PROVE  WorkerInv'
    BY <1>10 DEF CompleteFails, Mishap, Catch, GoTo, SafeError
  <1>11. ASSUME NEW w \in Workers, SettleFails(w)
         PROVE  WorkerInv'
    BY <1>11, <1>a DEF SettleFails, Mishap, LetGo
  <1>12. ASSUME NEW id \in Ids, LapseUnderHandler(id)
         PROVE  WorkerInv'
    BY <1>12 DEF LapseUnderHandler, Mishap, workerVars
  <1>13. CASE Crash
    BY <1>13, <1>a DEF Crash, Mishap
  <1>14. CASE Restart
    BY <1>14 DEF Restart
  <1>15. ASSUME NEW id \in Ids, AbandonedLapses(id) \/ DelayEnds(id)
         PROVE  WorkerInv'
    BY <1>15 DEF AbandonedLapses, DelayEnds, workerVars
  <1>16. ASSUME NEW id \in Ids, NEW allow \in BOOLEAN, Requeue(id, allow)
         PROVE  WorkerInv'
    BY <1>16 DEF Requeue, Mishap, workerVars
  <1>17. CASE Retention \/ Clients
    BY <1>17 DEF Retention, Clients, workerVars
  <1>18. CASE UNCHANGED poolVars
    BY <1>18 DEF poolVars, workerVars
  <1>19. ASSUME NEW w \in Workers, RecoverFails(w)
         PROVE  WorkerInv'
    BY <1>19 DEF RecoverFails, Mishap, workerVars
  <1> HIDE DEF WorkerInv
  <1>20. QED
    BY <1>1, <1>2, <1>3, <1>4, <1>5, <1>6, <1>7, <1>8, <1>9, <1>10, <1>11,
       <1>12, <1>13, <1>14, <1>15, <1>16, <1>17, <1>18, <1>19
    DEF PoolNext, WorkerStep, Faults

-----------------------------------------------------------------------------
\* Every step of the workers is one statement of the queue or leaves it alone.
LEMMA PoolStepIsQueueStep ==
  WorkerInv /\ [PoolNext]_poolVars => [QueueNext]_queueVars
  <1> SUFFICES ASSUME WorkerInv, [PoolNext]_poolVars
               PROVE  [QueueNext]_queueVars
    OBVIOUS
  <1> USE DEF WorkerNext, QueueNext
  <1>1. ASSUME NEW w \in Workers, Recover(w)
        PROVE  QueueNext
    BY <1>1 DEF Recover
  <1>2. ASSUME NEW w \in Workers, NEW id \in Ids, ClaimJob(w, id)
        PROVE  QueueNext
    BY <1>2 DEF ClaimJob
  <1>3. ASSUME NEW w \in Workers,
               \/ HandlerReturns(w)
               \/ \E e \in HandlerErrors : HandlerThrows(w, e)
        PROVE  UNCHANGED queueVars
    BY <1>3 DEF HandlerReturns, HandlerThrows
  <1>4. ASSUME NEW w \in Workers, phase[w] \in Busy
        PROVE  running[w] \in Ids
    BY <1>4 DEF WorkerInv, PhaseInv
  <1>5. ASSUME NEW w \in Workers,
               \/ CompleteJob(w)
               \/ \E e \in StatementErrors : CompleteFails(w, e)
        PROVE  QueueNext \/ UNCHANGED queueVars
    BY <1>4, <1>5 DEF CompleteJob, CompleteFails, Busy
  <1>6. ASSUME NEW w \in Workers, SettleJob(w) \/ SettleFails(w)
        PROVE  QueueNext \/ UNCHANGED queueVars
    BY <1>4, <1>6 DEF SettleJob, SettleFails, Settle, Busy, WorkerInv, PhaseInv
  <1>7. ASSUME NEW w \in Workers, Beat(w)
        PROVE  QueueNext
    BY <1>4, <1>7 DEF Beat
  <1>8. ASSUME NEW w \in Workers, Idle(w)
        PROVE  UNCHANGED queueVars
    BY <1>8 DEF Idle, poolVars
  <1>9. ASSUME NEW w \in Workers, ClaimFails(w)
        PROVE  QueueNext \/ UNCHANGED queueVars
    BY <1>9 DEF ClaimFails
  <1>10. ASSUME NEW id \in Ids,
                LapseUnderHandler(id) \/ AbandonedLapses(id) \/ DelayEnds(id)
         PROVE  QueueNext
    BY <1>10 DEF LapseUnderHandler, AbandonedLapses, DelayEnds, TimeNext
  <1>11. CASE Crash \/ Restart
    BY <1>11 DEF Crash, Restart
  <1>12. ASSUME NEW id \in Ids, NEW allow \in BOOLEAN, Requeue(id, allow)
         PROVE  QueueNext
    BY <1>12 DEF Requeue, OperatorNext
  <1>13. CASE Retention
    BY <1>13 DEF Retention, OperatorNext
  <1>14. CASE Clients
    BY <1>14 DEF Clients
  <1>15. CASE UNCHANGED poolVars
    BY <1>15 DEF poolVars
  <1>16. ASSUME NEW w \in Workers, RecoverFails(w)
         PROVE  QueueNext \/ UNCHANGED queueVars
    BY <1>16 DEF RecoverFails
  <1> HIDE DEF QueueNext
  <1>17. QED
    BY <1>1, <1>2, <1>3, <1>5, <1>6, <1>7, <1>8, <1>9, <1>10, <1>11, <1>12,
       <1>13, <1>14, <1>15, <1>16
    DEF PoolNext, WorkerStep, Faults

LEMMA PoolInvariant == PoolSpec => [](QueueInv /\ WorkerInv)
  <1>1. PoolInit => QueueInv /\ WorkerInv
    BY QueueInvInit, WorkerInvInit DEF PoolInit
  <1>2. QueueInv /\ WorkerInv /\ [PoolNext]_poolVars => QueueInv' /\ WorkerInv'
    BY QueueInvNext, WorkerInvNext, PoolStepIsQueueStep
  <1>3. QED
    BY <1>1, <1>2, PTL DEF PoolSpec

\* The workers, with crashes, lost answers and lapsing leases, implement the
\* queue: what the theorems of JobQueueProofs say of every caller holds here.
THEOREM PoolImplementsQueue == PoolSpec => ImplementsQueue
  <1>1. PoolInit => QueueInit
    BY DEF PoolInit
  <1>2. QED
    BY <1>1, PoolInvariant, PoolStepIsQueueStep, PTL
    DEF PoolSpec, QueueSpec, ImplementsQueue

\* What the queue promises its callers therefore holds of the running bridge:
\* order within a conversation, one row per event, no attempt beyond the limit,
\* and a payload for every row that may still run.
THEOREM PoolKeepsQueuePromises ==
  PoolSpec => [](AttemptBudget /\ PartitionOrder /\ DedupeSound /\ RunnableHasPayload)
  <1>1. QueueInv => AttemptBudget
    BY DEF QueueInv
  <1>2. QED
    BY <1>1, PoolInvariant, PoolImplementsQueue, PartitionOrderHolds, DedupeHolds,
       PayloadHolds, PTL
    DEF ImplementsQueue

-----------------------------------------------------------------------------
(***************************************************************************)
(* One claim, one handler.  A worker keeps its row until the lease runs out *)
(* under it (then the id is in lapsed) or it settled the row itself without *)
(* hearing of it (then the row is completed, or deleted since, and its id   *)
(* is not handed out again).                                                *)
(***************************************************************************)
LapseIsKnown ==
  \A w \in Workers, id \in Ids :
    /\ (Runs(w, id) /\ ~leaseLive[id]) => id \in lapsed
    /\ running[w] = id => id <= sequence
    /\ (running[w] = id /\ ~Holds(w, id)) =>
         id \in lapsed \/ state[id] \in {"completed", "absent"}

LeaseInv == LeaseNamesAttempt /\ OneHandlerPerLease /\ LapseIsKnown

LEMMA LeaseInvNext ==
  QueueInv /\ WorkerInv /\ LeaseInv /\ [PoolNext]_poolVars => LeaseInv'
  <1> SUFFICES ASSUME QueueInv, WorkerInv, LeaseInv, [PoolNext]_poolVars
               PROVE  LeaseInv'
    OBVIOUS
  <1> USE QueueAssumption, PoolAssumption
      DEF QueueInv, QueueTypeOK, WorkerInv, PoolTypeOK, PhaseInv, LeaseInv,
          LeaseNamesAttempt, OneHandlerPerLease, LapseIsKnown, Runs, Holds, Busy, Ids
  <1>1. ASSUME NEW w \in Workers, Recover(w)
        PROVE  LeaseInv'
    BY <1>1 DEF Recover, RecoverStale, Stale, AfterAttempt, GoTo
  <1>2. ASSUME NEW w \in Workers, NEW id \in Ids, ClaimJob(w, id)
        PROVE  LeaseInv'
    <2> USE <1>2 DEF ClaimJob, Claim, Claimable
    <2>1. /\ running' = [running EXCEPT ![w] = id]
          /\ attempts[id] + 1 \in Nat /\ attempts'[id] = attempts[id] + 1
          /\ held'[w] = attempts'[id]
      OBVIOUS
    <2>2. \A v \in Workers : running[v] = id => id \in lapsed
      OBVIOUS
    <2>3. state[id] # "absent" /\ id <= sequence
      BY DEF FreshIds
    <2>4. LeaseNamesAttempt'
      BY <2>1
    <2>5. OneHandlerPerLease'
      BY <2>1, <2>2
    <2>6. LapseIsKnown'
      BY <2>1, <2>3
    <2>7. QED
      BY <2>4, <2>5, <2>6
  <1>3. ASSUME NEW w \in Workers, HandlerReturns(w)
        PROVE  LeaseInv'
    BY <1>3 DEF HandlerReturns, GoTo, queueVars
  <1>4. ASSUME NEW w \in Workers, NEW e, HandlerThrows(w, e)
        PROVE  LeaseInv'
    BY <1>4 DEF HandlerThrows, Catch, GoTo, queueVars
  <1>5. ASSUME NEW w \in Workers, CompleteJob(w)
        PROVE  LeaseInv'
    <2>1. CASE Complete(w, running[w]) /\ LetGo(w, "polling")
      BY <1>5, <2>1 DEF CompleteJob, Complete, Unlock, LetGo
    <2>2. CASE Catch(w, LeaseLost) /\ UNCHANGED queueVars
      BY <1>5, <2>2 DEF CompleteJob, Catch, GoTo, queueVars
    <2>3. QED
      BY <1>5, <2>1, <2>2 DEF CompleteJob
  <1>6. ASSUME NEW w \in Workers, SettleJob(w) \/ SettleFails(w)
        PROVE  LeaseInv'
    <2>1. ASSUME NEW p \in {"polling", "recovering"}, LetGo(w, p),
                 UNCHANGED queueVars, UNCHANGED <<lapsed, handled>>
          PROVE  LeaseInv'
      BY <2>1 DEF LetGo, queueVars
    <2>2. ASSUME NEW p \in {"polling", "recovering"}, LetGo(w, p),
                 Retry(w, running[w], verdict[w]), UNCHANGED <<lapsed, handled>>
          PROVE  LeaseInv'
      BY <2>2 DEF LetGo, Retry, Unlock, AfterAttempt
    <2>3. ASSUME NEW p \in {"polling", "recovering"}, LetGo(w, p),
                 DeadLetter(w, running[w], verdict[w]), UNCHANGED <<lapsed, handled>>
          PROVE  LeaseInv'
      BY <2>3 DEF LetGo, DeadLetter, Unlock
    <2>4. QED
      BY <1>6, <2>1, <2>2, <2>3 DEF SettleJob, SettleFails, Settle
  <1>7. ASSUME NEW w \in Workers, Beat(w)
        PROVE  LeaseInv'
    BY <1>7 DEF Beat, Heartbeat, workerVars
  <1>8. ASSUME NEW w \in Workers, Idle(w)
        PROVE  LeaseInv'
    BY <1>8 DEF Idle, poolVars, queueVars, workerVars
  <1>9. ASSUME NEW w \in Workers, ClaimFails(w)
        PROVE  LeaseInv'
    <2>1. CASE UNCHANGED queueVars
      BY <1>9, <2>1 DEF ClaimFails, GoTo, queueVars
    <2>2. ASSUME NEW id \in Ids, Claim(w, id)
          PROVE  LeaseInv'
      BY <1>9, <2>2 DEF ClaimFails, GoTo, Claim, Claimable
    <2>3. QED
      BY <1>9, <2>1, <2>2 DEF ClaimFails
  <1>10. ASSUME NEW w \in Workers, NEW e, CompleteFails(w, e)
         PROVE  LeaseInv'
    <2>1. CASE UNCHANGED queueVars
      BY <1>10, <2>1 DEF CompleteFails, Catch, GoTo, queueVars
    <2>2. CASE Complete(w, running[w])
      BY <1>10, <2>2 DEF CompleteFails, Catch, GoTo, Complete, Unlock
    <2>3. QED
      BY <1>10, <2>1, <2>2 DEF CompleteFails
  <1>11. ASSUME NEW id \in Ids, LapseUnderHandler(id)
         PROVE  LeaseInv'
    BY <1>11 DEF LapseUnderHandler, LeaseLapses, workerVars
  <1>12. ASSUME NEW id \in Ids, AbandonedLapses(id)
         PROVE  LeaseInv'
    BY <1>12 DEF AbandonedLapses, Abandoned, LeaseLapses, workerVars
  <1>13. CASE Crash
    BY <1>13 DEF Crash, queueVars
  <1>14. CASE Restart
    BY <1>14 DEF Restart, queueVars
  <1>15. ASSUME NEW id \in Ids, DelayEnds(id)
         PROVE  LeaseInv'
    BY <1>15 DEF DelayEnds, BecomeDue, workerVars
  <1>16. ASSUME NEW id \in Ids, NEW allow \in BOOLEAN, Requeue(id, allow)
         PROVE  LeaseInv'
    BY <1>16 DEF Requeue, RequeueDead, workerVars
  <1>17. CASE Retention
    BY <1>17 DEF Retention, Cleanup, SettledIds, Settled, workerVars
  <1>18. CASE Clients
    <2>1. ASSUME NEW r \in Requests, BeginEnqueue(r)
          PROVE  LeaseInv'
      BY <1>18, <2>1 DEF Clients, BeginEnqueue, FreshIds, workerVars
    <2>2. ASSUME NEW id \in Ids, CommitEnqueue(id)
          PROVE  LeaseInv'
      BY <1>18, <2>2 DEF Clients, CommitEnqueue, workerVars
    <2>3. ASSUME NEW id \in Ids, ConflictEnqueue(id) \/ AbortEnqueue(id)
          PROVE  LeaseInv'
      BY <1>18, <2>3 DEF Clients, ConflictEnqueue, AbortEnqueue, workerVars
    <2>4. QED
      BY <1>18, <2>1, <2>2, <2>3 DEF Clients, ClientNext
  <1>19. CASE UNCHANGED poolVars
    BY <1>19 DEF poolVars, queueVars, workerVars
  <1>20. ASSUME NEW w \in Workers, RecoverFails(w)
         PROVE  LeaseInv'
    <2>1. CASE UNCHANGED queueVars
      BY <1>20, <2>1 DEF RecoverFails, queueVars, workerVars
    <2>2. CASE RecoverStale
      BY <1>20, <2>2 DEF RecoverFails, RecoverStale, Stale, AfterAttempt, workerVars
    <2>3. QED
      BY <1>20, <2>1, <2>2 DEF RecoverFails
  <1> HIDE DEF LeaseInv, Ids
  <1>21. QED
    BY <1>1, <1>2, <1>3, <1>4, <1>5, <1>6, <1>7, <1>8, <1>9, <1>10, <1>11,
       <1>12, <1>13, <1>14, <1>15, <1>16, <1>17, <1>18, <1>19, <1>20
    DEF PoolNext, WorkerStep, Faults

LEMMA LeaseInvAlways == PoolSpec => []LeaseInv
  <1>1. PoolInit => LeaseInv
    BY DEF PoolInit, LeaseInv, LeaseNamesAttempt, OneHandlerPerLease, LapseIsKnown,
           Runs, Holds, Ids, QueueInit
  <1>2. QED
    BY <1>1, PoolInvariant, LeaseInvNext, PTL DEF PoolSpec

\* The row a worker settles is the attempt it was given: whoever still holds the
\* lease is on the attempt that the row counts (worker.ts, postgres-job-queue.ts).
THEOREM SettledAttemptIsOwn == PoolSpec => []LeaseNamesAttempt
  <1>1. LeaseInv => LeaseNamesAttempt
    BY DEF LeaseInv
  <1>2. QED
    BY <1>1, LeaseInvAlways, PTL

\* For any number of workers a second handler of a job starts only after the lease
\* ran out under the first (worker.ts, postgres-job-queue.ts claim).
THEOREM HandlersAreExclusive == PoolSpec => []OneHandlerPerLease
  <1>1. LeaseInv => OneHandlerPerLease
    BY DEF LeaseInv
  <1>2. QED
    BY <1>1, LeaseInvAlways, PTL

LEMMA LapsedGrows == [PoolNext]_poolVars => lapsed \subseteq lapsed'
  BY DEF PoolNext, WorkerStep, Faults, Recover, ClaimJob, HandlerReturns, HandlerThrows,
         CompleteJob, SettleJob, Beat, Idle, RecoverFails, ClaimFails, CompleteFails,
         SettleFails, LapseUnderHandler, Crash, Restart, AbandonedLapses, DelayEnds,
         Requeue, Retention, Clients, poolVars

\* While its handler runs a worker holds its row, unless the lease ran out under it.
HandlingHolds ==
  \A w \in Workers :
    phase[w] = "handling" => Holds(w, running[w]) \/ running[w] \in lapsed

LEMMA HandlingHoldsNext ==
  QueueInv /\ WorkerInv /\ LeaseInv /\ HandlingHolds /\ [PoolNext]_poolVars
    => HandlingHolds'
  <1> SUFFICES ASSUME QueueInv, WorkerInv, LeaseInv, HandlingHolds, [PoolNext]_poolVars
               PROVE  HandlingHolds'
    OBVIOUS
  <1> USE DEF QueueInv, QueueTypeOK, WorkerInv, PoolTypeOK, PhaseInv, HandlingHolds,
              Holds, Busy
  <1>1. ASSUME NEW w \in Workers, NEW id \in Ids, ClaimJob(w, id)
        PROVE  HandlingHolds'
    BY <1>1 DEF ClaimJob, Claim, Claimable
  <1>2. ASSUME NEW w \in Workers, NEW e, HandlerReturns(w) \/ HandlerThrows(w, e)
        PROVE  HandlingHolds'
    BY <1>2 DEF HandlerReturns, HandlerThrows, Catch, GoTo, queueVars
  <1>3. ASSUME NEW w \in Workers, Recover(w) \/ RecoverFails(w)
        PROVE  HandlingHolds'
    <2>1. CASE RecoverStale
      <3>1. /\ lapsed' = lapsed /\ running' = running
            /\ \A v \in Workers : phase'[v] = "handling" => phase[v] = "handling"
        BY <1>3 DEF Recover, RecoverFails, GoTo, workerVars
      <3>2. \A v \in Workers, id \in Ids : Runs(v, id) /\ Stale(id) => id \in lapsed
        BY DEF LeaseInv, LapseIsKnown, Stale
      <3>3. QED
        BY <2>1, <3>1, <3>2 DEF RecoverStale, Runs
    <2>2. CASE UNCHANGED queueVars
      BY <1>3, <2>2 DEF Recover, RecoverFails, RecoverStale, GoTo, queueVars, workerVars
    <2>3. QED
      BY <1>3, <2>1, <2>2 DEF Recover, RecoverFails
  <1>4. ASSUME NEW w \in Workers, NEW e, CompleteJob(w) \/ CompleteFails(w, e)
        PROVE  HandlingHolds'
    <2>1. CASE Complete(w, running[w])
      BY <1>4, <2>1 DEF CompleteJob, CompleteFails, Complete, Unlock, LetGo, Catch, GoTo
    <2>2. CASE UNCHANGED queueVars
      BY <1>4, <2>2 DEF CompleteJob, CompleteFails, Complete, LetGo, Catch, GoTo, queueVars
    <2>3. QED
      BY <1>4, <2>1, <2>2 DEF CompleteJob, CompleteFails
  <1>5. ASSUME NEW w \in Workers, SettleJob(w) \/ SettleFails(w)
        PROVE  HandlingHolds'
    <2>1. CASE UNCHANGED queueVars
      BY <1>5, <2>1 DEF SettleJob, SettleFails, LetGo, queueVars
    <2>2. CASE Retry(w, running[w], verdict[w]) \/ DeadLetter(w, running[w], verdict[w])
      BY <1>5, <2>2 DEF SettleJob, SettleFails, LetGo, Retry, DeadLetter, Unlock
    <2>3. QED
      BY <1>5, <2>1, <2>2 DEF SettleJob, SettleFails, Settle
  <1>6. ASSUME NEW w \in Workers, Beat(w) \/ Idle(w)
        PROVE  HandlingHolds'
    BY <1>6 DEF Beat, Heartbeat, Idle, poolVars, queueVars, workerVars
  <1>7. ASSUME NEW w \in Workers, ClaimFails(w)
        PROVE  HandlingHolds'
    BY <1>7 DEF ClaimFails, Claim, Claimable, GoTo, queueVars
  <1>8. CASE Crash \/ Restart
    BY <1>8 DEF Crash, Restart, queueVars
  <1>9. ASSUME NEW id \in Ids,
               \/ LapseUnderHandler(id) \/ AbandonedLapses(id) \/ DelayEnds(id)
               \/ \E allow \in BOOLEAN : Requeue(id, allow)
        PROVE  HandlingHolds'
    BY <1>9 DEF LapseUnderHandler, AbandonedLapses, LeaseLapses, DelayEnds, BecomeDue,
                Requeue, RequeueDead, workerVars
  <1>10. CASE Retention
    BY <1>10 DEF Retention, Cleanup, SettledIds, Settled, workerVars
  <1>11. CASE Clients
    <2>1. ASSUME NEW r \in Requests, BeginEnqueue(r)
          PROVE  HandlingHolds'
      BY <1>11, <2>1, QueueAssumption DEF Clients, BeginEnqueue, FreshIds, workerVars, Ids
    <2>2. ASSUME NEW id \in Ids,
                 CommitEnqueue(id) \/ ConflictEnqueue(id) \/ AbortEnqueue(id)
          PROVE  HandlingHolds'
      BY <1>11, <2>2
      DEF Clients, CommitEnqueue, ConflictEnqueue, AbortEnqueue, workerVars
    <2>3. QED
      BY <1>11, <2>1, <2>2 DEF Clients, ClientNext
  <1>12. CASE UNCHANGED poolVars
    BY <1>12 DEF poolVars, queueVars, workerVars
  <1> HIDE DEF HandlingHolds, QueueInv, WorkerInv
  <1>13. QED
    BY <1>1, <1>2, <1>3, <1>4, <1>5, <1>6, <1>7, <1>8, <1>9, <1>10, <1>11, <1>12
    DEF PoolNext, WorkerStep, Faults

-----------------------------------------------------------------------------
LEMMA UnknownIsParkedNext ==
  QueueInv /\ UnknownIsParked /\ [QueueNext]_queueVars => UnknownIsParked'
  <1> SUFFICES ASSUME QueueInv, UnknownIsParked, [QueueNext]_queueVars
               PROVE  UnknownIsParked'
    OBVIOUS
  <1> USE QueueAssumption
      DEF QueueInv, QueueTypeOK, EmptyRows, FreshIds, UnknownIsParked, Ids
  <1>1. CASE ClientNext
    BY <1>1 DEF ClientNext, BeginEnqueue, CommitEnqueue, ConflictEnqueue, AbortEnqueue
  <1>2. CASE RecoverStale
    BY <1>2 DEF RecoverStale, Stale
  <1>3. ASSUME NEW w \in Workers, NEW id \in Ids,
               \/ Claim(w, id) \/ Heartbeat(w, id) \/ Complete(w, id)
               \/ Retry(w, id, "failed")
               \/ \E err \in {"failed", "unknown"} : DeadLetter(w, id, err)
        PROVE  UnknownIsParked'
    BY <1>3 DEF Claim, Claimable, Heartbeat, Complete, Retry, DeadLetter, Holds
  <1>4. CASE OperatorNext
    <2>1. ASSUME NEW id \in Ids, NEW allow \in BOOLEAN, RequeueDead(id, allow)
          PROVE  UnknownIsParked'
      BY <2>1 DEF RequeueDead
    <2>2. ASSUME NEW old \in SUBSET Ids, NEW expired \in SUBSET Ids,
                 Cleanup(old, expired)
          PROVE  UnknownIsParked'
      BY <2>2 DEF Cleanup
    <2>3. QED
      BY <1>4, <2>1, <2>2 DEF OperatorNext
  <1>5. CASE TimeNext
    BY <1>5 DEF TimeNext, BecomeDue, LeaseLapses
  <1>6. CASE UNCHANGED queueVars
    BY <1>6 DEF queueVars
  <1>7. QED
    BY <1>1, <1>2, <1>3, <1>4, <1>5, <1>6 DEF QueueNext, WorkerNext

\* A job that ended in DeliveryUnknownError stays dead: whatever the workers do,
\* only an operator's requeue clears that verdict (worker.ts, requeueDead).
THEOREM UnknownStaysParked == PoolSpec => []UnknownIsParked
  <1>1. PoolInit => UnknownIsParked
    BY DEF PoolInit, QueueInit, UnknownIsParked
  <1>2. QED
    BY <1>1, PoolInvariant, PoolStepIsQueueStep, UnknownIsParkedNext, PTL DEF PoolSpec

\* Before complete() is called the handler has returned.
CompletingWasHandled ==
  \A w \in Workers : phase[w] = "completing" => running[w] \in handled

LEMMA CompletedWasHandledNext ==
  /\ QueueInv /\ WorkerInv /\ CompletingWasHandled /\ CompletedWasHandled
  /\ [PoolNext]_poolVars
  => CompletingWasHandled' /\ CompletedWasHandled'
  <1> SUFFICES ASSUME QueueInv, WorkerInv, CompletingWasHandled,
                      CompletedWasHandled, [PoolNext]_poolVars
               PROVE  CompletingWasHandled' /\ CompletedWasHandled'
    OBVIOUS
  <1> DEFINE Goal == CompletingWasHandled' /\ CompletedWasHandled'
  <1> USE QueueAssumption
      DEF QueueInv, QueueTypeOK, WorkerInv, PoolTypeOK, PhaseInv, Busy, Ids,
          CompletingWasHandled, CompletedWasHandled
  <1>1. ASSUME NEW w \in Workers, Recover(w) \/ RecoverFails(w)
        PROVE  Goal
    BY <1>1 DEF Recover, RecoverFails, RecoverStale, Stale, AfterAttempt, GoTo,
                queueVars, workerVars
  <1>2. ASSUME NEW w \in Workers, NEW id \in Ids, ClaimJob(w, id)
        PROVE  Goal
    BY <1>2 DEF ClaimJob, Claim
  <1>3. ASSUME NEW w \in Workers, HandlerReturns(w)
        PROVE  Goal
    BY <1>3 DEF HandlerReturns, GoTo, queueVars
  <1>4. ASSUME NEW w \in Workers, NEW e, HandlerThrows(w, e)
        PROVE  Goal
    BY <1>4 DEF HandlerThrows, Catch, GoTo, queueVars
  <1>5. ASSUME NEW w \in Workers, CompleteJob(w)
        PROVE  Goal
    <2>1. CASE Complete(w, running[w]) /\ LetGo(w, "polling")
      BY <1>5, <2>1 DEF CompleteJob, Complete, LetGo
    <2>2. CASE Catch(w, LeaseLost) /\ UNCHANGED queueVars
      BY <1>5, <2>2 DEF CompleteJob, Catch, GoTo, queueVars
    <2>3. QED
      BY <1>5, <2>1, <2>2 DEF CompleteJob
  <1>6. ASSUME NEW w \in Workers, NEW e, CompleteFails(w, e)
        PROVE  Goal
    <2>1. CASE UNCHANGED queueVars
      BY <1>6, <2>1 DEF CompleteFails, Catch, GoTo, queueVars
    <2>2. CASE Complete(w, running[w])
      BY <1>6, <2>2 DEF CompleteFails, Catch, GoTo, Complete
    <2>3. QED
      BY <1>6, <2>1, <2>2 DEF CompleteFails
  <1>7. ASSUME NEW w \in Workers, SettleJob(w) \/ SettleFails(w)
        PROVE  Goal
    BY <1>7 DEF SettleJob, SettleFails, Settle, LetGo, Retry, AfterAttempt,
                DeadLetter, queueVars
  <1>8. ASSUME NEW w \in Workers, Beat(w) \/ Idle(w)
        PROVE  Goal
    BY <1>8 DEF Beat, Heartbeat, Idle, poolVars, queueVars, workerVars
  <1>9. ASSUME NEW w \in Workers, ClaimFails(w)
        PROVE  Goal
    BY <1>9 DEF ClaimFails, GoTo, Claim, queueVars
  <1>10. ASSUME NEW id \in Ids,
                \/ LapseUnderHandler(id) \/ AbandonedLapses(id) \/ DelayEnds(id)
                \/ \E allow \in BOOLEAN : Requeue(id, allow)
         PROVE  Goal
    BY <1>10 DEF LapseUnderHandler, AbandonedLapses, LeaseLapses, DelayEnds,
                 BecomeDue, Requeue, RequeueDead, workerVars
  <1>11. CASE Crash \/ Restart
    BY <1>11 DEF Crash, Restart, queueVars
  <1>12. CASE Retention
    BY <1>12 DEF Retention, Cleanup, workerVars
  <1>13. CASE Clients
    BY <1>13 DEF Clients, ClientNext, BeginEnqueue, CommitEnqueue, ConflictEnqueue,
                 AbortEnqueue, workerVars
  <1>14. CASE UNCHANGED poolVars
    BY <1>14 DEF poolVars, queueVars, workerVars
  <1> HIDE DEF CompletingWasHandled, CompletedWasHandled, Ids
  <1>15. QED
    BY <1>1, <1>2, <1>3, <1>4, <1>5, <1>6, <1>7, <1>8, <1>9, <1>10, <1>11,
       <1>12, <1>13, <1>14
    DEF PoolNext, WorkerStep, Faults

\* No job is recorded as completed whose handler has not returned, whatever
\* crashes, lost answers and lapsed leases came between (worker.ts:33).
THEOREM CompletedOnlyHandled == PoolSpec => []CompletedWasHandled
  <1>1. PoolInit => CompletingWasHandled /\ CompletedWasHandled
    BY DEF PoolInit, QueueInit, CompletingWasHandled, CompletedWasHandled
  <1>2. QED
    BY <1>1, PoolInvariant, CompletedWasHandledNext, PTL DEF PoolSpec

\* A row becomes completed only by complete() of the worker that holds it, and a
\* worker comes to complete() only from the handler of the same job.
LEMMA OnlyCompletingCompletes ==
  ASSUME QueueInv, WorkerInv, [PoolNext]_poolVars, NEW id \in Ids, state'[id] = "completed"
  PROVE  /\ request'[id] = request[id]
         /\ \/ state[id] = "completed"
            \/ \E w \in Workers :
                 phase[w] = "completing" /\ running[w] = id /\ Holds(w, id)
  <1> DEFINE Goal == /\ request'[id] = request[id]
                     /\ \/ state[id] = "completed"
                        \/ \E w \in Workers :
                             phase[w] = "completing" /\ running[w] = id /\ Holds(w, id)
  <1> SUFFICES Goal
    OBVIOUS
  <1>a. state \in [Ids -> States] /\ request \in [Ids -> Requests \cup {NoRequest}]
    BY DEF QueueInv, QueueTypeOK
  <1>1. ASSUME UNCHANGED queueVars
        PROVE  Goal
    BY <1>1 DEF queueVars
  <1>2. ASSUME NEW w \in Workers, CompleteJob(w) \/ \E e \in StatementErrors : CompleteFails(w, e)
        PROVE  Goal
    <2>1. CASE Complete(w, running[w]) /\ phase[w] = "completing"
      BY <1>a, <2>1 DEF Complete
    <2>2. QED
      BY <1>1, <1>2, <2>1 DEF CompleteJob, CompleteFails
  <1>3. ASSUME NEW w \in Workers, Recover(w) \/ RecoverFails(w)
        PROVE  Goal
    BY <1>1, <1>3, <1>a DEF Recover, RecoverFails, RecoverStale, Stale, AfterAttempt
  <1>4. ASSUME NEW w \in Workers, ClaimFails(w) \/ \E k \in Ids : ClaimJob(w, k)
        PROVE  Goal
    BY <1>1, <1>4, <1>a DEF ClaimFails, ClaimJob, Claim
  <1>5. ASSUME NEW w \in Workers, SettleJob(w) \/ SettleFails(w)
        PROVE  Goal
    <2>1. CASE Retry(w, running[w], verdict[w]) \/ DeadLetter(w, running[w], verdict[w])
      BY <1>a, <2>1 DEF Retry, AfterAttempt, DeadLetter
    <2>2. QED
      BY <1>1, <1>5, <2>1 DEF SettleJob, SettleFails, Settle
  <1>6. ASSUME NEW w \in Workers,
               \/ HandlerReturns(w) \/ (\E e \in HandlerErrors : HandlerThrows(w, e))
               \/ Beat(w) \/ Idle(w)
        PROVE  Goal
    BY <1>1, <1>6 DEF HandlerReturns, HandlerThrows, Beat, Heartbeat, Idle, poolVars
  <1>7. ASSUME NEW k \in Ids,
               \/ LapseUnderHandler(k) \/ AbandonedLapses(k) \/ DelayEnds(k)
               \/ \E allow \in BOOLEAN : Requeue(k, allow)
        PROVE  Goal
    BY <1>7, <1>a DEF LapseUnderHandler, AbandonedLapses, LeaseLapses, DelayEnds,
                      BecomeDue, Requeue, RequeueDead
  <1>8. CASE Crash \/ Restart \/ UNCHANGED poolVars
    BY <1>1, <1>8 DEF Crash, Restart, poolVars
  <1>9. CASE Retention
    BY <1>9, <1>a DEF Retention, Cleanup
  <1>10. CASE Clients
    <2>1. ASSUME NEW r \in Requests, BeginEnqueue(r)
          PROVE  Goal
      BY <1>a, <2>1 DEF BeginEnqueue
    <2>2. ASSUME NEW k \in Ids, CommitEnqueue(k) \/ ConflictEnqueue(k) \/ AbortEnqueue(k)
          PROVE  Goal
      BY <1>a, <2>2 DEF CommitEnqueue, ConflictEnqueue, AbortEnqueue
    <2>3. QED
      BY <1>10, <2>1, <2>2 DEF Clients, ClientNext
  <1> HIDE DEF Goal
  <1>11. QED
    BY <1>2, <1>3, <1>4, <1>5, <1>6, <1>7, <1>8, <1>9, <1>10
    DEF PoolNext, WorkerStep, Faults

LEMMA CompletingComesFromHandler ==
  ASSUME WorkerInv, [PoolNext]_poolVars, NEW w \in Workers, phase'[w] = "completing"
  PROVE  running'[w] = running[w] /\ phase[w] \in {"completing", "handling"}
  <1> DEFINE Goal == running'[w] = running[w] /\ phase[w] \in {"completing", "handling"}
  <1> SUFFICES Goal
    OBVIOUS
  <1>a. phase \in [Workers -> Phases] /\ running \in [Workers -> Ids \cup {0}]
    BY DEF WorkerInv, PoolTypeOK
  <1>1. ASSUME UNCHANGED workerVars \/ UNCHANGED poolVars
        PROVE  Goal
    BY <1>1 DEF workerVars, poolVars
  <1>2. ASSUME NEW v \in Workers, NEW p, GoTo(v, p),
               p = "completing" => phase[v] = "handling"
        PROVE  Goal
    BY <1>2, <1>a DEF GoTo
  <1>3. ASSUME NEW v \in Workers, LetGo(v, "polling") \/ LetGo(v, "recovering")
        PROVE  Goal
    BY <1>3, <1>a DEF LetGo
  <1>4. ASSUME NEW v \in Workers,
               \/ Recover(v) \/ ClaimFails(v) \/ HandlerReturns(v)
               \/ (\E e \in HandlerErrors : HandlerThrows(v, e))
               \/ (\E e \in StatementErrors : CompleteFails(v, e))
               \/ CompleteJob(v) \/ SettleJob(v) \/ SettleFails(v)
        PROVE  Goal
    BY <1>2, <1>3, <1>4 DEF Recover, ClaimFails, HandlerReturns, HandlerThrows,
                            CompleteFails, CompleteJob, SettleJob, SettleFails, Catch
  <1>5. ASSUME NEW v \in Workers,
               RecoverFails(v) \/ Beat(v) \/ Idle(v) \/ \E id \in Ids : ClaimJob(v, id)
        PROVE  Goal
    BY <1>1, <1>5, <1>a DEF RecoverFails, Beat, Idle, ClaimJob
  <1>6. CASE Crash \/ Restart
    BY <1>6, <1>a DEF Crash, Restart
  <1>7. CASE \/ \E id \in Ids :
                  \/ LapseUnderHandler(id) \/ AbandonedLapses(id) \/ DelayEnds(id)
                  \/ \E allow \in BOOLEAN : Requeue(id, allow)
             \/ Retention \/ Clients
    BY <1>1, <1>7 DEF LapseUnderHandler, AbandonedLapses, DelayEnds, Requeue, Retention,
                      Clients
  <1> HIDE DEF Goal
  <1>8. QED
    BY <1>1, <1>4, <1>5, <1>6, <1>7 DEF PoolNext, WorkerStep, Faults

\* Everything above that holds in every state, for the modules built on this one.
PoolFacts ==
  /\ QueueInv /\ WorkerInv /\ LeaseInv /\ HandlingHolds /\ UnknownIsParked
  /\ DedupeSound /\ AckedIsStored /\ VisibleIsAcked

LEMMA PoolFactsAlways == PoolSpec => []PoolFacts
  <1>1. PoolInit => LeaseInv /\ HandlingHolds
    BY DEF PoolInit, LeaseInv, LeaseNamesAttempt, OneHandlerPerLease, LapseIsKnown,
           HandlingHolds, Runs, Holds, Ids, QueueInit
  <1>2. PoolSpec => [](LeaseInv /\ HandlingHolds)
    BY <1>1, PoolInvariant, LeaseInvNext, HandlingHoldsNext, PTL DEF PoolSpec
  <1>3. QED
    BY <1>2, PoolInvariant, UnknownStaysParked, PoolImplementsQueue, AckedInvariant, PTL
    DEF ImplementsQueue, PoolFacts
=============================================================================
