--------------------------- MODULE JobQueueProofs ---------------------------
(***************************************************************************)
(* Proofs about JobQueue, for any workers, requests and bounds.             *)
(***************************************************************************)
EXTENDS JobQueue, TLAPS

\* A row that is not in the table has no attempts, one that is (or is being
\* inserted) holds a request; ids not handed out have no row.
EmptyRows ==
  \A id \in Ids :
    /\ ~Visible(id) => attempts[id] = 0
    /\ state[id] # "absent" => request[id] \in Requests
FreshIds == \A id \in Ids : id > sequence => state[id] = "absent"

\* The inductive invariant behind type correctness: the attempts column keeps
\* its type only because no pending row has used up its attempts.
QueueInv == QueueTypeOK /\ AttemptBudget /\ EmptyRows /\ FreshIds

LEMMA QueueInvInit == QueueInit => QueueInv
  BY QueueAssumption
  DEF QueueInit, QueueInv, QueueTypeOK, AttemptBudget, EmptyRows, FreshIds,
      Visible, Ids, States, Errors

LEMMA QueueInvNext == QueueInv /\ [QueueNext]_queueVars => QueueInv'
  <1> SUFFICES ASSUME QueueInv, [QueueNext]_queueVars
               PROVE  QueueInv'
    OBVIOUS
  <1> USE QueueAssumption
      DEF QueueInv, QueueTypeOK, AttemptBudget, EmptyRows, FreshIds, Visible,
          Ids, States, Errors
  <1>1. ASSUME NEW r \in Requests, BeginEnqueue(r)
        PROVE  QueueInv'
    BY <1>1 DEF BeginEnqueue
  <1>2. ASSUME NEW id \in Ids, CommitEnqueue(id)
        PROVE  QueueInv'
    BY <1>2 DEF CommitEnqueue, NoteOvertaking
  <1>3. ASSUME NEW id \in Ids, ConflictEnqueue(id)
        PROVE  QueueInv'
    BY <1>3 DEF ConflictEnqueue
  <1>4. ASSUME NEW id \in Ids, AbortEnqueue(id)
        PROVE  QueueInv'
    BY <1>4 DEF AbortEnqueue
  <1>5. ASSUME NEW w \in Workers, NEW id \in Ids, Claim(w, id)
        PROVE  QueueInv'
    BY <1>5 DEF Claim, Claimable
  <1>6. ASSUME NEW w \in Workers, NEW id \in Ids, Heartbeat(w, id)
        PROVE  QueueInv'
    BY <1>6 DEF Heartbeat
  <1>7. ASSUME NEW w \in Workers, NEW id \in Ids, Complete(w, id)
        PROVE  QueueInv'
    BY <1>7 DEF Complete, Holds, Unlock
  <1>8. ASSUME NEW w \in Workers, NEW id \in Ids, Retry(w, id, "failed")
        PROVE  QueueInv'
    BY <1>8 DEF Retry, Holds, Unlock, AfterAttempt
  <1>9. ASSUME NEW w \in Workers, NEW id \in Ids,
               NEW err \in {"failed", "unknown"}, DeadLetter(w, id, err)
        PROVE  QueueInv'
    BY <1>9 DEF DeadLetter, Holds, Unlock
  <1>10. CASE RecoverStale
    BY <1>10 DEF RecoverStale, Stale, AfterAttempt
  <1>11. ASSUME NEW id \in Ids, NEW allow \in BOOLEAN, RequeueDead(id, allow)
         PROVE  QueueInv'
    BY <1>11 DEF RequeueDead, NoteOvertaking
  <1>12. ASSUME NEW old \in SUBSET Ids, NEW expired \in SUBSET Ids,
                Cleanup(old, expired)
         PROVE  QueueInv'
    <2>1. QueueTypeOK'
      <3>1. /\ state' \in [Ids -> States]
            /\ request' \in [Ids -> Requests \cup {NoRequest}]
        BY <1>12 DEF Cleanup
      <3>2. attempts' \in [Ids -> 0..MaxAttempts]
        BY <1>12 DEF Cleanup
      <3>3. available' \in [Ids -> BOOLEAN]
        BY <1>12 DEF Cleanup
      <3>4. lastError' \in [Ids -> Errors]
        BY <1>12 DEF Cleanup
      <3>5. pruned' \subseteq Ids
        BY <1>12 DEF Cleanup
      <3>6. QED
        BY <1>12, <3>1, <3>2, <3>3, <3>4, <3>5 DEF Cleanup
    <2>2. AttemptBudget'
      BY <1>12 DEF Cleanup, SettledIds, Settled
    <2>3. EmptyRows'
      BY <1>12 DEF Cleanup
    <2>4. FreshIds'
      BY <1>12 DEF Cleanup
    <2>5. QED
      BY <2>1, <2>2, <2>3, <2>4
  <1>13. ASSUME NEW id \in Ids, BecomeDue(id)
         PROVE  QueueInv'
    BY <1>13 DEF BecomeDue
  <1>14. ASSUME NEW id \in Ids, LeaseLapses(id)
         PROVE  QueueInv'
    BY <1>14 DEF LeaseLapses
  <1>15. CASE UNCHANGED queueVars
    BY <1>15 DEF queueVars
  <1> HIDE DEF QueueInv, Visible, Ids, States, Errors
  <1>16. QED
    BY <1>1, <1>2, <1>3, <1>4, <1>5, <1>6, <1>7, <1>8, <1>9, <1>10, <1>11,
       <1>12, <1>13, <1>14, <1>15
    DEF QueueNext, ClientNext, WorkerNext, OperatorNext, TimeNext

\* Every reachable table is well typed and within its attempts, whatever the
\* callers of the statements do (postgres-job-queue.ts).
THEOREM QueueTypeCorrect == QueueSpec => [](QueueTypeOK /\ AttemptBudget)
  <1>1. QueueSpec => []QueueInv
    BY QueueInvInit, QueueInvNext, PTL DEF QueueSpec
  <1>2. QueueInv => QueueTypeOK /\ AttemptBudget
    BY DEF QueueInv
  <1>3. QED
    BY <1>1, <1>2, PTL

-----------------------------------------------------------------------------
(***************************************************************************)
(* Partition order.  It is inductive relative to the types: claim() looks   *)
(* at every earlier row, and a row that becomes pending below a later one   *)
(* is remembered in overtaken.                                              *)
(***************************************************************************)
LEMMA PartitionOrderNext ==
  QueueTypeOK /\ FreshIds /\ PartitionOrder /\ [QueueNext]_queueVars => PartitionOrder'
  <1> SUFFICES ASSUME QueueTypeOK, FreshIds, PartitionOrder, [QueueNext]_queueVars,
                      NEW i \in Ids, NEW j \in Ids,
                      (i < j)', (state[j] = "processing")',
                      (state[i] \in Unfinished)', SamePartition(i, j)'
               PROVE  i \in overtaken'
    BY DEF PartitionOrder
  <1> USE QueueAssumption
      DEF QueueTypeOK, PartitionOrder, SamePartition, Unfinished
  <1>1. ASSUME NEW r \in Requests, BeginEnqueue(r)
        PROVE  i \in overtaken'
    BY <1>1 DEF BeginEnqueue, Ids
  <1>2. ASSUME NEW id \in Ids, CommitEnqueue(id)
        PROVE  i \in overtaken'
    BY <1>2 DEF CommitEnqueue, NoteOvertaking, LaterInPartition, Visible
  <1>3. ASSUME NEW id \in Ids, ConflictEnqueue(id) \/ AbortEnqueue(id)
        PROVE  i \in overtaken'
    BY <1>3 DEF ConflictEnqueue, AbortEnqueue
  <1>4. ASSUME NEW w \in Workers, NEW id \in Ids, Claim(w, id)
        PROVE  i \in overtaken'
    BY <1>4 DEF Claim, Claimable, HeldBack, Ids
  <1>5. ASSUME NEW w \in Workers, NEW id \in Ids,
               \/ Heartbeat(w, id)
               \/ Complete(w, id)
               \/ Retry(w, id, "failed")
               \/ \E err \in {"failed", "unknown"} : DeadLetter(w, id, err)
        PROVE  i \in overtaken'
    BY <1>5 DEF Heartbeat, Complete, Retry, DeadLetter, Holds, Unlock, AfterAttempt
  <1>6. CASE RecoverStale
    BY <1>6 DEF RecoverStale, Stale, AfterAttempt
  <1>7. ASSUME NEW id \in Ids, NEW allow \in BOOLEAN, RequeueDead(id, allow)
        PROVE  i \in overtaken'
    BY <1>7 DEF RequeueDead, NoteOvertaking, LaterInPartition, Visible
  <1>8. ASSUME NEW old \in SUBSET Ids, NEW expired \in SUBSET Ids,
               Cleanup(old, expired)
        PROVE  i \in overtaken'
    BY <1>8 DEF Cleanup
  <1>9. ASSUME NEW id \in Ids, BecomeDue(id) \/ LeaseLapses(id)
        PROVE  i \in overtaken'
    BY <1>9 DEF BecomeDue, LeaseLapses
  <1>10. CASE UNCHANGED queueVars
    BY <1>10 DEF queueVars
  <1>11. QED
    BY <1>1, <1>2, <1>3, <1>4, <1>5, <1>6, <1>7, <1>8, <1>9, <1>10
    DEF QueueNext, ClientNext, WorkerNext, OperatorNext, TimeNext

\* An earlier unfinished job of a conversation never waits while a later one is
\* processed, except a job that entered the table, or was requeued, after it.
THEOREM PartitionOrderHolds == QueueSpec => []PartitionOrder
  <1>1. QueueInit => PartitionOrder
    BY DEF QueueInit, PartitionOrder, Ids
  <1>2. QueueSpec => []QueueInv
    BY QueueInvInit, QueueInvNext, PTL DEF QueueSpec
  <1>3. QueueInv => QueueTypeOK /\ FreshIds
    BY DEF QueueInv
  <1>4. QED
    BY <1>1, <1>2, <1>3, PartitionOrderNext, PTL DEF QueueSpec

-----------------------------------------------------------------------------
(***************************************************************************)
(* Deduplication.  DedupeSound speaks of acknowledgements given at          *)
(* different times; what carries it from one to the next is that the row    *)
(* of an acknowledged id, while it exists, is the acknowledged event, and   *)
(* that an id is never inserted again.                                      *)
(***************************************************************************)
AckedIsStored ==
  \A a \in acked :
    /\ a.id <= sequence
    /\ state[a.id] # "inserting"
    /\ Visible(a.id) => /\ request[a.id].key = a.request.key
                        /\ request[a.id].payload = a.request.payload

DedupeInv == DedupeSound /\ AckedIsStored

LEMMA DedupeInvNext ==
  QueueTypeOK /\ FreshIds /\ DedupeInv /\ [QueueNext]_queueVars => DedupeInv'
  <1> SUFFICES ASSUME QueueTypeOK, FreshIds, DedupeInv, [QueueNext]_queueVars
               PROVE  DedupeInv'
    OBVIOUS
  <1> USE QueueAssumption
      DEF QueueTypeOK, DedupeInv, DedupeSound, AckedIsStored, Visible
  <1>1. ASSUME NEW r \in Requests, BeginEnqueue(r)
        PROVE  DedupeInv'
    BY <1>1 DEF BeginEnqueue, FreshIds, Ids
  <1>2. ASSUME NEW id \in Ids, CommitEnqueue(id)
        PROVE  DedupeInv'
    BY <1>2 DEF CommitEnqueue, Twin, FreshIds, Ids
  <1>3. ASSUME NEW id \in Ids, ConflictEnqueue(id)
        PROVE  DedupeInv'
    BY <1>3 DEF ConflictEnqueue, Twin, FreshIds, Ids
  <1>4. ASSUME NEW id \in Ids, AbortEnqueue(id)
        PROVE  DedupeInv'
    BY <1>4 DEF AbortEnqueue
  <1>5. ASSUME NEW w \in Workers, NEW id \in Ids, Claim(w, id)
        PROVE  DedupeInv'
    BY <1>5 DEF Claim, Claimable
  <1>6. ASSUME NEW w \in Workers, NEW id \in Ids,
               \/ Heartbeat(w, id)
               \/ Complete(w, id)
               \/ Retry(w, id, "failed")
               \/ \E err \in {"failed", "unknown"} : DeadLetter(w, id, err)
        PROVE  DedupeInv'
    BY <1>6 DEF Heartbeat, Complete, Retry, DeadLetter, Holds, Unlock, AfterAttempt
  <1>7. CASE RecoverStale
    BY <1>7 DEF RecoverStale, Stale, AfterAttempt
  <1>8. ASSUME NEW id \in Ids, NEW allow \in BOOLEAN, RequeueDead(id, allow)
        PROVE  DedupeInv'
    BY <1>8 DEF RequeueDead
  <1>9. ASSUME NEW old \in SUBSET Ids, NEW expired \in SUBSET Ids,
               Cleanup(old, expired)
        PROVE  DedupeInv'
    BY <1>9 DEF Cleanup
  <1>10. ASSUME NEW id \in Ids, BecomeDue(id) \/ LeaseLapses(id)
         PROVE  DedupeInv'
    BY <1>10 DEF BecomeDue, LeaseLapses
  <1>11. CASE UNCHANGED queueVars
    BY <1>11 DEF queueVars
  <1> HIDE DEF DedupeInv
  <1>12. QED
    BY <1>1, <1>2, <1>3, <1>4, <1>5, <1>6, <1>7, <1>8, <1>9, <1>10, <1>11
    DEF QueueNext, ClientNext, WorkerNext, OperatorNext, TimeNext

\* Racing redeliveries never give two rows for one event, nor one id to two.
THEOREM DedupeHolds == QueueSpec => []DedupeSound
  <1>1. QueueInit => DedupeInv
    BY DEF QueueInit, DedupeInv, DedupeSound, AckedIsStored, Visible, Ids
  <1>2. QueueSpec => []QueueInv
    BY QueueInvInit, QueueInvNext, PTL DEF QueueSpec
  <1>3. QueueInv => QueueTypeOK /\ FreshIds
    BY DEF QueueInv
  <1>4. DedupeInv => DedupeSound
    BY DEF DedupeInv
  <1>5. QED
    BY <1>1, <1>2, <1>3, <1>4, DedupeInvNext, PTL DEF QueueSpec

\* Acknowledgements are never taken back, and the row of an id is in the table
\* only with the request it was acknowledged for.
VisibleIsAcked ==
  \A id \in Ids : Visible(id) => [id |-> id, request |-> request[id]] \in acked

LEMMA AckedGrows == [QueueNext]_queueVars => acked \subseteq acked'
  BY DEF QueueNext, ClientNext, WorkerNext, OperatorNext, TimeNext, queueVars,
         BeginEnqueue, CommitEnqueue, ConflictEnqueue, AbortEnqueue, Claim,
         Heartbeat, Complete, Retry, DeadLetter, RecoverStale, RequeueDead, Cleanup,
         BecomeDue, LeaseLapses

LEMMA VisibleIsAckedNext ==
  QueueTypeOK /\ VisibleIsAcked /\ [QueueNext]_queueVars => VisibleIsAcked'
  <1> SUFFICES ASSUME QueueTypeOK, VisibleIsAcked, [QueueNext]_queueVars,
                      NEW i \in Ids, Visible(i)'
               PROVE  [id |-> i, request |-> request'[i]] \in acked'
    BY DEF VisibleIsAcked
  <1> DEFINE Goal == [id |-> i, request |-> request'[i]] \in acked'
  <1>a. acked \subseteq acked'
    BY AckedGrows
  <1>1. ASSUME Visible(i), request'[i] = request[i]
        PROVE  Goal
    BY <1>1, <1>a DEF VisibleIsAcked
  <1> USE DEF QueueTypeOK, Visible
  <1>2. ASSUME NEW id \in Ids, CommitEnqueue(id)
        PROVE  Goal
    BY <1>1, <1>2 DEF CommitEnqueue
  <1>3. ASSUME NEW r \in Requests, BeginEnqueue(r)
        PROVE  Goal
    BY <1>1, <1>3 DEF BeginEnqueue
  <1>4. ASSUME NEW id \in Ids, ConflictEnqueue(id) \/ AbortEnqueue(id)
        PROVE  Goal
    BY <1>1, <1>4 DEF ConflictEnqueue, AbortEnqueue
  <1>5. CASE WorkerNext
    BY <1>1, <1>5 DEF WorkerNext, Claim, Claimable, Heartbeat, Complete, Retry,
                      DeadLetter, Holds, RecoverStale, Stale
  <1>6. CASE \E id \in Ids, allow \in BOOLEAN : RequeueDead(id, allow)
    BY <1>1, <1>6 DEF RequeueDead
  <1>7. ASSUME NEW old \in SUBSET Ids, NEW expired \in SUBSET Ids,
               Cleanup(old, expired)
        PROVE  Goal
    BY <1>1, <1>7 DEF Cleanup
  <1>8. CASE TimeNext
    BY <1>1, <1>8 DEF TimeNext, BecomeDue, LeaseLapses
  <1>9. CASE UNCHANGED queueVars
    BY <1>1, <1>9 DEF queueVars
  <1> HIDE DEF QueueTypeOK, Visible
  <1>10. QED
    BY <1>2, <1>3, <1>4, <1>5, <1>6, <1>7, <1>8, <1>9
    DEF QueueNext, ClientNext, OperatorNext

LEMMA AckedInvariant == QueueSpec => [](DedupeSound /\ AckedIsStored /\ VisibleIsAcked)
  <1>1. QueueInit => DedupeInv /\ VisibleIsAcked
    BY DEF QueueInit, DedupeInv, DedupeSound, AckedIsStored, VisibleIsAcked,
           Visible, Ids
  <1>2. QueueSpec => []QueueInv
    BY QueueInvInit, QueueInvNext, PTL DEF QueueSpec
  <1>3. QueueInv => QueueTypeOK /\ FreshIds
    BY DEF QueueInv
  <1>4. DedupeInv => DedupeSound /\ AckedIsStored
    BY DEF DedupeInv
  <1>5. QED
    BY <1>1, <1>2, <1>3, <1>4, DedupeInvNext, VisibleIsAckedNext, PTL DEF QueueSpec

-----------------------------------------------------------------------------
LEMMA PayloadNext ==
  QueueTypeOK /\ FreshIds /\ RunnableHasPayload /\ [QueueNext]_queueVars
    => RunnableHasPayload'
  <1> SUFFICES ASSUME QueueTypeOK, FreshIds, RunnableHasPayload,
                      [QueueNext]_queueVars, NEW p \in pruned'
               PROVE  state'[p] = "completed"
    BY DEF RunnableHasPayload
  <1> USE QueueAssumption DEF QueueTypeOK, RunnableHasPayload
  <1>1. ASSUME NEW r \in Requests, BeginEnqueue(r)
        PROVE  state'[p] = "completed"
    BY <1>1 DEF BeginEnqueue, FreshIds, Ids
  <1>2. ASSUME NEW id \in Ids,
               CommitEnqueue(id) \/ ConflictEnqueue(id) \/ AbortEnqueue(id)
        PROVE  state'[p] = "completed"
    BY <1>2 DEF CommitEnqueue, ConflictEnqueue, AbortEnqueue
  <1>3. ASSUME NEW w \in Workers, NEW id \in Ids,
               \/ Claim(w, id)
               \/ Heartbeat(w, id)
               \/ Complete(w, id)
               \/ Retry(w, id, "failed")
               \/ \E err \in {"failed", "unknown"} : DeadLetter(w, id, err)
        PROVE  state'[p] = "completed"
    BY <1>3 DEF Claim, Claimable, Heartbeat, Complete, Retry, DeadLetter, Holds
  <1>4. CASE RecoverStale
    BY <1>4 DEF RecoverStale, Stale
  <1>5. ASSUME NEW id \in Ids, NEW allow \in BOOLEAN, RequeueDead(id, allow)
        PROVE  state'[p] = "completed"
    BY <1>5 DEF RequeueDead
  <1>6. ASSUME NEW old \in SUBSET Ids, NEW expired \in SUBSET Ids,
               Cleanup(old, expired)
        PROVE  state'[p] = "completed"
    BY <1>6 DEF Cleanup, CompletedIds
  <1>7. ASSUME NEW id \in Ids, BecomeDue(id) \/ LeaseLapses(id)
        PROVE  state'[p] = "completed"
    BY <1>7 DEF BecomeDue, LeaseLapses
  <1>8. CASE UNCHANGED queueVars
    BY <1>8 DEF queueVars
  <1>9. QED
    BY <1>1, <1>2, <1>3, <1>4, <1>5, <1>6, <1>7, <1>8
    DEF QueueNext, ClientNext, WorkerNext, OperatorNext, TimeNext

\* Retention never takes the payload of a row that can still be handled.
THEOREM PayloadHolds == QueueSpec => []RunnableHasPayload
  <1>1. QueueInit => RunnableHasPayload
    BY DEF QueueInit, RunnableHasPayload
  <1>2. QueueSpec => []QueueInv
    BY QueueInvInit, QueueInvNext, PTL DEF QueueSpec
  <1>3. QueueInv => QueueTypeOK /\ FreshIds
    BY DEF QueueInv
  <1>4. QED
    BY <1>1, <1>2, <1>3, PayloadNext, PTL DEF QueueSpec
=============================================================================
