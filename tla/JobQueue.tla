------------------------------ MODULE JobQueue ------------------------------
(***************************************************************************)
(* The PostgreSQL job table and the statements of PostgresJobQueue          *)
(* (src/src/queue/postgres-job-queue.ts), with the columns as variables.    *)
(* The caller is unconstrained here: any worker may issue any statement at  *)
(* any time, so what is shown of this module does not depend on how the     *)
(* workers behave.  DurableWorkers.tla adds the workers.                    *)
(*                                                                          *)
(* Time is abstract.  "available" says that available_at has passed,        *)
(* "leaseLive" that locked_at is within the lease; each has one action that *)
(* lets time pass.                                                          *)
(***************************************************************************)
EXTENDS Naturals, FiniteSets

CONSTANTS
  Workers,      \* the worker ids, `${pid}-${i}`
  NoWorker,     \* locked_by IS NULL
  Requests,     \* the jobs callers enqueue: records with key, part, payload
  NoRequest,    \* the request of an id that has no row
  MaxJobs,      \* bound: ids the bigserial sequence hands out
  MaxAttempts   \* max_attempts, 12 by default

ASSUME QueueAssumption ==
  /\ MaxJobs \in Nat
  /\ MaxAttempts \in Nat \ {0}
  /\ NoWorker \notin Workers
  /\ NoRequest \notin Requests

VARIABLES
  sequence,     \* last id handed out by the sequence
  state,        \* the state column, or absent / inserting (INSERT not committed)
  request,      \* kind+dedupe_key, partition_key and payload of the row
  attempts,
  available,    \* available_at <= now()
  lockedBy,
  leaseLive,    \* locked_at >= now() - lease
  lastError,
  pruned,       \* ids whose payload cleanup() replaced by {}
  overtaken,    \* history: ids that became pending below a later visible id
  acked         \* history: the ids enqueue() returned, with what was asked

queueVars == <<sequence, state, request, attempts, available, lockedBy,
               leaseLive, lastError, pruned, overtaken, acked>>

Ids == 1..MaxJobs
States == {"absent", "inserting", "pending", "processing", "completed", "dead"}
Unfinished == {"pending", "processing"}
Settled == {"completed", "dead"}

\* last_error: NULL, 'worker lease expired', any handler's error, or one that
\* starts with 'DeliveryUnknownError:'.
Errors == {"none", "expired", "failed", "unknown"}

(***************************************************************************)
(* The initial table is empty.                                              *)
(***************************************************************************)
QueueInit ==
  /\ sequence = 0
  /\ state = [id \in Ids |-> "absent"]
  /\ request = [id \in Ids |-> NoRequest]
  /\ attempts = [id \in Ids |-> 0]
  /\ available = [id \in Ids |-> FALSE]
  /\ lockedBy = [id \in Ids |-> NoWorker]
  /\ leaseLive = [id \in Ids |-> FALSE]
  /\ lastError = [id \in Ids |-> "none"]
  /\ pruned = {}
  /\ overtaken = {}
  /\ acked = {}

Visible(id) == state[id] \notin {"absent", "inserting"}

SamePartition(i, j) == request[i].part = request[j].part

\* Mutant of Twin: only unfinished rows count as duplicates.
TwinUnfinished(k, id) == state[k] \in Unfinished /\ request[k].key = request[id].key

\* A committed row holding the (kind, dedupe_key) that row id inserts.
Twin(k, id) == Visible(k) /\ request[k].key = request[id].key

LaterInPartition(id) ==
  \E k \in Ids : id < k /\ Visible(k) /\ SamePartition(id, k)

\* The row id has just become pending.
NoteOvertaking(id) ==
  overtaken' = IF LaterInPartition(id) THEN overtaken \cup {id} ELSE overtaken

(***************************************************************************)
(* enqueue: one INSERT .. ON CONFLICT statement.  nextval() is taken when   *)
(* the statement runs and the row appears when it commits, so statements on *)
(* two connections may commit in the other order.                           *)
(***************************************************************************)
BeginEnqueue(r) ==
  LET id == sequence + 1 IN
  /\ sequence < MaxJobs
  /\ sequence' = id
  /\ state' = [state EXCEPT ![id] = "inserting"]
  /\ request' = [request EXCEPT ![id] = r]
  /\ UNCHANGED <<attempts, available, lockedBy, leaseLive, lastError, pruned,
                 overtaken, acked>>

CommitEnqueue(id) ==
  /\ state[id] = "inserting"
  /\ \A k \in Ids : ~Twin(k, id)
  /\ state' = [state EXCEPT ![id] = "pending"]
  /\ available' = [available EXCEPT ![id] = TRUE]
  /\ acked' = acked \cup {[id |-> id, request |-> request[id]]}
  /\ NoteOvertaking(id)
  /\ UNCHANGED <<sequence, request, attempts, lockedBy, leaseLive, lastError,
                 pruned>>

\* ON CONFLICT: the same payload hash returns the existing id, another one
\* raises "Duplicate job key has a different payload hash".
ConflictEnqueue(id) ==
  /\ state[id] = "inserting"
  /\ \E k \in Ids :
       /\ Twin(k, id)
       /\ acked' = IF request[k].payload = request[id].payload
                   THEN acked \cup {[id |-> k, request |-> request[id]]}
                   ELSE acked
  /\ state' = [state EXCEPT ![id] = "absent"]
  /\ request' = [request EXCEPT ![id] = NoRequest]
  /\ UNCHANGED <<sequence, attempts, available, lockedBy, leaseLive, lastError,
                 pruned, overtaken>>

\* The connection or the process is lost before the commit.
AbortEnqueue(id) ==
  /\ state[id] = "inserting"
  /\ state' = [state EXCEPT ![id] = "absent"]
  /\ request' = [request EXCEPT ![id] = NoRequest]
  /\ UNCHANGED <<sequence, attempts, available, lockedBy, leaseLive, lastError,
                 pruned, overtaken, acked>>

(***************************************************************************)
(* claim: the oldest due row that no earlier unfinished row of its          *)
(* partition holds back.  ORDER BY available_at only chooses among the      *)
(* candidates; the model allows any of them.                                *)
(***************************************************************************)
\* Mutants of HeldBack: a running row does not hold back, a row holds back itself.
HeldBackByPending(id) ==
  \E e \in Ids : e < id /\ state[e] = "pending" /\ SamePartition(e, id)
HeldBackByItself(id) ==
  \E e \in Ids : e <= id /\ state[e] \in Unfinished /\ SamePartition(e, id)

HeldBack(id) ==
  \E e \in Ids : e < id /\ state[e] \in Unfinished /\ SamePartition(e, id)

Claimable(id) == state[id] = "pending" /\ available[id] /\ ~HeldBack(id)

Claim(w, id) ==
  /\ Claimable(id)
  /\ state' = [state EXCEPT ![id] = "processing"]
  /\ lockedBy' = [lockedBy EXCEPT ![id] = w]
  /\ leaseLive' = [leaseLive EXCEPT ![id] = TRUE]
  /\ attempts' = [attempts EXCEPT ![id] = @ + 1]
  /\ UNCHANGED <<sequence, request, available, lastError, pruned, overtaken, acked>>

\* Mutant of Holds: the statements do not compare locked_by.
HoldsAnyLease(w, id) == state[id] = "processing"

\* WHERE id=$1 AND state='processing' AND locked_by=$2; otherwise assertChanged
\* raises "Job lease was lost" and the row stays as it is.
Holds(w, id) == state[id] = "processing" /\ lockedBy[id] = w

\* locked_at=NULL, locked_by=NULL
Unlock(id) ==
  /\ lockedBy' = [lockedBy EXCEPT ![id] = NoWorker]
  /\ leaseLive' = [leaseLive EXCEPT ![id] = FALSE]

\* Mutant of AfterAttempt: one attempt too many.
AfterAttemptOneMore(id) == IF attempts[id] > MaxAttempts THEN "dead" ELSE "pending"

AfterAttempt(id) == IF attempts[id] >= MaxAttempts THEN "dead" ELSE "pending"

Heartbeat(w, id) ==
  /\ Holds(w, id)
  /\ leaseLive' = [leaseLive EXCEPT ![id] = TRUE]
  /\ UNCHANGED <<sequence, state, request, attempts, available, lockedBy,
                 lastError, pruned, overtaken, acked>>

Complete(w, id) ==
  /\ Holds(w, id)
  /\ state' = [state EXCEPT ![id] = "completed"]
  /\ Unlock(id)
  /\ UNCHANGED <<sequence, request, attempts, available, lastError, pruned,
                 overtaken, acked>>

Retry(w, id, err) ==
  /\ Holds(w, id)
  /\ state' = [state EXCEPT ![id] = AfterAttempt(id)]
  /\ available' = [available EXCEPT ![id] = FALSE]
  /\ lastError' = [lastError EXCEPT ![id] = err]
  /\ Unlock(id)
  /\ UNCHANGED <<sequence, request, attempts, pruned, overtaken, acked>>

DeadLetter(w, id, err) ==
  /\ Holds(w, id)
  /\ state' = [state EXCEPT ![id] = "dead"]
  /\ lastError' = [lastError EXCEPT ![id] = err]
  /\ Unlock(id)
  /\ UNCHANGED <<sequence, request, attempts, available, pruned, overtaken, acked>>

(***************************************************************************)
(* recoverStale: every processing row whose lease has run out.              *)
(***************************************************************************)
\* Mutant of Stale: the lease is not compared.
StaleAtOnce(id) == state[id] = "processing"

Stale(id) == state[id] = "processing" /\ ~leaseLive[id]

RecoverStale ==
  /\ state' = [id \in Ids |-> IF Stale(id) THEN AfterAttempt(id) ELSE state[id]]
  /\ lockedBy' = [id \in Ids |-> IF Stale(id) THEN NoWorker ELSE lockedBy[id]]
  /\ available' = [id \in Ids |-> Stale(id) \/ available[id]]
  /\ lastError' = [id \in Ids |-> IF Stale(id) /\ lastError[id] = "none"
                                  THEN "expired" ELSE lastError[id]]
  /\ UNCHANGED <<sequence, request, attempts, leaseLive, pruned, overtaken, acked>>

(***************************************************************************)
(* requeueDead: the operator's requeue, and cleanup: retention.  allow is   *)
(* allowDeliveryUnknown.  Which rows are old enough is any choice.          *)
(***************************************************************************)
\* Mutant of RequeueDead: the verdict in last_error is not looked at.
RequeueAnyDead(id, allow) ==
  /\ state[id] = "dead"
  /\ state' = [state EXCEPT ![id] = "pending"]
  /\ attempts' = [attempts EXCEPT ![id] = 0]
  /\ available' = [available EXCEPT ![id] = TRUE]
  /\ lastError' = [lastError EXCEPT ![id] = "none"]
  /\ NoteOvertaking(id)
  /\ UNCHANGED <<sequence, request, lockedBy, leaseLive, pruned, acked>>

RequeueDead(id, allow) ==
  /\ state[id] = "dead"
  /\ allow \/ lastError[id] # "unknown"
  /\ state' = [state EXCEPT ![id] = "pending"]
  /\ attempts' = [attempts EXCEPT ![id] = 0]
  /\ available' = [available EXCEPT ![id] = TRUE]
  /\ lastError' = [lastError EXCEPT ![id] = "none"]
  /\ NoteOvertaking(id)
  /\ UNCHANGED <<sequence, request, lockedBy, leaseLive, pruned, acked>>

\* Mutant of CompletedIds: payloads of dead rows are pruned as well.
PrunableIds == {id \in Ids : state[id] \in Settled}
CompletedIds == {id \in Ids : state[id] = "completed"}
SettledIds == {id \in Ids : state[id] \in Settled}

Cleanup(old, expired) ==
  LET Rows(column, empty) ==
        [id \in Ids |-> IF id \in expired THEN empty ELSE column[id]] IN
  /\ old \subseteq CompletedIds
  /\ expired \subseteq SettledIds
  /\ pruned' = (pruned \cup old) \ expired
  /\ state' = Rows(state, "absent")
  /\ request' = Rows(request, NoRequest)
  /\ attempts' = Rows(attempts, 0)
  /\ available' = Rows(available, FALSE)
  /\ lastError' = Rows(lastError, "none")
  /\ UNCHANGED <<sequence, lockedBy, leaseLive, overtaken, acked>>

(***************************************************************************)
(* Time passes: a retry's delay ends, a lease runs out.                     *)
(***************************************************************************)
BecomeDue(id) ==
  /\ state[id] = "pending"
  /\ ~available[id]
  /\ available' = [available EXCEPT ![id] = TRUE]
  /\ UNCHANGED <<sequence, state, request, attempts, lockedBy, leaseLive,
                 lastError, pruned, overtaken, acked>>

LeaseLapses(id) ==
  /\ state[id] = "processing"
  /\ leaseLive[id]
  /\ leaseLive' = [leaseLive EXCEPT ![id] = FALSE]
  /\ UNCHANGED <<sequence, state, request, attempts, available, lockedBy,
                 lastError, pruned, overtaken, acked>>

-----------------------------------------------------------------------------
ClientNext ==
  \/ \E r \in Requests : BeginEnqueue(r)
  \/ \E id \in Ids :
       CommitEnqueue(id) \/ ConflictEnqueue(id) \/ AbortEnqueue(id)

WorkerNext ==
  \/ \E w \in Workers, id \in Ids :
       \/ Claim(w, id)
       \/ Heartbeat(w, id)
       \/ Complete(w, id)
       \/ Retry(w, id, "failed")
       \/ \E err \in {"failed", "unknown"} : DeadLetter(w, id, err)
  \/ RecoverStale

OperatorNext ==
  \/ \E id \in Ids, allow \in BOOLEAN : RequeueDead(id, allow)
  \/ \E old, expired \in SUBSET Ids : Cleanup(old, expired)

TimeNext == \E id \in Ids : BecomeDue(id) \/ LeaseLapses(id)

QueueNext == ClientNext \/ WorkerNext \/ OperatorNext \/ TimeNext

QueueSpec == QueueInit /\ [][QueueNext]_queueVars

-----------------------------------------------------------------------------
(***************************************************************************)
(* Properties.                                                              *)
(***************************************************************************)

\* Every column holds a value of its type.
QueueTypeOK ==
  /\ sequence \in 0..MaxJobs
  /\ state \in [Ids -> States]
  /\ request \in [Ids -> Requests \cup {NoRequest}]
  /\ attempts \in [Ids -> 0..MaxAttempts]
  /\ available \in [Ids -> BOOLEAN]
  /\ lockedBy \in [Ids -> Workers \cup {NoWorker}]
  /\ leaseLive \in [Ids -> BOOLEAN]
  /\ lastError \in [Ids -> Errors]
  /\ pruned \subseteq Ids
  /\ overtaken \subseteq Ids
  /\ acked \subseteq [id : Ids, request : Requests]

\* A row that can still be claimed has an attempt left, and only a row that is
\* processing is locked: whatever mix of retry, lease recovery and operator
\* requeue led there, attempts never passes max_attempts
\* (postgres-job-queue.ts claim, retry, recoverStale, requeueDead).
AttemptBudget ==
  \A id \in Ids :
    /\ state[id] = "pending" => attempts[id] < MaxAttempts
    /\ state[id] = "processing" <=> lockedBy[id] # NoWorker

\* While a row is processing no earlier row of its partition is unfinished,
\* unless that earlier row became pending after a later one was in the table
\* (an INSERT that committed late, or an operator's requeue): the only two ways
\* in which the order of a conversation can be broken.
PartitionOrder ==
  \A i, j \in Ids :
    /\ i < j
    /\ state[j] = "processing"
    /\ state[i] \in Unfinished
    /\ SamePartition(i, j)
    => i \in overtaken

\* Dedupe: two rows never share (kind, dedupe_key), and two events that were
\* acknowledged with the same job id are the same event, even when redeliveries
\* race on two connections (enqueue's ON CONFLICT and payload hash).
DedupeSound ==
  /\ \A i, j \in Ids :
       (Visible(i) /\ Visible(j) /\ request[i].key = request[j].key) => i = j
  /\ \A a, b \in acked :
       a.id = b.id => /\ a.request.key = b.request.key
                      /\ a.request.payload = b.request.payload

\* A row that may run, now or after an operator's requeue, still has the payload
\* its handler reads: cleanup() prunes only what can never be claimed again.
RunnableHasPayload ==
  \A id \in pruned : state[id] = "completed"
=============================================================================
