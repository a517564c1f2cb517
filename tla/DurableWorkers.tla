-------------------------- MODULE DurableWorkers --------------------------
(***************************************************************************)
(* The DurableWorker loops of one process (src/src/queue/worker.ts, started *)
(* by src/src/server.ts) over the job table.  The process may crash and     *)
(* restart with the same worker ids, and a statement may fail, or be        *)
(* applied although its answer is lost.                                     *)
(*                                                                          *)
(* phase[w] says where worker w is in start() and pollOnce():               *)
(*   down        no process                                                 *)
(*   recovering  recovered = false, recoverStale() comes next               *)
(*   polling     about to claim                                             *)
(*   handling    the handler of running[w] runs                             *)
(*   completing  the handler returned, complete() comes next                *)
(*   retrying    the catch block chose retry()                              *)
(*   burying     the catch block chose deadLetter()                         *)
(***************************************************************************)
EXTENDS JobQueue, RetryPolicy

CONSTANTS
  HandlerErrors,     \* what a handler may throw
  StatementErrors,   \* what a failing statement of the queue throws
  MaxMishaps,        \* bound: how often each kind of mishap happens
  RestartAfterLease  \* the environment restarts only once every lease is over

MishapKinds == {"crash", "statement", "lapse", "requeue"}

ASSUME PoolAssumption ==
  /\ MaxMishaps \in [MishapKinds -> Nat]
  /\ RestartAfterLease \in BOOLEAN
  /\ Workers # {}

VARIABLES
  phase,
  running,    \* id of the job pollOnce holds, 0 for none
  held,       \* job.attempts of that job, as claim() returned it
  verdict,    \* the message the catch block records
  mishaps,    \* mishaps so far
  lapsed,     \* history: ids whose lease ran out under a live handler
  handled     \* history: ids whose handler has returned

workerVars == <<phase, running, held, verdict>>
poolVars == <<queueVars, workerVars, mishaps, lapsed, handled>>

Phases == {"down", "recovering", "polling", "handling", "completing", "retrying",
           "burying"}
Busy == {"handling", "completing", "retrying", "burying"}

PoolInit ==
  /\ QueueInit
  /\ phase = [w \in Workers |-> "recovering"]
  /\ running = [w \in Workers |-> 0]
  /\ held = [w \in Workers |-> 0]
  /\ verdict = [w \in Workers |-> "none"]
  /\ mishaps = [k \in MishapKinds |-> 0]
  /\ lapsed = {}
  /\ handled = {}

Mishap(kind) ==
  /\ mishaps[kind] < MaxMishaps[kind]
  /\ mishaps' = [mishaps EXCEPT ![kind] = @ + 1]

\* Worker w goes on to phase p with or without its job.
GoTo(w, p) ==
  /\ phase' = [phase EXCEPT ![w] = p]
  /\ UNCHANGED <<running, held>>

LetGo(w, p) ==
  /\ phase' = [phase EXCEPT ![w] = p]
  /\ running' = [running EXCEPT ![w] = 0]
  /\ held' = [held EXCEPT ![w] = 0]
  /\ verdict' = [verdict EXCEPT ![w] = "none"]

(***************************************************************************)
(* start(): lease recovery runs when the loop starts and again after an     *)
(* infrastructure failure, not on every poll.                               *)
(***************************************************************************)
\* Mutant of Recover: a worker takes back the rows its own id locked, whatever
\* their lease.
RecoverOwn(w) ==
  /\ phase[w] = "recovering"
  /\ state' = [id \in Ids |-> IF lockedBy[id] = w THEN "pending" ELSE state[id]]
  /\ lockedBy' = [id \in Ids |-> IF lockedBy[id] = w THEN NoWorker ELSE lockedBy[id]]
  /\ GoTo(w, "polling")
  /\ UNCHANGED <<sequence, request, attempts, available, leaseLive, lastError,
                 pruned, overtaken, acked, verdict, mishaps, lapsed, handled>>

Recover(w) ==
  /\ phase[w] = "recovering"
  /\ RecoverStale
  /\ GoTo(w, "polling")
  /\ UNCHANGED <<verdict, mishaps, lapsed, handled>>

\* recoverStale() throws; it may have been applied.
RecoverFails(w) ==
  /\ phase[w] = "recovering"
  /\ Mishap("statement")
  /\ UNCHANGED queueVars \/ RecoverStale
  /\ UNCHANGED <<workerVars, lapsed, handled>>

\* Every kind of job has a handler (runtime-handlers.ts), so the branch that
\* dead-letters a job without one is never taken.
ClaimJob(w, id) ==
  /\ phase[w] = "polling"
  /\ Claim(w, id)
  /\ phase' = [phase EXCEPT ![w] = "handling"]
  /\ running' = [running EXCEPT ![w] = id]
  /\ held' = [held EXCEPT ![w] = attempts'[id]]
  /\ UNCHANGED <<verdict, mishaps, lapsed, handled>>

\* claim() throws: the error leaves pollOnce and start() recovers again.  The
\* row may have been claimed nevertheless.
ClaimFails(w) ==
  /\ phase[w] = "polling"
  /\ Mishap("statement")
  /\ UNCHANGED queueVars \/ \E id \in Ids : Claim(w, id)
  /\ GoTo(w, "recovering")
  /\ UNCHANGED <<verdict, lapsed, handled>>

\* claim() finds nothing: pollOnce returns false and start() waits pollMs.
Idle(w) ==
  /\ phase[w] = "polling"
  /\ \A id \in Ids : ~Claimable(id)
  /\ UNCHANGED poolVars

\* The heartbeat timer; its errors are swallowed, so a failed one is no step.
Beat(w) ==
  /\ phase[w] \in Busy
  /\ Heartbeat(w, running[w])
  /\ UNCHANGED <<workerVars, mishaps, lapsed, handled>>

(***************************************************************************)
(* The handler returns or throws, then one statement settles the row.       *)
(***************************************************************************)
HandlerReturns(w) ==
  /\ phase[w] = "handling"
  /\ handled' = handled \cup {running[w]}
  /\ GoTo(w, "completing")
  /\ UNCHANGED <<queueVars, verdict, mishaps, lapsed>>

\* The catch block of pollOnce.
Catch(w, e) ==
  /\ GoTo(w, IF WillRetry(e) THEN "retrying" ELSE "burying")
  /\ verdict' = [verdict EXCEPT ![w] = SafeError(e)]

HandlerThrows(w, e) ==
  /\ phase[w] = "handling"
  /\ Catch(w, e)
  /\ UNCHANGED <<queueVars, mishaps, lapsed, handled>>

\* complete() is inside the try: when it throws, the catch block runs.
CompleteJob(w) ==
  /\ phase[w] = "completing"
  /\ \/ Complete(w, running[w]) /\ LetGo(w, "polling")
     \/ ~Holds(w, running[w]) /\ Catch(w, LeaseLost) /\ UNCHANGED queueVars
  /\ UNCHANGED <<mishaps, lapsed, handled>>

CompleteFails(w, e) ==
  /\ phase[w] = "completing"
  /\ Mishap("statement")
  /\ UNCHANGED queueVars \/ Complete(w, running[w])
  /\ Catch(w, e)
  /\ UNCHANGED <<lapsed, handled>>

\* retry() or deadLetter() of the catch block
Settle(w) ==
  \/ phase[w] = "retrying" /\ Retry(w, running[w], verdict[w])
  \/ phase[w] = "burying" /\ DeadLetter(w, running[w], verdict[w])

\* When that statement throws too, the error leaves pollOnce.
SettleJob(w) ==
  /\ phase[w] \in {"retrying", "burying"}
  /\ \/ Settle(w) /\ LetGo(w, "polling")
     \/ ~Holds(w, running[w]) /\ LetGo(w, "recovering") /\ UNCHANGED queueVars
  /\ UNCHANGED <<mishaps, lapsed, handled>>

SettleFails(w) ==
  /\ phase[w] \in {"retrying", "burying"}
  /\ Mishap("statement")
  /\ UNCHANGED queueVars \/ Settle(w)
  /\ LetGo(w, "recovering")
  /\ UNCHANGED <<lapsed, handled>>

(***************************************************************************)
(* The process stops, also when its shutdown timeout runs out under busy    *)
(* workers, and comes back with the same ids.                               *)
(***************************************************************************)
Crash ==
  /\ \A w \in Workers : phase[w] # "down"
  /\ Mishap("crash")
  /\ phase' = [w \in Workers |-> "down"]
  /\ running' = [w \in Workers |-> 0]
  /\ held' = [w \in Workers |-> 0]
  /\ verdict' = [w \in Workers |-> "none"]
  /\ UNCHANGED <<queueVars, lapsed, handled>>

Restart ==
  /\ \A w \in Workers : phase[w] = "down"
  /\ RestartAfterLease => \A id \in Ids : ~leaseLive[id]
  /\ phase' = [w \in Workers |-> "recovering"]
  /\ UNCHANGED <<queueVars, running, held, verdict, mishaps, lapsed, handled>>

(***************************************************************************)
(* Leases.  An abandoned row's lease runs out; under a live handler it does *)
(* so only when heartbeats fail for a whole lease.                          *)
(***************************************************************************)
Runs(w, id) == running[w] = id /\ Holds(w, id)
Abandoned(id) == state[id] = "processing" /\ \A w \in Workers : ~Runs(w, id)

AbandonedLapses(id) ==
  /\ Abandoned(id)
  /\ LeaseLapses(id)
  /\ UNCHANGED <<workerVars, mishaps, lapsed, handled>>

LapseUnderHandler(id) ==
  /\ ~Abandoned(id)
  /\ LeaseLapses(id)
  /\ Mishap("lapse")
  /\ lapsed' = lapsed \cup {id}
  /\ UNCHANGED <<workerVars, handled>>

Requeue(id, allow) ==
  /\ Mishap("requeue")
  /\ RequeueDead(id, allow)
  /\ UNCHANGED <<workerVars, lapsed, handled>>

DelayEnds(id) == BecomeDue(id) /\ UNCHANGED <<workerVars, mishaps, lapsed, handled>>

\* retentionLoop() and the callers of enqueue() leave the workers alone.
Retention ==
  /\ \E old, expired \in SUBSET Ids :
       old \cup expired # {} /\ Cleanup(old, expired)
  /\ UNCHANGED <<workerVars, mishaps, lapsed, handled>>

Clients == ClientNext /\ UNCHANGED <<workerVars, mishaps, lapsed, handled>>

-----------------------------------------------------------------------------
WorkerStep(w) ==
  \/ Recover(w)
  \/ \E id \in Ids : ClaimJob(w, id)
  \/ HandlerReturns(w)
  \/ \E e \in HandlerErrors : HandlerThrows(w, e)
  \/ CompleteJob(w)
  \/ SettleJob(w)

Faults ==
  \/ \E w \in Workers :
       \/ RecoverFails(w)
       \/ ClaimFails(w)
       \/ \E e \in StatementErrors : CompleteFails(w, e)
       \/ SettleFails(w)
  \/ \E id \in Ids : LapseUnderHandler(id)
  \/ Crash

PoolNext ==
  \/ \E w \in Workers : WorkerStep(w) \/ Beat(w) \/ Idle(w)
  \/ Faults
  \/ Restart
  \/ \E id \in Ids :
       \/ AbandonedLapses(id)
       \/ DelayEnds(id)
       \/ \E allow \in BOOLEAN : Requeue(id, allow)
  \/ Retention
  \/ Clients

PoolSpec == PoolInit /\ [][PoolNext]_poolVars

\* The event loop runs every worker, timers fire, a lease nobody renews runs
\* out, an INSERT is answered, and the container is restarted.
Fairness ==
  /\ \A w \in Workers : WF_poolVars(WorkerStep(w))
  /\ \A id \in Ids :
       /\ WF_poolVars(AbandonedLapses(id))
       /\ WF_poolVars(DelayEnds(id))
       /\ WF_poolVars(Clients /\ (CommitEnqueue(id) \/ ConflictEnqueue(id)))
  /\ WF_poolVars(Restart)

FairSpec == PoolSpec /\ Fairness

-----------------------------------------------------------------------------
(***************************************************************************)
(* Properties.                                                              *)
(***************************************************************************)

\* The worker's own variables have their types.
PoolTypeOK ==
  /\ phase \in [Workers -> Phases]
  /\ running \in [Workers -> Ids \cup {0}]
  /\ held \in [Workers -> 0..MaxAttempts]
  /\ verdict \in [Workers -> {"none", "failed", "unknown"}]
  /\ mishaps \in [MishapKinds -> Nat]
  /\ lapsed \subseteq Ids
  /\ handled \subseteq Ids

\* locked_by names the claim, although ids are reused after a restart: a worker
\* that passes the "WHERE locked_by" guard is on the very attempt it claimed, so
\* a late complete() or retry() never settles a newer attempt (worker.ts:33-34).
LeaseNamesAttempt ==
  \A w \in Workers, id \in Ids :
    Runs(w, id) => phase[w] \in Busy /\ held[w] = attempts[id]

\* Two handlers run the same job at once only if its lease ran out under one of
\* them; crashes, lost answers and requeues alone never start a second one.
OneHandlerPerLease ==
  \A v, w \in Workers :
    (v # w /\ running[v] = running[w] /\ running[v] # 0) => running[v] \in lapsed

\* A job is recorded as completed only after its handler has returned
\* (worker.ts:33 awaits the handler before complete()).
CompletedWasHandled ==
  \A id \in Ids : state[id] = "completed" => id \in handled

\* A job that ended in DeliveryUnknownError stays dead until an operator acts:
\* no retry, lease recovery or generic step makes it runnable with that verdict.
UnknownIsParked ==
  \A id \in Ids : lastError[id] = "unknown" => state[id] = "dead"

\* The workers use the table only through its statements (refinement).
ImplementsQueue == QueueSpec

\* Without mishaps every enqueued job is eventually completed or dead-lettered:
\* retries end, and no partition waits for ever.
EveryJobSettles ==
  \A id \in Ids : (state[id] = "pending") ~> (state[id] \in Settled)

\* docs/architecture.md: the reaper returns abandoned jobs after crash/restart.
AbandonedReturns ==
  \A id \in Ids : Abandoned(id) ~> ~Abandoned(id)
=============================================================================
