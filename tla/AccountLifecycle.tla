------------------------- MODULE AccountLifecycle -------------------------
(***************************************************************************)
(* The life of a Telegram account: ReconnectSupervisor                      *)
(* (src/src/runtime/adapter-runtime.ts), AccountAdminService                *)
(* (account-admin.ts), TelegramOnboardingService (telegram-onboarding.ts)   *)
(* and AccountManagementService (account-management.ts) over the tables     *)
(* messenger_accounts and secrets.                                          *)
(*                                                                         *)
(* The supervisor's loop and the admin requests are processes that          *)
(* interleave at every await.  Two KeyedSerialExecutors order them: one in   *)
(* the supervisor, one in the onboarding service; neither excludes the      *)
(* other.  step[p] is the await process p has reached:                      *)
(*   awaitOnb, awaitSup   its task is queued in an executor                 *)
(*   decide, create, dial, connected, failed          inside ensure()       *)
(*   unplug, erase                 inside disconnectAccount(), delete()     *)
(*   insert, begin, store, mark, finish              inside an onboarding   *)
(*   put, upsert                                          inside create()   *)
(*   sleeping, next, stopped, down                  the supervisor's loop   *)
(***************************************************************************)
EXTENDS Integers, Sequences, FiniteSets, Functions

CONSTANTS
  Accounts,      \* account ids
  NoAccount,
  Requests,      \* admin HTTP requests that may be in flight at once
  Supervisor,    \* the loop of ReconnectSupervisor.run()
  Operations,    \* the operations requests ask for
  MaxSessions,   \* bound: Telegram sessions ever issued
  MaxMishaps,    \* bound: how often each kind of mishap happens
  MaxInAll       \* bound: how many mishaps there are in all

AllOperations == {"register", "start", "code", "password", "disconnect", "delete",
                  "reconnect", "create"}

\* crash: the process stops; statement: one SQL statement throws; drop: a
\* connection is lost; outage: a connect fails; hangup: a disconnect fails;
\* revoke: a session is logged out from the phone.
MishapKinds == {"crash", "statement", "drop", "outage", "hangup", "revoke"}

ASSUME LifecycleAssumption ==
  /\ NoAccount \notin Accounts
  /\ IsFiniteSet(Requests)
  /\ Supervisor \notin Requests
  /\ Operations \subseteq AllOperations
  /\ MaxSessions \in Nat
  /\ MaxMishaps \in [MishapKinds -> Nat]
  /\ MaxInAll \in Nat

Processes == Requests \cup {Supervisor}

\* A stored credential: none, the placeholder {session:"",authorized:false},
\* or a session, which is named by the order in which Telegram issued it.
NoSession == -1
Unauthorized == 0
Sessions == 1..MaxSessions

RowStates == {"absent", "disconnected", "connecting", "connected",
              "reconnect_required", "error"}

VARIABLES
  row,        \* messenger_accounts.state, "absent" without a row
  secret,     \* the credential under the account's credential_ref
  issued,     \* sessions Telegram has issued
  revoked,    \* sessions that are logged out
  known,      \* ids ever drawn
  adapter,    \* session of the registered adapter, NoSession for none
  online,     \* client.connected of that adapter
  clients,    \* clients created by the factory and not disconnected since
  pending,    \* TelegramOnboardingService.pending
  backoff,    \* Date.now() < nextAttemptAt
  supQueue,   \* tasks of the supervisor's executor, the running one first
  onbQueue,   \* tasks of the onboarding service's executor
  todo,       \* accounts listEnabled() returned and reconcile() has not reached
  serving,    \* the first reconcile() has returned, HTTP is open
  step, op, on, \* position, operation and account of each process
  seen,       \* its local variable: the adapter found, then the error's state
  mishaps,    \* mishaps so far
  stopped,    \* history: disconnected on request, not reconnected since
  erased      \* history: deleted, not created again since

tables == <<row, secret>>
telegram == <<issued, revoked>>
runtime == <<adapter, online, clients, backoff>>
locks == <<supQueue, onbQueue>>
procs == <<step, op, on, seen>>
history == <<stopped, erased>>
vars == <<tables, telegram, known, runtime, pending, locks, todo, serving, procs,
          mishaps, history>>

LifecycleInit ==
  /\ row = [a \in Accounts |-> "absent"]
  /\ secret = [a \in Accounts |-> NoSession]
  /\ issued = 0
  /\ revoked = {}
  /\ known = {}
  /\ adapter = [a \in Accounts |-> NoSession]
  /\ online = [a \in Accounts |-> FALSE]
  /\ clients = [a \in Accounts |-> 0]
  /\ pending = [a \in Accounts |-> "none"]
  /\ backoff = [a \in Accounts |-> FALSE]
  /\ supQueue = [a \in Accounts |-> <<>>]
  /\ onbQueue = [a \in Accounts |-> <<>>]
  /\ todo = {}
  /\ serving = FALSE
  /\ step = [p \in Processes |-> IF p = Supervisor THEN "sleeping" ELSE "idle"]
  /\ op = [p \in Processes |-> IF p = Supervisor THEN "reconcile" ELSE "none"]
  /\ on = [p \in Processes |-> NoAccount]
  /\ seen = [p \in Processes |-> "none"]
  /\ mishaps = [k \in MishapKinds |-> 0]
  /\ stopped = {}
  /\ erased = {}

Mishap(kind) ==
  /\ mishaps[kind] < MaxMishaps[kind]
  /\ FoldFunction(+, 0, mishaps) < MaxInAll
  /\ mishaps' = [mishaps EXCEPT ![kind] = @ + 1]

(***************************************************************************)
(* KeyedSerialExecutor: a task runs when every task queued before it under   *)
(* its key has ended, whether it succeeded or not.                          *)
(***************************************************************************)
\* Mutant of Turn: tasks start without waiting for those before them.
TurnAtOnce(queue, p) ==
  on[p] \in Accounts /\ \E i \in DOMAIN queue[on[p]] : queue[on[p]][i] = p

Turn(queue, p) ==
  on[p] \in Accounts /\ queue[on[p]] # <<>> /\ Head(queue[on[p]]) = p

Join(queue, a, p) == [queue EXCEPT ![a] = Append(@, p)]

Leave(queue, p) ==
  IF Turn(queue, p) THEN [queue EXCEPT ![on[p]] = Tail(@)] ELSE queue

GoTo(p, s) ==
  /\ step' = [step EXCEPT ![p] = s]
  /\ UNCHANGED <<op, on, seen, locks>>

\* The promise of p's task settles and frees the executors it held.
Settle(p, s) ==
  /\ supQueue' = Leave(supQueue, p)
  /\ onbQueue' = Leave(onbQueue, p)
  /\ step' = [step EXCEPT ![p] = s]
  /\ op' = [op EXCEPT ![p] = IF p = Supervisor THEN @ ELSE "none"]
  /\ on' = [on EXCEPT ![p] = NoAccount]
  /\ seen' = [seen EXCEPT ![p] = "none"]

Return(p) == Settle(p, IF p = Supervisor THEN "next" ELSE "idle")

\* Mutant of Throw: a task that fails keeps its place in the executors.
ThrowAndHold(p) ==
  /\ step' = [step EXCEPT ![p] = IF p = Supervisor THEN "stopped" ELSE "idle"]
  /\ UNCHANGED <<locks, op, on, seen>>

\* server.ts logs "supervisor stopped" when run() rejects; a request is answered
\* with the error.
Throw(p) == Settle(p, IF p = Supervisor THEN "stopped" ELSE "idle")

\* UPDATE messenger_accounts SET state = ... WHERE id = ...
SetState(a, s) ==
  row' = IF row[a] = "absent" THEN row ELSE [row EXCEPT ![a] = s]

(***************************************************************************)
(* ensure(): connect the account of process p.                              *)
(***************************************************************************)
Forced(p) == op[p] = "reconnect"

\* Mutant of Resting: a disconnected account is ensured too.
RestingLess == {"connecting", "reconnect_required"}

\* The states a reconcile() pass leaves alone, when ensure() reads the row again.
\* ("disabled" is written by no code.)
Resting == {"disconnected", "connecting", "reconnect_required"}

EnsureRead(p) ==
  /\ step[p] = "awaitSup" /\ op[p] \in {"reconcile", "reconnect"}
  /\ Turn(supQueue, p)
  /\ LET a == on[p] IN
       IF row[a] = "absent" \/ (~Forced(p) /\ row[a] \in Resting)
         THEN Return(p) /\ UNCHANGED <<backoff, stopped>>
         ELSE /\ GoTo(p, "decide")
              /\ backoff' = [backoff EXCEPT ![a] = @ /\ ~Forced(p)]
              /\ stopped' = IF Forced(p) THEN stopped \ {a} ELSE stopped
  /\ UNCHANGED <<tables, telegram, known, adapter, online, clients, pending, todo,
                 serving, mishaps, erased>>

\* ensure() goes on to connect.
Attempts(p) == ~online[on[p]] /\ ~backoff[on[p]]

EnsureDecide(p) ==
  /\ step[p] = "decide"
  /\ LET a == on[p] IN
       \/ /\ Attempts(p)
          /\ SetState(a, "connecting")
          /\ step' = [step EXCEPT ![p] = "create"]
          /\ seen' = [seen EXCEPT ![p] = IF adapter[a] = NoSession THEN "missing"
                                                                   ELSE "existing"]
          /\ UNCHANGED <<op, on, locks, backoff>>
       \/ /\ ~Attempts(p)
          /\ Return(p)
          /\ backoff' = [backoff EXCEPT ![a] = @ /\ ~online[a]]
          /\ UNCHANGED row
  /\ UNCHANGED <<secret, telegram, known, adapter, online, clients, pending, todo,
                 serving, mishaps, history>>

\* The catch block of ensure() records the error as state s.
Catch(p, s) ==
  /\ step' = [step EXCEPT ![p] = "failed"]
  /\ seen' = [seen EXCEPT ![p] = s]
  /\ UNCHANGED <<op, on, locks>>

\* factory.create() reads the stored session; an adapter that was registered
\* already is used as it is.
EnsureCreate(p) ==
  /\ step[p] = "create"
  /\ LET a == on[p] IN
       \/ seen[p] = "existing" /\ GoTo(p, "dial") /\ UNCHANGED runtime
       \/ /\ seen[p] = "missing" /\ secret[a] \in Sessions
          /\ adapter' = [adapter EXCEPT ![a] = secret[a]]
          /\ online' = [online EXCEPT ![a] = FALSE]
          /\ clients' = [clients EXCEPT ![a] = @ + 1]
          /\ GoTo(p, "dial")
          /\ UNCHANGED backoff
       \/ /\ seen[p] = "missing" /\ secret[a] \notin Sessions
          /\ Catch(p, IF secret[a] = Unauthorized THEN "reconnect_required"
                                                  ELSE "error")
          /\ UNCHANGED runtime
  /\ UNCHANGED <<tables, telegram, known, pending, todo, serving, mishaps, history>>

\* adapter.connect(): the client connects before it learns whether its session
\* is still authorized.
EnsureDial(p) ==
  /\ step[p] = "dial"
  /\ LET a == on[p] IN
       \/ /\ online' = [online EXCEPT ![a] = TRUE]
          /\ IF adapter[a] \in revoked THEN Catch(p, "reconnect_required")
                                       ELSE GoTo(p, "connected")
          /\ UNCHANGED mishaps
       \/ /\ Mishap("outage")
          /\ \E up \in BOOLEAN : online' = [online EXCEPT ![a] = up]
          /\ Catch(p, "error")
  /\ UNCHANGED <<tables, telegram, known, adapter, clients, backoff, pending, todo,
                 serving, history>>

EnsureConnected(p) ==
  /\ step[p] = "connected"
  /\ SetState(on[p], "connected")
  /\ backoff' = [backoff EXCEPT ![on[p]] = FALSE]
  /\ Return(p)
  /\ UNCHANGED <<secret, telegram, known, adapter, online, clients, pending, todo,
                 serving, mishaps, history>>

EnsureFailed(p) ==
  /\ step[p] = "failed"
  /\ SetState(on[p], seen[p])
  /\ backoff' = [backoff EXCEPT ![on[p]] = TRUE]
  /\ Return(p)
  /\ UNCHANGED <<secret, telegram, known, adapter, online, clients, pending, todo,
                 serving, mishaps, history>>

\* A statement of ensure() throws; an UPDATE may have been applied.  Inside the
\* try block the catch block runs, elsewhere the error leaves ensure().
EnsureFails(p) ==
  /\ Mishap("statement")
  /\ LET a == on[p] IN
       \/ /\ step[p] = "awaitSup" /\ op[p] \in {"reconcile", "reconnect"}
          /\ Turn(supQueue, p) /\ Throw(p) /\ UNCHANGED row
       \/ /\ step[p] = "decide" /\ Attempts(p)
          /\ UNCHANGED row \/ SetState(a, "connecting")
          /\ Catch(p, "error")
       \/ /\ step[p] = "create" /\ seen[p] = "missing"
          /\ Catch(p, "error") /\ UNCHANGED row
       \/ /\ step[p] = "connected"
          /\ UNCHANGED row \/ SetState(a, "connected")
          /\ Catch(p, "error")
       \/ /\ step[p] = "failed"
          /\ UNCHANGED row \/ SetState(a, seen[p])
          /\ Throw(p)
  /\ serving
  /\ UNCHANGED <<secret, telegram, known, runtime, pending, todo, serving, history>>

(***************************************************************************)
(* reconcile() and run().  A pass begins at start and after each delay       *)
(* ("sleeping"), and visits the accounts it listed one by one.              *)
(***************************************************************************)
\* Mutant of ListEnabled: accounts in error only.
ListBroken ==
  /\ step[Supervisor] = "sleeping"
  /\ todo' = {a \in Accounts : row[a] = "error"}
  /\ GoTo(Supervisor, "next")
  /\ UNCHANGED <<tables, telegram, known, runtime, pending, serving, mishaps, history>>

ListEnabled ==
  /\ step[Supervisor] = "sleeping"
  /\ todo' = {a \in Accounts : row[a] \in {"connected", "error"}}
  /\ GoTo(Supervisor, "next")
  /\ UNCHANGED <<tables, telegram, known, runtime, pending, serving, mishaps, history>>

PickAccount(a) ==
  /\ step[Supervisor] = "next" /\ a \in todo
  /\ todo' = todo \ {a}
  /\ supQueue' = Join(supQueue, a, Supervisor)
  /\ step' = [step EXCEPT ![Supervisor] = "awaitSup"]
  /\ on' = [on EXCEPT ![Supervisor] = a]
  /\ UNCHANGED <<tables, telegram, known, runtime, pending, onbQueue, serving, op, seen,
                 mishaps, history>>

PassEnds ==
  /\ step[Supervisor] = "next" /\ todo = {}
  /\ serving' = TRUE
  /\ GoTo(Supervisor, "sleeping")
  /\ UNCHANGED <<tables, telegram, known, runtime, pending, todo, mishaps, history>>

\* A failing statement ends run(), and server.ts only logs that.  In the first
\* reconcile() it ends the process, which is Crash.
ListFails ==
  /\ step[Supervisor] = "sleeping" /\ serving
  /\ Mishap("statement")
  /\ Throw(Supervisor)
  /\ UNCHANGED <<tables, telegram, known, runtime, pending, todo, serving, history>>

(***************************************************************************)
(* An admin request arrives.  Ids of new accounts are random UUIDs, except   *)
(* that create() may be given one; all others are ids the admin has seen.   *)
(***************************************************************************)
MayName(o, a) ==
  CASE o = "register" -> a \notin known
    [] o = "create" -> TRUE
    [] OTHER -> a \in known

Ask(r, o, a) ==
  /\ serving /\ step[r] = "idle"
  /\ o \in Operations /\ MayName(o, a)
  /\ known' = known \cup {a}
  /\ op' = [op EXCEPT ![r] = o]
  /\ on' = [on EXCEPT ![r] = a]
  /\ \/ o = "create" /\ step' = [step EXCEPT ![r] = "put"] /\ UNCHANGED locks
     \/ /\ o = "reconnect"
        /\ step' = [step EXCEPT ![r] = "awaitSup"]
        /\ supQueue' = Join(supQueue, a, r)
        /\ UNCHANGED onbQueue
     \/ /\ o \notin {"create", "reconnect"}
        /\ step' = [step EXCEPT ![r] = "awaitOnb"]
        /\ onbQueue' = Join(onbQueue, a, r)
        /\ UNCHANGED supQueue
  /\ UNCHANGED <<tables, telegram, runtime, pending, todo, serving, seen, mishaps,
                 history>>

\* The task of request r for operation o has its turn in the onboarding service.
Onboarding(r, o) == step[r] = "awaitOnb" /\ op[r] = o /\ Turn(onbQueue, r)

(***************************************************************************)
(* disconnect() and delete(): cancelLocked(), then disconnectAccount() in    *)
(* the supervisor's executor, both inside the onboarding service's.  As no   *)
(* other task deletes this row meanwhile, disconnectAccount()'s SELECT and   *)
(* UPDATE are one step.                                                     *)
(***************************************************************************)
\* Mutant of CancelOnboarding: cancelLocked() is forgotten.
KeepOnboarding(r) ==
  /\ Onboarding(r, "disconnect") \/ Onboarding(r, "delete")
  /\ step' = [step EXCEPT ![r] = "awaitSup"]
  /\ supQueue' = Join(supQueue, on[r], r)
  /\ UNCHANGED <<tables, telegram, known, runtime, pending, onbQueue, todo, serving,
                 op, on, seen, mishaps, history>>

CancelOnboarding(r) ==
  /\ Onboarding(r, "disconnect") \/ Onboarding(r, "delete")
  /\ LET a == on[r] IN
       \/ /\ op[r] = "delete" /\ row[a] = "absent"
          /\ Return(r) /\ UNCHANGED <<pending, mishaps>>
       \/ /\ op[r] = "delete" => row[a] # "absent"
          /\ pending' = [pending EXCEPT ![a] = "none"]
          /\ \/ /\ step' = [step EXCEPT ![r] = "awaitSup"]
                /\ supQueue' = Join(supQueue, a, r)
                /\ UNCHANGED <<op, on, seen, onbQueue, mishaps>>
             \/ pending[a] # "none" /\ Mishap("hangup") /\ Throw(r)
  /\ UNCHANGED <<tables, telegram, known, runtime, todo, serving, history>>

Stopping(r) ==
  step[r] = "awaitSup" /\ op[r] \in {"disconnect", "delete"} /\ Turn(supQueue, r)

\* Mutant of StopAccount: the row is not marked.
StopUnmarked(r) ==
  /\ Stopping(r)
  /\ GoTo(r, "unplug")
  /\ UNCHANGED <<tables, telegram, known, runtime, pending, todo, serving, mishaps,
                 history>>

StopAccount(r) ==
  /\ Stopping(r)
  /\ LET a == on[r] IN
       \/ row[a] = "absent" /\ Throw(r) /\ UNCHANGED <<row, backoff>>
       \/ /\ row[a] # "absent"
          /\ SetState(a, "disconnected")
          /\ backoff' = [backoff EXCEPT ![a] = FALSE]
          /\ GoTo(r, "unplug")
  /\ UNCHANGED <<secret, telegram, known, adapter, online, clients, pending, todo,
                 serving, mishaps, history>>

\* disconnectAccount() leaves its executor; delete() goes on in the other one.
LeaveSupervisor(r) ==
  IF op[r] = "delete"
    THEN /\ supQueue' = Leave(supQueue, r)
         /\ step' = [step EXCEPT ![r] = "erase"]
         /\ UNCHANGED <<onbQueue, op, on, seen>>
    ELSE Return(r)

\* The adapter is removed also when its disconnect() throws.
Unplug(r) ==
  /\ step[r] = "unplug"
  /\ LET a == on[r] IN
       /\ adapter' = [adapter EXCEPT ![a] = NoSession]
       /\ online' = [online EXCEPT ![a] = FALSE]
       /\ stopped' = stopped \cup {a}
       /\ \/ /\ clients' = [clients EXCEPT ![a] = IF adapter[a] = NoSession THEN @
                                                                            ELSE @ - 1]
             /\ LeaveSupervisor(r)
             /\ UNCHANGED mishaps
          \/ /\ adapter[a] # NoSession /\ Mishap("hangup")
             /\ Throw(r)
             /\ UNCHANGED clients
  /\ UNCHANGED <<tables, telegram, known, backoff, pending, todo, serving, erased>>

\* accounts.delete() removes the row and its secrets in one transaction.
DeleteAccount(a) ==
  /\ row' = [row EXCEPT ![a] = "absent"]
  /\ secret' = [secret EXCEPT ![a] = NoSession]
  /\ erased' = erased \cup {a}

Erase(r) ==
  /\ step[r] = "erase"
  /\ DeleteAccount(on[r])
  /\ Return(r)
  /\ UNCHANGED <<telegram, known, runtime, pending, todo, serving, mishaps, stopped>>

AdminFails(r) ==
  /\ Mishap("statement")
  /\ \/ /\ Stopping(r)
        /\ UNCHANGED row \/ SetState(on[r], "disconnected")
        /\ UNCHANGED <<secret, erased>>
     \/ step[r] = "erase" /\ (UNCHANGED <<tables, erased>> \/ DeleteAccount(on[r]))
  /\ Throw(r)
  /\ UNCHANGED <<telegram, known, runtime, pending, todo, serving, stopped>>

(***************************************************************************)
(* TelegramOnboardingService.  Every operation runs in its executor, so the  *)
(* pending entry and the existence of the row do not change under it.       *)
(***************************************************************************)
\* startLocked() of a new account: the secret comes first, for the foreign key.
Register(r) ==
  /\ Onboarding(r, "register")
  /\ secret' = [secret EXCEPT ![on[r]] = Unauthorized]
  /\ GoTo(r, "insert")
  /\ UNCHANGED <<row, telegram, known, runtime, pending, todo, serving, mishaps, history>>

\* The insert fails when the phone belongs to another account, and takes the
\* secret back.
InsertAccount(r) ==
  /\ step[r] = "insert"
  /\ \/ /\ row' = [row EXCEPT ![on[r]] = "connecting"]
        /\ GoTo(r, "begin")
        /\ UNCHANGED secret
     \/ /\ secret' = [secret EXCEPT ![on[r]] = NoSession]
        /\ Throw(r)
        /\ UNCHANGED row
  /\ UNCHANGED <<telegram, known, runtime, pending, todo, serving, mishaps, history>>

\* startLocked() of an account that exists.
StartAgain(r) ==
  /\ Onboarding(r, "start")
  /\ LET a == on[r] IN
       IF pending[a] # "none" \/ row[a] = "absent"
         THEN Throw(r) /\ UNCHANGED row
         ELSE SetState(a, "connecting") /\ GoTo(r, "begin")
  /\ UNCHANGED <<secret, telegram, known, runtime, pending, todo, serving, mishaps,
                 history>>

\* Mutant of FailOnboarding: the row keeps its state.
FailUnmarked(r) ==
  /\ pending' = [pending EXCEPT ![on[r]] = "none"]
  /\ Throw(r)
  /\ UNCHANGED row

\* fail(), reached from every catch block.  The onboarding's client stays as it is.
FailOnboarding(r) ==
  /\ pending' = [pending EXCEPT ![on[r]] = "none"]
  /\ SetState(on[r], "reconnect_required")
  /\ Throw(r)

\* beginAuthorization() asks Telegram to send a code.
BeginAuthorization(r) ==
  /\ step[r] = "begin"
  /\ \/ /\ row[on[r]] # "absent"
        /\ pending' = [pending EXCEPT ![on[r]] = "code"]
        /\ Return(r)
        /\ UNCHANGED row
     \/ FailOnboarding(r)
  /\ UNCHANGED <<secret, telegram, known, runtime, todo, serving, mishaps, history>>

\* Telegram has room for one more session (the bound), beside those that are
\* about to be stored.
MayIssue == issued + Cardinality({r \in Requests : step[r] = "store"}) < MaxSessions

\* submitCode() and submitPassword(): Telegram accepts, asks for the password
\* after a code, or refuses.
Submits(r) ==
  \/ Onboarding(r, "code") /\ pending[on[r]] # "none"
  \/ Onboarding(r, "password") /\ pending[on[r]] = "password"

Submit(r) ==
  /\ \/ /\ Submits(r) /\ MayIssue
        /\ GoTo(r, "store")
        /\ UNCHANGED <<row, pending>>
     \/ /\ Submits(r) /\ op[r] = "code"
        /\ pending' = [pending EXCEPT ![on[r]] = "password"]
        /\ Return(r)
        /\ UNCHANGED row
     \/ Submits(r) /\ FailOnboarding(r)
     \/ /\ Onboarding(r, "code") \/ Onboarding(r, "password")
        /\ ~Submits(r)
        /\ Throw(r)
        /\ UNCHANGED <<row, pending>>
  /\ UNCHANGED <<secret, telegram, known, runtime, todo, serving, mishaps, history>>

NewSession(a) ==
  /\ issued' = issued + 1
  /\ secret' = [secret EXCEPT ![a] = issued']

\* complete(): secrets.put(), setState("disconnected"), disconnect().
StoreSession(r) ==
  /\ step[r] = "store"
  /\ NewSession(on[r])
  /\ GoTo(r, "mark")
  /\ UNCHANGED <<row, revoked, known, runtime, pending, todo, serving, mishaps, history>>

MarkAuthorized(r) ==
  /\ step[r] = "mark"
  /\ SetState(on[r], "disconnected")
  /\ GoTo(r, "finish")
  /\ UNCHANGED <<secret, telegram, known, runtime, pending, todo, serving, mishaps,
                 history>>

FinishOnboarding(r) ==
  /\ step[r] = "finish"
  /\ \/ /\ pending' = [pending EXCEPT ![on[r]] = "none"]
        /\ Return(r)
        /\ UNCHANGED <<row, mishaps>>
     \/ Mishap("hangup") /\ FailOnboarding(r)
  /\ UNCHANGED <<secret, telegram, known, runtime, todo, serving, history>>

\* Outside the try block of startLocked() the error is passed on; inside the
\* others fail() runs.  Taking the secret back fails when the row was inserted.
OnboardingFails(r) ==
  /\ Mishap("statement")
  /\ LET a == on[r] IN
       \/ /\ Onboarding(r, "register")
          /\ UNCHANGED secret \/ secret' = [secret EXCEPT ![a] = Unauthorized]
          /\ Throw(r)
          /\ UNCHANGED <<row, issued, pending>>
       \/ /\ step[r] = "insert"
          /\ \/ row' = [row EXCEPT ![a] = "connecting"] /\ UNCHANGED secret
             \/ secret' = [secret EXCEPT ![a] = NoSession] /\ UNCHANGED row
          /\ Throw(r)
          /\ UNCHANGED <<issued, pending>>
       \/ /\ Onboarding(r, "start") /\ pending[a] = "none" /\ row[a] # "absent"
          /\ UNCHANGED row \/ SetState(a, "connecting")
          /\ Throw(r)
          /\ UNCHANGED <<secret, issued, pending>>
       \/ /\ step[r] = "store"
          /\ UNCHANGED <<secret, issued>> \/ NewSession(a)
          /\ FailOnboarding(r)
       \/ step[r] = "mark" /\ FailOnboarding(r) /\ UNCHANGED <<secret, issued>>
  /\ UNCHANGED <<revoked, known, runtime, todo, serving, history>>

(***************************************************************************)
(* AccountManagementService.create(): no executor, and the secret stays when *)
(* the insert fails: because of the foreign key, when the secret was deleted  *)
(* meanwhile, or because another account has the number.                    *)
(***************************************************************************)
PutCredentials(r) ==
  /\ step[r] = "put"
  /\ \/ secret' = [secret EXCEPT ![on[r]] = Unauthorized] /\ UNCHANGED issued
     \/ MayIssue /\ NewSession(on[r])
  /\ erased' = erased \ {on[r]}
  /\ GoTo(r, "upsert")
  /\ UNCHANGED <<row, revoked, known, runtime, pending, todo, serving, mishaps, stopped>>

UpsertAccount(r) ==
  /\ step[r] = "upsert"
  /\ \/ /\ secret[on[r]] # NoSession
        /\ row' = [row EXCEPT ![on[r]] = "disconnected"]
     \/ UNCHANGED row
  /\ Return(r)
  /\ UNCHANGED <<secret, telegram, known, runtime, pending, todo, serving, mishaps,
                 history>>

(***************************************************************************)
(* The process and its surroundings.                                        *)
(***************************************************************************)
Crash ==
  /\ step[Supervisor] # "down"
  /\ Mishap("crash")
  /\ adapter' = [a \in Accounts |-> NoSession]
  /\ online' = [a \in Accounts |-> FALSE]
  /\ clients' = [a \in Accounts |-> 0]
  /\ backoff' = [a \in Accounts |-> FALSE]
  /\ pending' = [a \in Accounts |-> "none"]
  /\ supQueue' = [a \in Accounts |-> <<>>]
  /\ onbQueue' = [a \in Accounts |-> <<>>]
  /\ todo' = {}
  /\ serving' = FALSE
  /\ step' = [p \in Processes |-> IF p = Supervisor THEN "down" ELSE "idle"]
  /\ op' = [p \in Processes |-> IF p = Supervisor THEN "reconcile" ELSE "none"]
  /\ on' = [p \in Processes |-> NoAccount]
  /\ seen' = [p \in Processes |-> "none"]
  /\ UNCHANGED <<tables, telegram, known, history>>

Restart ==
  /\ step[Supervisor] = "down"
  /\ GoTo(Supervisor, "sleeping")
  /\ UNCHANGED <<tables, telegram, known, runtime, pending, todo, serving, mishaps,
                 history>>

BackoffEnds(a) ==
  /\ backoff[a]
  /\ backoff' = [backoff EXCEPT ![a] = FALSE]
  /\ UNCHANGED <<tables, telegram, known, adapter, online, clients, pending, locks, todo,
                 serving, procs, mishaps, history>>

\* autoReconnect is off: a lost connection stays lost.
Drop(a) ==
  /\ online[a]
  /\ Mishap("drop")
  /\ online' = [online EXCEPT ![a] = FALSE]
  /\ UNCHANGED <<tables, telegram, known, adapter, clients, backoff, pending, locks,
                 todo, serving, procs, history>>

Revoke(s) ==
  /\ s \in 1..issued \ revoked
  /\ Mishap("revoke")
  /\ revoked' = revoked \cup {s}
  /\ UNCHANGED <<tables, issued, known, runtime, pending, locks, todo, serving, procs,
                 history>>

-----------------------------------------------------------------------------
EnsureStep(p) ==
  \/ EnsureRead(p) \/ EnsureDecide(p) \/ EnsureCreate(p)
  \/ EnsureDial(p) \/ EnsureConnected(p) \/ EnsureFailed(p)

SupervisorStep ==
  \/ ListEnabled \/ PassEnds
  \/ \E a \in Accounts : PickAccount(a)
  \/ EnsureStep(Supervisor)

RequestStep(r) ==
  \/ EnsureStep(r)
  \/ CancelOnboarding(r) \/ StopAccount(r) \/ Unplug(r) \/ Erase(r)
  \/ Register(r) \/ InsertAccount(r) \/ StartAgain(r) \/ BeginAuthorization(r)
  \/ Submit(r) \/ StoreSession(r) \/ MarkAuthorized(r) \/ FinishOnboarding(r)
  \/ PutCredentials(r) \/ UpsertAccount(r)

StatementFails ==
  \/ ListFails
  \/ \E p \in Processes : EnsureFails(p)
  \/ \E r \in Requests : AdminFails(r) \/ OnboardingFails(r)

LifecycleNext ==
  \/ SupervisorStep
  \/ \E r \in Requests :
       \/ RequestStep(r)
       \/ \E o \in Operations, a \in Accounts : Ask(r, o, a)
  \/ StatementFails
  \/ Crash \/ Restart
  \/ \E a \in Accounts : BackoffEnds(a) \/ Drop(a)
  \/ \E s \in Sessions : Revoke(s)

LifecycleSpec == LifecycleInit /\ [][LifecycleNext]_vars

\* The event loop runs every process: each of its awaits is a query or a call with
\* a timeout.  A backoff ends, and the container is restarted.  Nobody needs to
\* ask for anything.
LifecycleFairness ==
  /\ WF_vars(SupervisorStep)
  /\ \A r \in Requests : WF_vars(RequestStep(r))
  /\ \A a \in Accounts : WF_vars(BackoffEnds(a))
  /\ WF_vars(Restart)

LifecycleFairSpec == LifecycleSpec /\ LifecycleFairness

-----------------------------------------------------------------------------
(***************************************************************************)
(* Properties.                                                              *)
(***************************************************************************)

Steps == {"sleeping", "next", "stopped", "down", "idle",
          "awaitOnb", "awaitSup", "decide", "create", "dial", "connected", "failed",
          "unplug", "erase", "insert", "begin", "store", "mark", "finish",
          "put", "upsert"}

\* The variables have their types; the registry knows no adapter that is online
\* without being registered.
LifecycleTypeOK ==
  /\ row \in [Accounts -> RowStates]
  /\ secret \in [Accounts -> Sessions \cup {NoSession, Unauthorized}]
  /\ issued \in 0..MaxSessions
  /\ revoked \subseteq Sessions
  /\ known \subseteq Accounts
  /\ adapter \in [Accounts -> Sessions \cup {NoSession}]
  /\ online \in [Accounts -> BOOLEAN]
  /\ clients \in [Accounts -> Nat]
  /\ pending \in [Accounts -> {"none", "code", "password"}]
  /\ backoff \in [Accounts -> BOOLEAN]
  /\ supQueue \in [Accounts -> Seq(Processes)]
  /\ onbQueue \in [Accounts -> Seq(Requests)]
  /\ todo \subseteq Accounts
  /\ serving \in BOOLEAN
  /\ step \in [Processes -> Steps]
  /\ op \in [Processes -> AllOperations \cup {"none", "reconcile"}]
  /\ on \in [Processes -> Accounts \cup {NoAccount}]
  /\ seen \in [Processes -> RowStates \cup {"none", "existing", "missing"}]
  /\ mishaps \in [MishapKinds -> Nat]
  /\ stopped \subseteq Accounts
  /\ erased \subseteq Accounts

Untroubled(kinds) == \A k \in kinds : mishaps[k] = 0

\* One adapter instance per account (docs/research.md:41): two tasks never both
\* create a client for the same session.  Only a disconnect() that failed leaves
\* a client behind.
OneClientPerAccount ==
  \A a \in Accounts : clients[a] <= 1 + mishaps["hangup"]

\* While the server answers requests, an account that the table calls connected
\* has an adapter that messages can be sent with, whatever was done to it.
ConnectedHasAdapter ==
  \A a \in Accounts :
    (serving /\ row[a] = "connected") => adapter[a] # NoSession

\* A disconnected account stays stopped across reconcile() passes, also across
\* one that had listed it before, until somebody asks to reconnect it.
StoppedStaysStopped ==
  \A a \in stopped :
    adapter[a] = NoSession /\ row[a] \notin {"connected", "error"}

\* Deleting an account leaves no secret behind, whatever onboarding, reconnect
\* or create was under way (src/src/domain/accounts.ts:27), and no authorization that
\* could still store one outlives the account's row.
DeletedLeavesNothing ==
  \A a \in Accounts :
    /\ a \in erased => secret[a] = NoSession
    /\ pending[a] # "none" => row[a] # "absent"

\* "connecting" is passed through: unless a crash, a failing statement or a
\* failing disconnect came between, somebody is at work on such an account, or
\* its authorization waits for a code.
WorkedOn(a) ==
  \E p \in Processes : on[p] = a /\ (Turn(supQueue, p) \/ Turn(onbQueue, p))
ConnectingIsPassing ==
  \A a \in Accounts :
    (row[a] = "connecting" /\ Untroubled({"crash", "statement", "hangup"}))
      => WorkedOn(a) \/ pending[a] # "none"

\* The steps inside a task of the supervisor's executor, and inside one of the
\* onboarding service's, which for a disconnect or a delete waits for the former.
SupSteps == {"awaitSup", "decide", "create", "dial", "connected", "failed", "unplug"}
OnbSteps == {"awaitOnb", "insert", "begin", "store", "mark", "finish",
             "awaitSup", "unplug", "erase"}

\* The executors cannot deadlock: whoever waits is queued, and the first of a queue
\* is a task of that account that has not ended.  It is at work, or it is a disconnect
\* or a delete that waits in the supervisor's queue, whose first is at work whatever
\* failed before (keyed-serial-executor.ts with adapter-runtime.ts:38 and
\* telegram-onboarding.ts:33).
ExecutorsAdvance ==
  /\ \A a \in Accounts :
       /\ supQueue[a] # <<>> =>
            LET p == Head(supQueue[a]) IN on[p] = a /\ step[p] \in SupSteps
       /\ onbQueue[a] # <<>> =>
            LET p == Head(onbQueue[a]) IN on[p] = a /\ step[p] \in OnbSteps
  /\ \A p \in Processes :
       /\ step[p] = "awaitSup" => p \in Range(supQueue[on[p]])
       /\ step[p] = "awaitOnb" => p \in Range(onbQueue[on[p]])

\* Every request is answered: the two executors never wait for each other.
RequestsAnswered ==
  \A r \in Requests : step[r] # "idle" ~> step[r] = "idle"

\* A connected account that loses its connection is online again, unless it was
\* stopped, deleted, logged out or is being authorized (docs/e2e-runbook.md:29).
AutoReconnect ==
  \A a \in Accounts :
    (row[a] = "connected") ~>
      \/ online[a]
      \/ row[a] \in {"absent", "disconnected", "reconnect_required"}
      \/ pending[a] # "none"

\* A connection is made with the session that is stored, so an account whose
\* session was revoked can be authorized again (docs/e2e-runbook.md:37).
ConnectsStoredSession ==
  [][\A p \in Processes :
       (step[p] = "create" /\ step'[p] = "dial") => adapter'[on[p]] = secret[on[p]]]_vars
=============================================================================
