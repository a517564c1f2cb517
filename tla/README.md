# The amoCRM messenger bridge in TLA+

The bridge receives webhooks of amoCRM and updates of Telegram accounts, stores each as a
row of a PostgreSQL job table, and delivers it to the other side from worker loops. These
modules model the parts of it in which order, failure and concurrency decide what happens
to a message; the code is under `src/`, and all paths below are relative to the repository.

## The system

| part | state | operations | talks to |
|---|---|---|---|
| Job queue (`src/queue/postgres-job-queue.ts`, table `jobs`) | one row per event: state, attempts, available_at, locked_by, locked_at, last_error, payload | enqueue, claim, heartbeat, complete, retry, deadLetter, recoverStale, requeueDead, cleanup | called by the webhook server, adapters, workers, operator, retention loop |
| Workers (`src/queue/worker.ts`, started by `src/server.ts`) | the job in hand, whether leases were recovered | start, pollOnce, heartbeat timer | the queue, the handlers |
| Retry policy (`worker.ts`, `src/http/http-error.ts`, `src/router/message-router.ts`) | none | retryDecision, retryable, isAmbiguousSend | workers, router |
| Outbound delivery (`src/router/message-router.ts`, `message_mappings`) | one row per message: delivery-unknown marker or provider id | routeAmoOutbound, reconcile, confirmNotAccepted | workers, adapter, amoCRM, operator |
| Inbound routing (same file, `conversation_mappings`) | conversation row, message rows | routeInbound, routeTelegramExternalOutbound | workers, amoCRM |
| Status tracking | status, status_at of a message | routeStatus, updateMessageStatus; nothing triggers them | workers, amoCRM |
| Account lifecycle (`src/runtime/*`, `messenger_accounts`) | account state, adapter registry, pending onboardings | reconcile, reconnect, disconnect, delete, code and QR onboarding | Telegram, secrets |
| amoCRM sources (`src/amocrm/source-reconciliation.ts`) | the sources in amoCRM, promises in flight | ensure, remove, reconcile | amoCRM |
| Telegram adapter (`src/adapters/telegram-adapter.ts`) | texts being sent, ids just sent | send, event handler, connect, disconnect | Telegram, the queue |
| OAuth tokens (`src/amocrm/oauth-token-provider.ts`) | token pair, refresh in flight | getAccessToken, exchange code | amoCRM, secrets |
| REST client (`src/amocrm/rest-client.ts`, `src/http/safe-http-client.ts`) | the read-only flag | request | amoCRM, the tokens |
| Webhook and admin server, clients, media, configuration | little or none | HTTP | everything |

What is hard here: several workers and HTTP handlers interleave at every `await`; a
statement may be applied although its answer is lost; the process may stop anywhere and
comes back with the same worker ids; a lease may run out under a live handler; the
provider cannot take part in a transaction, so whether it accepted a message may be
unknown; webhooks come twice and retention forgets what was seen.

What makes each part correct:

* queue: one row per event, order within a conversation, bounded attempts, payloads of
  runnable rows kept;
* workers: a statement settles only the attempt it belongs to, a job runs twice only after
  a lost lease, a job is completed only after its handler returned, every job settles;
* outbound: no automatic second send, whatever may have been accepted stays on record, and
  a parked job can be resolved;
* accounts: one client per account, a stopped account stays stopped, an onboarding and a
  deletion do not cross, a connection that is lost comes back, every request is answered;
* sources: one source per account, none left behind by a deletion, no foreign one touched;
* conversations: a part of a message is posted to amoCRM again only when nobody can know
  whether it was accepted, no part is left out, an own message does not come back as a
  foreign one, the link between the two sides is not lost;
* QR logins: a cancelled login stores nothing, no session without an account row;
* tokens: the stored refresh token stays usable, one refresh at a time, writes are not
  repeated.

## Modules

| module | models | state and actions in the code |
|---|---|---|
| `JobQueue` | the `jobs` table and its statements | one variable per column (functions from ids); one action per SQL statement. An INSERT is two actions because the id is drawn when the statement runs and the row appears when it commits |
| `RetryPolicy` | the error predicates | an error is a record of name, HTTP status and code, which is all these functions read |
| `DurableWorkers` | `start()` and `pollOnce()` of N workers, crash and restart | `phase[w]` is the position in the loop; `running` and `held` are `job.id` and `job.attempts`; extends `JobQueue` and uses its actions as the statements |
| `OutboundDelivery` | `routeAmoOutbound` as the handler, the `message_mappings` row, provider and operator | `step[w]` is the await the handler has reached; extends `DurableWorkers`, whose `HandlerReturns` and `HandlerThrows` end a handler |
| `AccountLifecycle` | `ReconnectSupervisor`, `AccountAdminService`, `TelegramOnboardingService`, `AccountManagementService` | `step[p]` is the await that the supervisor's loop or an admin request has reached; a `KeyedSerialExecutor` is a queue of processes per account whose head runs; `row` and `secret` are the tables, `adapter` the registry |
| `SourceReconciliation` | `AmoSourceReconciliationService` and the endpoints that create, remove and reconcile sources | `step[r]` as above; `pending` is `pendingSourceCreation`, and a request that finds an entry there waits in `join` or `await` for its promise; `sources` is what amoCRM lists |
| `ConversationRouting` | `routeInbound`, `routeTelegramExternalOutbound`, the event handler's echo filter, and what `routeAmoOutbound` writes about the conversation | `step` and `part` are the import's await and loop index, `copy` its `ConversationMapping`; `out[m]` and `outCopy[m]` are those of the sender of `m`; `row`, `imported` and `marker` are the two tables, `inFlightText` and `recentlySent` the adapter's memory |
| `QrOnboarding` | `TelegramQrOnboardingService` with the library's callbacks | `run[l]` is the await of `run()`, `state`, `cancelled` and `resolver` are the fields of the job |
| `OAuthTokens` | `request()` of the REST client, the token provider, `/oauth/callback` | `step[r]` is the await of a request, `got[r]` the pair it has read, `refresh` the promise `refreshing` and how far it is |
| `SingleFlight` | what a promise shared with `??=` and `finally`, alone or one per key, promises | abstract; `OAuthTokens` implements it with one key, `SourceReconciliation` with one per account |
| `MC…` | small instances | sets of model values and bounds |
| `…Proofs` | theorems | see Proofs |

Each module keeps the actions of the module below and adds its own conjuncts, and each
states that it implements that module (`ImplementsQueue`, `ImplementsPool`), so nothing
shown of the lower module is lost by the composition. `AccountLifecycle` and
`SourceReconciliation` share no state with these three but the account row: the first has
`state` and `credential_ref`, the second `amo_scope_id` and `source_external_id`. The
deletion of an account is one step of the second module and is described in the first.
One write crosses this line: the renaming of a legacy `source_external_id`
(`src/amocrm/source-reconciliation.ts:108`) upserts the whole row as it was read, `state`
and `last_error` included, so it may undo a state saved since. `AccountLifecycle` has no
such writer. It starts from an empty table, and every account this code creates gets an id
of its own that is never renamed (`src/runtime/account-management.ts:9`,
`src/runtime/telegram-onboarding.ts:21`), so its results say nothing of accounts that an
older version left behind. `SourceReconciliation` has legacy rows and the write-back of
the two columns it models. `ConversationRouting` stands on the queue as
`DurableWorkers` promises it while no lease is lost (one handler per partition, in order,
again after a crash) and has the steps of `OutboundDelivery` without the operator: what is
detailed there, when a marker blocks a second send, is a guard here, and what is one step
there, the lookups and their writes, is three here. `QrOnboarding` calls the supervisor of
`AccountLifecycle`, which succeeds or fails. `OAuthTokens` and
`SourceReconciliation` both implement `SingleFlight` (`RefreshIsShared`,
`CreationIsShared`): the run under way is `refresh` and `pending[a]`, and aboard is who
waits for the token refresh, or who is inside the creation of account `a` or waits for it.

Time is abstract. `available` says that `available_at` has passed and `leaseLive` that
`locked_at` is within the lease; one action each lets that time pass. An abandoned row's
lease may run out at any moment, one under a live handler only as a counted mishap,
because the heartbeat renews it three times per lease. Which rows retention takes is any
choice among the rows its WHERE clause allows.

A failing statement is one that was applied and whose answer was lost, or one that was
not applied. A failing heartbeat is no step: its error is swallowed.

History variables (such as `overtaken`, `acked`, `lapsed`, `unsure`, `unlinked`, `stranded`) only
record what happened, for the properties.

The definitions marked "Mutant of" are plausible mistakes in the code. None is used by
the specification; each shows, when put in place of the definition it follows, that a
property notices it.

## Runs

| run | question | bounds |
|---|---|---|
| `queue` | does the table keep its promises under any callers? | two workers, three ids, two events of one conversation and a redelivery of one with another body, two attempts |
| `workers` | do the workers, with one crash, one failing statement, one lapsed lease and one requeue, settle only their own attempt? Do they implement the queue? | two workers, two ids of one conversation, two attempts |
| `workers_restart` | does every job settle without mishaps, and also every abandoned one, if restarts are slower than the lease? | the same, at most two crashes |
| `workers_reaper` | does it also if restarts are quicker? (no: finding 1) | one id, two crashes |
| `outbound` | is a message sent twice, dropped, forgotten or sent out of order? Does the router implement the workers? | two messages of one conversation, two ids (one each, or a redelivery after retention), two workers, two attempts, at most two accepted sends; any two different mishaps around one message, one around both |
| `accounts` | does any pair of requests, beside the supervisor, break an account, or block an executor? | one account, two requests of every operation, two sessions, one mishap of any kind |
| `accounts_live` | are requests answered and lost connections restored? | the same without 2FA, one session, two mishaps of the network |
| `accounts_reauthorize` | is an account connected with the session that is stored? (no: finding 2) | one request, two sessions, one revoked |
| `sources` | does an account get one source, and lose it when it is deleted? Is its promise a single flight? | one account, three requests of every operation, two failing calls or crashes, twelve sources (never reached) |
| `tokens` | can the stored pair always be refreshed, who is refused, is a write repeated? Is the shared promise a single flight? | a read, a write and a write of the source client, every configuration of the two flags, three pairs, two failing calls, lost answers or crashes |
| `qr` | does a cancelled login leave anything behind, does every session have its row, does a cancelled run end? | two logins of one phone for one amoCRM account, a code and its renewal for each, one failure or crash, another way to register the phone |
| `routing` | is a part posted twice or left out, an echo imported, the chat or peer forgotten? | an inbound message with two attachments, of which amoCRM's answer names the chat for the second only, two messages with the same text from two amoCRM chats and their echoes, two failing calls or crashes, two acceptances counted per part |

Why these bounds are enough: the guards of the queue compare two rows (an earlier one and
this one, a twin and this one), so three ids give a pair and a bystander; two workers are
the least that can contend for a row; two attempts give a first, a last and, with a
requeue, a reset; a mishap of each kind once gives every pair of different mishaps (in
`outbound` for one message; with the second message there is one mishap, which meets every
order of the two). The
theorems lift the safety results to every bound. An account's rows, executors and adapter
never meet those of another account (only the supervisor's list does, in one fixed order),
so one account is enough for `accounts`; two requests and the supervisor are the three
parties an interleaving can have. `accounts` also passes with two mishaps (7 million
states) and `sources` with two accounts and two requests (8.6 million); the smaller bounds
keep the runs short. In `routing` the import and two senders are every kind of writer a
conversation has, two parts give a first and a last, and two own messages of one text are
what the echo filter can confuse; a message the owner types takes the same path as an echo
that the filter let through, so the set `Typed` is empty there. In `tokens` one request
starts the refresh, one joins it and one can be overtaken; one exchange runs at a time. In
`qr` `cancel()` is called once per login, because a second call changes nothing but the
text of a job that has ended since.

Workers and requests are symmetric, and the safety runs use that. Liveness runs use no symmetry.

## Fairness

`FairSpec` of `DurableWorkers` assumes that a worker that can take a step of its loop
takes one (`WF` of `WorkerStep(w)`: the event loop runs every promise, and a handler ends
because each of its I/O operations has a timeout), that a lease nobody renews runs out
and a retry's delay ends (timers of the database clock), that an INSERT is answered, and
that the container is restarted (`restart: unless-stopped` in `docker-compose.yml`). No
fairness is assumed of callers, the operator, retention or any mishap. Without mishaps
`EveryJobSettles` holds: attempts are bounded, so retries end, and the earliest
unfinished row of a conversation is never held back.

`LifecycleFairness` assumes that the supervisor and every admin request take their next
step (each await is a query or a call with a timeout), that a backoff ends and that the
process is restarted. Nobody is assumed to ask for anything, and no mishap to happen.

`QrSpec` assumes that the run's own calls and statements end (`WF` of `RunStep(l)`; each has
a timeout or a pool's query limit) and that the library gives a sign-in up once `cancel()`
has disconnected its client or answered its password question with an empty string. Nobody
has to scan a code or enter a password. `TokensSpec` and `RoutingSpec` are checked for
safety only and assume no fairness.

## Findings

1. `workers_reaper`: `recoverStale()` runs when a worker starts and after an
   infrastructure failure, not periodically (`src/queue/worker.ts:42`). If the process
   crashes during a handler and is back before the lease has run out, the row is not stale
   yet when the workers look, and they do not look again: it stays `processing`, and so
   does everything behind it in its conversation, until an unrelated failure or a later
   restart. `docs/architecture.md:28` promises that the reaper returns abandoned jobs
   after a crash or restart. Run `workers_restart` shows that the promise holds exactly
   when the restart is slower than the lease.
2. `accounts_reauthorize`: an adapter that is registered keeps the session it was created
   with (`existing ?? factory.create`), so an account that was authorized again after its
   session was revoked is connected with the revoked one until it is disconnected or the
   process restarts; `docs/e2e-runbook.md:37` requires revoked-session recovery.

Other weaknesses show in what a property has to exclude:

* A job that is dead with `DeliveryUnknownError` can lose the marker that both ways of
  resolving it need (`docs/e2e-runbook.md:39`): worker 1 saves the marker and loses its
  lease; worker 2 is given the job, finds the marker and dead-letters it; then the send of
  worker 1 fails unambiguously and it deletes the marker
  (`src/router/message-router.ts:93`). `UnresolvedIsOnRecord` shows that a lost lease is
  the only way there.
* The supervisor writes `connecting` before it connects
  (`src/runtime/adapter-runtime.ts:40`), and the list it works through holds `connected`
  and `error` only (`src/storage/account-repository.ts:11`). A crash in between leaves the
  account offline until an operator reconnects it. One failing statement in a pass ends the
  supervisor's loop, which `src/server.ts:32` only logs. `AutoReconnect` therefore holds
  with network mishaps only, and `ConnectingIsPassing` names the exceptions.
* A reconnect between the two halves of a deletion leaves the adapter of an account that no
  longer exists (`src/runtime/account-admin.ts:57`).
* `POST /admin/amocrm/sources/reconcile` does not share the promise of
  `ensureForAccount()`, so the two together may create two sources, which both then refuse
  to choose from, and its renaming of legacy ids may undo a scope, and either renaming a state, saved since.
* An import posts a part before it saves the part's row and saves the conversation last. A
  handler that ends in between posts the part again (`unsure`); one that ends between a
  part's row and the conversation's leaves the conversation without its amoCRM chat,
  because the retry skips the part and with it the answer that names the chat
  (`unlinked`, `src/router/message-router.ts:28`). An answer without a chat is tolerated as
  well (`Unnamed`); then the conversation learns its chat from a later part or message.
* A send that takes longer than the echo delay of 1400 ms, or that is given up while
  Telegram still accepts it, comes back as a message of the owner (`slow`, `gaveUp`), and
  its own record then violates the unique key.
* An import and a sender that read the conversation before the other wrote it write the
  older chat back (`stale`); the peer is protected by `COALESCE`.
* A caller of `getAccessToken()` that has read the pair just before another refresh stored
  the next one starts a second refresh with a used refresh token and is refused. A lost
  answer of amoCRM, a failing put or a crash between the two leaves a stored refresh token
  that is used up, and only a new authorization helps
  (`src/amocrm/oauth-token-provider.ts:18`).
* A code that is being rendered when `cancel()` is called is shown afterwards: the page's
  state goes from `cancelled` back to `qr` until the run ends
  (`src/runtime/qr-onboarding.ts:56`).

## Proofs

All theorems hold for every set of workers, accounts and requests, every `MaxJobs`,
`MaxAttempts` and bound on mishaps, from the assumptions `QueueAssumption`,
`PoolAssumption`, `OutboundAssumption`, `SourcesAssumption`, `TokensAssumption`,
`RoutingAssumption`, `QrAssumption` and `LifecycleAssumption` (the bounds are numbers, the
null values are not members, the accounts of `SourceReconciliation` and the requests of
`AccountLifecycle` are finitely many, the handler's errors include those of its parts).

* `JobQueueProofs`: the types and `AttemptBudget` together are nearly inductive.
  `QueueInv` adds that rows outside the table have no attempts and that ids not drawn yet
  have no row: without the first a new row could start with attempts left over, without
  the second an INSERT could hit an existing row. `PartitionOrder` is inductive given
  `FreshIds`. For `DedupeSound` the extra invariant says that a row that is still in the
  table holds the request it was acknowledged for. `RunnableHasPayload` needs that only
  settled rows are pruned and that a completed row leaves the table but never its state.
* `DurableWorkersProofs`: `WorkerInv` ties each phase to the worker's variables; with it
  every step of the workers is a step of the queue, which proves `ImplementsQueue`, and
  the four queue invariants follow for the workers. `SettledAttemptIsOwn` and
  `HandlersAreExclusive` need `LapseIsKnown`:
  while a worker believes it runs a job, either it still holds the row, or its lease ran
  out under it, or the row is completed or deleted and so is never handed out again.
  `UnknownStaysParked` uses that `WillRetry` excludes `DeliveryUnknownError`;
  `CompletedOnlyHandled` that `complete()` comes only after the handler returned.
* `OutboundDeliveryProofs`: each step of the router is a step of the workers or changes
  nothing they see. The extra invariant says that the error rethrown after the marker was
  cleared is a refusal of `adapter.send`. All safety properties of the module follow from
  what the queue and the workers promise (`PoolFacts`), which `DeliveryKeepsPoolPromises`
  states for the composition: `HandlingHolds` (a running handler
  holds its row or the lease was lost) and `DedupeSound` give `OneRow` and `OneHandler`, so
  while no lease of a message was lost its marker follows one handler (`MarkerFollows`):
  no row until it is about to send, the marker until the send is known to have failed, no
  send while the last one is in doubt. `ParkedInv` adds that a verdict of unknown delivery
  is on its way only with the row left behind, `CompletedInv` that a handler returns only
  for a recorded or rejected message; this last one needs no lease. The proof rests on
  `OutboundAssumption`: the lookups and the store never raise `DeliveryUnknownError`, which
  in the code only the router constructs. `DoubtIsNotResent` is the marker's invariant seen
  from the provider: a message in doubt is not given to it again. `ConversationsAreSentInOrder`
  joins three parts: only a worker at its send gives the provider a message
  (`OnlySendsAreAccepted`), that worker holds the message's row (`OneRow`), and a row that
  is held has no unsettled earlier row in its partition (`PartitionOrder`).
* `SourceReconciliationProofs`: all safety properties of the module. `Follows(r)` states
  once what a step of request `r` may do to the other requests, the shared promises, the
  rows and amoCRM; `RequestFollows`, `AskFollows` and `FailFollows` prove it action by
  action, and the invariants use nothing else of the actions. `EnsureAddsOne` needs
  `LeadInv` (whoever is inside `ensureForAccountLocked()` is the request of the shared
  promise, so there is one) and `NoneYet` (at its POST the account has no source made this
  way). `DeletedLeavesNoSource` needs that no creation runs next to a deletion that has
  looked for one (`Alone`), that the source found is all there is and that after its
  removal there is none (`Emptied`), and that a creation for an account that is gone stops
  at its first read (`GoneStays`): without the last, a creation between its reading and its
  POST could outlive the row. `ForeignSourceKept` and `EnsureKeepsScope` rest on what a
  request has read: its source is ours, its row has a scope. `CreationsAreShared` is the
  refinement of `SingleFlight`. It needs the converse of `LeadInv` (`PromiseInv`: a promise
  belongs to a request that is inside the creation of its account, and whoever waits, waits
  for a promise); `Meets(r)` lists the four ways in which a step meets the promises: outside,
  inside, entering, settling. A settling leader ends the flight of its account for
  everybody in it (`CreationLands`), any other request is not aboard (`CreationPassedBy`).
* `OAuthTokensProofs`: all safety properties and the refinement. `PairInv` numbers the pairs:
  the pair of a refresh or an exchange is newer than any that was read and unused
  (`RefreshedIsNew`, `ExchangedIsNew`), a used pair is no longer stored unless its
  successor is about to be put or was lost, and whoever still holds one was overtaken
  (`SpentIsOvertaken`). `WriteInv` follows a write to its one transport call.
  `RefreshesAreShared` needs `WaitInv`: a request waits only while there is a refresh.
* `ConversationRoutingProofs`: all safety properties and `LinkKept`, from `RoutingInv`.
  `JobsInv` says that a message is one job, so a part is at work in one place; `PostInv`
  that an acceptance is followed by its row or a history mark; `LoopInv` that the parts
  before the one at work have rows; `SenderInv` ties an own message's row to its sender;
  `EchoInv` carries the reason for importing an own message from the wait to its row;
  `LinkInv` says where the chat an answer of amoCRM named is until it is saved, and that a copy
  that is not old agrees with the row. `SenderFrame` and `ImportFrame` state what the two
  sides leave alone.
* `QrOnboardingProofs`: both safety properties, from `QrInv`. `CancelInv` says that a
  password promise waits exactly while the run waits for it, and that a login cancelled
  while signing in never gets past the sign-in; `SavedInv` that how far a run is says
  whether its session and its row exist; `IdentityInv` that a run which writes a row knows
  who signed in. `OneLogin` states that a step of one login leaves the others alone.

* `AccountLifecycleProofs`: all safety properties. `ProcInv` says where the executors are
  held: a process inside a task is the first of its queue, hence (`OneInside`) one process
  per account is inside `ensure()` or `disconnectAccount()`, and one inside an operation of
  the onboarding service. `Moved` proves it for any step that moves one process, and
  `EnsureWalk`, `StoppingWalk`, `OnboardingWalk` and `CreateWalk` say where a process may go.
  `StopInv` adds that nobody is inside `ensure()` for a stopped account and that the row is
  marked while the adapter is being removed; `ClientInv` that an adapter is missing exactly
  when `ensure()` decided to create one, and is there when it dials. `ConnectedInv` is about
  start-up: as long as HTTP is closed, an account that is connected in the table and has no
  adapter is still to be visited by the first pass and has no backoff. `DeletedInv` needs
  that a registration is alone in the queue of its new id, and that a deletion which has
  cancelled the authorization finds none again. `ConnectingInv` names who leaves
  `connecting` again: whoever wrote it, or a deletion or disconnect that cancelled the
  authorization. Each of them has a frame lemma (`StopFrame`, `ClientMoves`, `DeletedMoves`,
  `ConnectingMoves`) that says which steps it tolerates. `ExecutorsNeverBlock` says that
  the executors cannot deadlock, although a disconnect waits in the supervisor's queue while
  it is the first of the onboarding's. `QueuesOK` is its invariant: a queue holds, each
  once, exactly the tasks of its account that wait for the executor or are inside it; who is
  inside is first (`ProcInv`), and `AppendLined` and `TailLined` say what joining and
  leaving do.

The types of `JobQueue`, `OutboundDelivery`, `SourceReconciliation`, `OAuthTokens`,
`ConversationRouting` and `QrOnboarding` are proved (`QueueTypeCorrect`, `DeliveryType`,
`SourcesTypeCorrect`, `TokensType`, `RoutingType`, `QrType`) and need no run, and
neither do those of `AccountLifecycle` (`LifecycleTypesHold`), with the bound on sessions.
`CompletedWasHandled` and `ForeignSourceKept` are theorems without a run as well: the
first is the lower half of `CompletedWasDelivered`, the second a consequence of one filter.

Every safety property and refinement that a run checks is also a theorem. Only
model-checked: liveness (`EveryJobSettles`, `CancelEndsRun`, `RequestsAnswered` and
`AutoReconnect`), which rests on fairness and is out of the prover's reach;
`ExecutorsNeverBlock` is the safety half of `RequestsAnswered`. The two findings are
counterexamples of TLC.

## Not modelled

* Wording, logging, metrics, HTTP details, authentication and rate limits.
* Delays of backoff and jitter: only that a delay ends.
* The order of `ORDER BY available_at`: the model lets any claimable row be chosen.
* The lookups of `routeAmoOutbound` before the send are one step with three results; the
  writes they make to `conversation_mappings` are in `ConversationRouting`.
* The status push after a send: Telegram's adapter always answers `sent`, for which
  nothing is pushed.
* Graceful shutdown is a crash of workers that are between two steps.
* Status tracking: `AdapterFactory` gives each adapter a handler for status changes
  (`src/runtime/adapter-runtime.ts:23`), but no adapter calls it, so no status job exists.
* The media pipeline (download, scan, upload) and start-up code: I/O without a protocol. Its
  failures are failing calls of the routers.
* Contact columns, profiles and timestamps of a conversation: nothing reads them to decide
  what happens to a message in flight. The router accepts any number of attachments, the
  Telegram adapter makes at most one; the model follows the router.
* Conversion of Telegram entities in the event handler: an update that fails to convert is
  one that never becomes a job.
* Resending a code; the state `disabled`,
  which no code writes; accounts of WhatsApp and MAX, which cannot be created.
* The number of failures of an account: it only sets the length of the backoff.
* The name of a source and the page size of the listing.
* A call that is carried out only after the client has given it up: a POST that fails is
  accepted before its failure is seen or never (sources, routing). Telegram's late
  acceptance of a send is modelled in `ConversationRouting` (`gaveUp`).
* Two processes over one database: `docker-compose.yml` runs one.

## Plan

Done: the queue, the workers, outbound delivery, accounts, sources, tokens, QR logins and
conversations, the proofs of all their safety properties and of the four refinements
(workers to queue, delivery to workers, tokens and sources to single flight). What is left is what the prover cannot
reach (liveness) and what "Not modelled" lists.
