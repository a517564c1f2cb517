----------------------------- MODULE OAuthTokens -----------------------------
(***************************************************************************)
(* The amoCRM REST client and its tokens: request() of the REST client      *)
(* (src/src/amocrm/rest-client.ts), the token provider whose refresh is     *)
(* shared (src/src/amocrm/oauth-token-provider.ts), the retries of          *)
(* src/src/http/safe-http-client.ts and the code exchange of                *)
(* /oauth/callback (src/src/webhooks/server.ts).                            *)
(*                                                                          *)
(* Token pairs are numbered in the order amoCRM issues them.  amoCRM is     *)
(* external: a refresh token buys one new pair and is refused afterwards.   *)
(***************************************************************************)
EXTENDS Naturals, FiniteSets

CONSTANTS
  Requests,        \* REST requests, each made once
  Reads,           \* those with the method GET
  SourceRequests,  \* those of the source reconciliation's client
  MaxIssued,       \* bound: token pairs amoCRM issues
  MaxMishaps,      \* bound: failing calls, lost answers and crashes
  NoRequest

ASSUME TokensAssumption ==
  /\ Reads \subseteq Requests
  /\ SourceRequests \subseteq Requests
  /\ MaxIssued \in Nat \ {0}
  /\ MaxMishaps \in Nat
  /\ NoRequest \notin Requests

VARIABLES
  writes,         \* AMOCRM_WRITES_ENABLED
  sourceWrites,   \* AMOCRM_SOURCES_WRITES_ENABLED
  stored,         \* the pair in the secret store, 0 when there is none
  issued,         \* pairs issued so far
  fresh,          \* pairs whose access token is more than a minute from expiry
  used,           \* pairs whose refresh token has bought a successor
  step,           \* how far a request is: idle, get, have, wait, send, done, failed
  got,            \* the pair a request has read, until it goes on
  retries,        \* how often its transport call was repeated
  handled,        \* how often amoCRM handled it
  refresh,        \* the refresh under way: its starter, pair and progress
  exchange,       \* a pair bought with a code and not stored yet, 0 when none
  mishaps,
  lost,           \* history: a pair that replaced the stored one was lost
  overtaken,      \* history: requests that held a pair when another was stored
  refused         \* history: requests whose refresh amoCRM refused

config == <<writes, sourceWrites>>
tokens == <<stored, issued, fresh, used>>
calls == <<step, got, retries, handled>>
history == <<mishaps, lost, overtaken, refused>>
tokenVars == <<config, tokens, calls, refresh, exchange, history>>

NoRefresh == [by |-> NoRequest, old |-> 0, new |-> 0, at |-> "none"]
Steps == {"idle", "get", "have", "wait", "send", "done", "failed"}

ReadOnly(r) == ~writes /\ ~(r \in SourceRequests /\ sourceWrites)
WritesAllowed == writes \/ sourceWrites

TokensInit ==
  /\ writes \in BOOLEAN
  /\ sourceWrites \in BOOLEAN
  /\ stored \in {0, 1}
  /\ issued = stored
  /\ fresh \in SUBSET {p \in {1} : p = stored}
  /\ used = {}
  /\ step = [r \in Requests |-> "idle"]
  /\ got = [r \in Requests |-> 0]
  /\ retries = [r \in Requests |-> 0]
  /\ handled = [r \in Requests |-> 0]
  /\ refresh = NoRefresh
  /\ exchange = 0
  /\ mishaps = 0
  /\ lost = FALSE
  /\ overtaken = {}
  /\ refused = {}

GoTo(r, s) == step' = [step EXCEPT ![r] = s]
Mishap == mishaps < MaxMishaps /\ mishaps' = mishaps + 1

\* Everybody who waits for the refresh goes on to s.
Settle(s) ==
  /\ step' = [r \in Requests |-> IF step[r] = "wait" THEN s ELSE step[r]]
  /\ refresh' = NoRefresh
  /\ UNCHANGED <<got, retries, handled>>

(***************************************************************************)
(* request(): the read-only guard comes before the token provider.          *)
(***************************************************************************)
Request(r) ==
  /\ step[r] = "idle"
  /\ IF ReadOnly(r) /\ r \notin Reads THEN GoTo(r, "failed") ELSE GoTo(r, "get")
  /\ UNCHANGED <<config, tokens, got, retries, handled, refresh, exchange, history>>

\* required(): the secret is read; the caller goes on when it is scheduled again.
ReadTokens(r) ==
  /\ step[r] = "get"
  /\ IF stored = 0 THEN GoTo(r, "failed") ELSE GoTo(r, "have")
  /\ got' = [got EXCEPT ![r] = stored]
  /\ UNCHANGED <<config, tokens, retries, handled, refresh, exchange, history>>

Forget(r) == got' = [got EXCEPT ![r] = 0]

\* The rest of getAccessToken(), in one turn of the event loop.
UseFreshToken(r) ==
  /\ step[r] = "have"
  /\ got[r] \in fresh
  /\ GoTo(r, "send")
  /\ Forget(r)
  /\ UNCHANGED <<config, tokens, retries, handled, refresh, exchange, history>>

RefuseRefresh(r) ==
  /\ step[r] = "have"
  /\ got[r] \notin fresh
  /\ ~WritesAllowed
  /\ GoTo(r, "failed")
  /\ Forget(r)
  /\ UNCHANGED <<config, tokens, retries, handled, refresh, exchange, history>>

NewRefresh(r) ==
  refresh' = [by |-> r, old |-> got[r], new |-> 0, at |-> "post"]

\* Mutant of JoinRefresh: every caller starts a refresh of its own.
JoinNothing(r) ==
  /\ step[r] = "have"
  /\ got[r] \notin fresh
  /\ WritesAllowed
  /\ NewRefresh(r)
  /\ GoTo(r, "wait")
  /\ Forget(r)
  /\ UNCHANGED <<config, tokens, retries, handled, exchange, history>>

JoinRefresh(r) ==
  /\ step[r] = "have"
  /\ got[r] \notin fresh
  /\ WritesAllowed
  /\ IF refresh.at = "none" THEN NewRefresh(r) ELSE UNCHANGED refresh
  /\ GoTo(r, "wait")
  /\ Forget(r)
  /\ UNCHANGED <<config, tokens, retries, handled, exchange, history>>

(***************************************************************************)
(* refresh(): the POST, the new pair put into the secret store, and the     *)
(* turn in which finally() clears the promise and the callers go on.        *)
(***************************************************************************)
Issue == issued < MaxIssued /\ issued' = issued + 1 /\ fresh' = fresh \cup {issued'}

RefreshGranted ==
  /\ refresh.at = "post"
  /\ refresh.old \notin used
  /\ Issue
  /\ used' = used \cup {refresh.old}
  /\ refresh' = [refresh EXCEPT !.new = issued', !.at = "put"]
  /\ UNCHANGED <<config, stored, calls, exchange, history>>

RefreshRefused ==
  /\ refresh.at = "post"
  /\ refresh.old \in used
  /\ Settle("failed")
  /\ refused' = refused \cup {refresh.by}
  /\ UNCHANGED <<config, tokens, exchange, mishaps, lost, overtaken>>

\* Everyone who has read the secret and not yet gone on now holds an old pair.
Overtake == overtaken' = overtaken \cup {r \in Requests : step[r] = "have"}

\* Mutant of RefreshStored: the new pair is used but not put.
RefreshKept ==
  /\ refresh.at = "put"
  /\ refresh' = [refresh EXCEPT !.at = "stored"]
  /\ Overtake
  /\ UNCHANGED <<config, tokens, calls, exchange, mishaps, lost, refused>>

RefreshStored ==
  /\ refresh.at = "put"
  /\ stored' = refresh.new
  /\ refresh' = [refresh EXCEPT !.at = "stored"]
  /\ Overtake
  /\ UNCHANGED <<config, issued, fresh, used, calls, exchange, mishaps, lost, refused>>

RefreshLands ==
  /\ refresh.at = "stored"
  /\ Settle("send")
  /\ UNCHANGED <<config, tokens, exchange, history>>

\* The POST fails or times out before or after amoCRM has issued the pair; the
\* put fails, before or after it was applied.  Whoever waits gets the error.
PostFails ==
  /\ refresh.at = "post"
  /\ \/ UNCHANGED <<tokens, lost>>
     \/ refresh.old \notin used /\ Issue
          /\ used' = used \cup {refresh.old} /\ lost' = TRUE /\ UNCHANGED stored
  /\ UNCHANGED overtaken

PutFails ==
  /\ refresh.at = "put"
  /\ \/ lost' = TRUE /\ UNCHANGED <<stored, overtaken>>
     \/ stored' = refresh.new /\ Overtake /\ UNCHANGED lost
  /\ UNCHANGED <<issued, fresh, used>>

RefreshFails ==
  /\ Mishap
  /\ PostFails \/ PutFails
  /\ Settle("failed")
  /\ UNCHANGED <<config, exchange, refused>>

(***************************************************************************)
(* GET /oauth/callback: the code is exchanged and the pair put, whatever    *)
(* the configuration says about writes.  One exchange at a time is a bound  *)
(* of the model.                                                            *)
(***************************************************************************)
ExchangeCode ==
  /\ exchange = 0
  /\ Issue
  /\ exchange' = issued'
  /\ UNCHANGED <<config, stored, used, calls, refresh, history>>

StoreExchanged ==
  /\ exchange # 0
  /\ stored' = exchange
  /\ exchange' = 0
  /\ Overtake
  /\ UNCHANGED <<config, issued, fresh, used, calls, refresh, mishaps, lost, refused>>

ExchangeFails ==
  /\ exchange # 0
  /\ Mishap
  /\ exchange' = 0
  /\ UNCHANGED <<config, tokens, calls, refresh, lost, overtaken, refused>>

(***************************************************************************)
(* SafeHttpClient.request(): a network failure or timeout repeats a GET at  *)
(* most twice; a response of any status ends the request.                   *)
(***************************************************************************)
Handle(r) == handled' = [handled EXCEPT ![r] = @ + 1]

Respond(r) ==
  /\ step[r] = "send"
  /\ Handle(r)
  /\ GoTo(r, "done")
  /\ UNCHANGED <<config, tokens, got, retries, refresh, exchange, history>>

\* Mutant of TransportFails: writes are repeated too.
TransportFailsAnyMethod(r) ==
  /\ step[r] = "send"
  /\ Mishap
  /\ Handle(r) \/ UNCHANGED handled
  /\ IF retries[r] < 2
     THEN retries' = [retries EXCEPT ![r] = @ + 1] /\ UNCHANGED step
     ELSE GoTo(r, "failed") /\ UNCHANGED retries
  /\ UNCHANGED <<config, tokens, got, refresh, exchange, lost, overtaken, refused>>

TransportFails(r) ==
  /\ step[r] = "send"
  /\ Mishap
  /\ Handle(r) \/ UNCHANGED handled
  /\ IF r \in Reads /\ retries[r] < 2
     THEN retries' = [retries EXCEPT ![r] = @ + 1] /\ UNCHANGED step
     ELSE GoTo(r, "failed") /\ UNCHANGED retries
  /\ UNCHANGED <<config, tokens, got, refresh, exchange, lost, overtaken, refused>>

\* An access token comes within a minute of its expiry.
Expire(p) ==
  /\ p \in fresh
  /\ fresh' = fresh \ {p}
  /\ UNCHANGED <<config, stored, issued, used, calls, refresh, exchange, history>>

\* The statement that reads the secret fails.
ReadFails(r) ==
  /\ step[r] = "get"
  /\ Mishap
  /\ GoTo(r, "failed")
  /\ UNCHANGED <<config, tokens, got, retries, handled, refresh, exchange, lost, overtaken, refused>>

\* The process stops: what was under way is gone, the secret store remains.
Crash ==
  /\ Mishap
  /\ step' = [r \in Requests |-> IF step[r] = "idle" THEN "idle" ELSE
                                 IF step[r] = "done" THEN "done" ELSE "failed"]
  /\ got' = [r \in Requests |-> 0]
  /\ refresh' = NoRefresh
  /\ exchange' = 0
  /\ lost' = (lost \/ refresh.at = "put")
  /\ UNCHANGED <<config, tokens, retries, handled, overtaken, refused>>

TokensNext ==
  \/ \E r \in Requests :
       \/ Request(r) \/ ReadTokens(r) \/ UseFreshToken(r) \/ RefuseRefresh(r)
       \/ JoinRefresh(r) \/ Respond(r) \/ TransportFails(r) \/ ReadFails(r)
  \/ RefreshGranted \/ RefreshRefused \/ RefreshStored \/ RefreshLands \/ RefreshFails
  \/ ExchangeCode \/ StoreExchanged \/ ExchangeFails
  \/ \E p \in 1..MaxIssued : Expire(p)
  \/ Crash

TokensSpec == TokensInit /\ [][TokensNext]_tokenVars

-----------------------------------------------------------------------------
(***************************************************************************)
(* Properties.                                                              *)
(***************************************************************************)

FlagsOK == writes \in BOOLEAN /\ sourceWrites \in BOOLEAN /\ lost \in BOOLEAN

DataOK ==
  /\ issued \in 0..MaxIssued
  /\ stored \in 0..issued /\ exchange \in 0..issued
  /\ fresh \subseteq 1..issued
  /\ used \subseteq 1..issued
  /\ step \in [Requests -> Steps]
  /\ got \in [Requests -> 0..issued]
  /\ retries \in [Requests -> 0..2]
  /\ handled \in [Requests -> Nat]
  /\ refresh \in [by : Requests \cup {NoRequest}, old : 0..issued,
                  new : 0..issued, at : {"none", "post", "put", "stored"}]
  /\ mishaps \in 0..MaxMishaps
  /\ overtaken \subseteq Requests
  /\ refused \subseteq Requests

\* The variables have their types.
TokensTypeOK == FlagsOK /\ DataOK

\* The stored pair can always be refreshed: its refresh token is unused, except
\* between amoCRM's answer to a refresh and the put of its pair, or after such a
\* pair was lost.  An exchange that races a refresh does not spoil it.
StoredPairIsUsable ==
  stored \in used => lost \/ refresh.at = "put"

\* A refresh is refused only if another pair was stored between its caller's read
\* of the secret and the next turn of that caller, or if a pair was lost.
RefusedOnlyIfOvertaken == lost \/ refused \subseteq overtaken

\* A REST write is handled by amoCRM at most once and never for a read-only
\* client, and without any permission to write no refresh token is spent.
WritesAtMostOnce ==
  /\ \A r \in Requests \ Reads :
       /\ handled[r] <= 1
       /\ handled[r] > 0 => ~ReadOnly(r)
  /\ used # {} => WritesAllowed

\* The shared promise is one flight at a time for all its callers (refinement).
Flight == INSTANCE SingleFlight WITH
  Keys <- {"token"},
  Callers <- Requests,
  NoCaller <- NoRequest,
  flight <- [k \in {"token"} |-> refresh.by],
  aboard <- [k \in {"token"} |-> {r \in Requests : step[r] = "wait"}]

RefreshIsShared == Flight!FlightSpec
=============================================================================
