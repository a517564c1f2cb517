----------------------- MODULE SourceReconciliation -----------------------
(***************************************************************************)
(* The amoCRM sources of Telegram accounts: AmoSourceReconciliationService   *)
(* (src/src/amocrm/source-reconciliation.ts) behind the admin endpoints      *)
(* that create, remove and reconcile sources, delete an account and connect  *)
(* it to amoCRM Chats.                                                      *)
(*                                                                         *)
(* A source belongs to an account by its external_id.  Requests interleave   *)
(* at every await; step[r] is the one that request r has reached:           *)
(*   read, again, list, create, confirm, join      ensureForAccount()       *)
(*   await, check, find, unlink, erase              DELETE of an account     *)
(*   readAll, readAgain, listAll, createAll          reconcile()            *)
(*   rename                        ensureExternalId(), called by both        *)
(*   connect, scope                  the endpoint .../amocrm/connect        *)
(***************************************************************************)
EXTENDS Integers, FiniteSets, Functions

CONSTANTS
  Accounts,
  NoAccount,
  Requests,    \* admin requests that may be in flight at once
  NoRequest,
  MaxSources,  \* bound: sources ever created
  MaxMishaps   \* bound: failing calls, failing statements and crashes

ASSUME SourcesAssumption ==
  /\ IsFiniteSet(Accounts)
  /\ NoAccount \notin Accounts
  /\ NoRequest \notin Requests
  /\ MaxSources \in Nat
  /\ MaxMishaps \in Nat

\* What messenger_accounts.source_external_id holds: the id generated from the
\* account, the shared one of earlier versions, or one nobody knows; "absent"
\* when there is no row.
ExternalIds == {"own", "legacy", "other"}
AbsentRow == [ext |-> "absent", scope |-> FALSE]
Rows == [ext : ExternalIds, scope : BOOLEAN]

\* Rows of some accounts, as a request has read them.
Copies == UNION {[whose -> Rows] : whose \in SUBSET Accounts}
NoCopy == [a \in {} |-> AbsentRow]

Operations == {"ensure", "connect", "delete", "reconcile"}

\* origin_code of a source: this integration's, another one's, or null.
Origins == {"ours", "theirs", "null"}
AmoSources == [id : 0..MaxSources, of : Accounts, origin : Origins,
               by : {"ensure", "reconcile", "amoCRM"}]

VARIABLES
  row,      \* external id and whether amo_scope_id is set
  sources,  \* amoCRM's list: id, account of the external_id, origin, creator
  created,  \* sources ever created
  pending,  \* pendingSourceCreation: the request whose promise is in flight
  step, op, on, \* position, operation and account of each request
  copy,     \* the rows it has read
  found,    \* the source it is about to delete
  mishaps,
  late      \* history: accounts with a creation that began during a deletion

service == <<sources, created>>
procs == <<step, op, on, copy, found>>
vars == <<row, service, pending, procs, mishaps, late>>

SourcesInit ==
  /\ row \in [Accounts -> Rows]
  /\ \E foreign \in SUBSET [id : {0}, of : Accounts, origin : {"theirs", "null"},
                            by : {"amoCRM"}] :
       Cardinality(foreign) <= 1 /\ sources = foreign
  /\ created = 0
  /\ pending = [a \in Accounts |-> NoRequest]
  /\ step = [r \in Requests |-> "idle"]
  /\ op = [r \in Requests |-> "none"]
  /\ on = [r \in Requests |-> NoAccount]
  /\ copy = [r \in Requests |-> NoCopy]
  /\ found = [r \in Requests |-> {}]
  /\ mishaps = 0
  /\ late = {}

Exists(a) == row[a] # AbsentRow
Listed(a) == {s \in sources : s.of = a}
\* What accounts.get() and listAll() return.
RowsOf(whose) == [a \in {b \in whose : Exists(b)} |-> row[a]]

GoTo(r, s) ==
  /\ step' = [step EXCEPT ![r] = s]
  /\ UNCHANGED <<op, on, pending>>

(***************************************************************************)
(* The promise of r settles.  When it is a shared creation, those who wait   *)
(* for it settle too, except a deletion, which goes on when it succeeded.    *)
(***************************************************************************)
Leads(r) == on[r] \in Accounts /\ pending[on[r]] = r

Woken(r) ==
  IF Leads(r) THEN {q \in Requests : on[q] = on[r] /\ step[q] \in {"join", "await"}}
              ELSE {}

Settle(r, ok) ==
  LET goesOn == {q \in Woken(r) : ok /\ step[q] = "await"}
      ends == {r} \cup (Woken(r) \ goesOn)
  IN /\ step' = [q \in Requests |-> IF q \in ends THEN "idle"
                                    ELSE IF q \in goesOn THEN "check" ELSE step[q]]
     /\ op' = [q \in Requests |-> IF q \in ends THEN "none" ELSE op[q]]
     /\ on' = [q \in Requests |-> IF q \in ends THEN NoAccount ELSE on[q]]
     /\ copy' = [copy EXCEPT ![r] = NoCopy]
     /\ found' = [found EXCEPT ![r] = {}]
     /\ pending' = [a \in Accounts |-> IF pending[a] = r THEN NoRequest ELSE pending[a]]

Return(r) == Settle(r, TRUE)
Throw(r) == Settle(r, FALSE)

\* A deletion of a that does not wait for creations any more.
Deleting(a) ==
  \E r \in Requests : on[r] = a /\ step[r] \in {"check", "find", "unlink", "erase"}

\* A deletion of a that has listed the sources, or is done.
PastListing(a) ==
  \/ ~Exists(a)
  \/ \E r \in Requests : on[r] = a /\ step[r] \in {"unlink", "erase"}

-----------------------------------------------------------------------------
(***************************************************************************)
(* ensureForAccount(): one creation per account at a time; later callers     *)
(* share its promise.                                                       *)
(***************************************************************************)
\* Mutant of EnsureFor: a caller does not look for a creation in flight.
EnsureAnyway(r, a) ==
  /\ step' = [step EXCEPT ![r] = "read"]
  /\ pending' = [pending EXCEPT ![a] = r]
  /\ late' = IF Deleting(a) THEN late \cup {a} ELSE late

EnsureFor(r, a) ==
  \/ /\ pending[a] # NoRequest
     /\ step' = [step EXCEPT ![r] = "join"]
     /\ UNCHANGED <<pending, late>>
  \/ /\ pending[a] = NoRequest
     /\ step' = [step EXCEPT ![r] = "read"]
     /\ pending' = [pending EXCEPT ![a] = r]
     /\ late' = IF Deleting(a) THEN late \cup {a} ELSE late

\* Mutant of Ensurable: an account without a scope is taken, too.
EnsurableUnconnected(a) == Exists(a)

Ensurable(a) == Exists(a) /\ row[a].scope

ReadAccount(r) ==
  /\ step[r] = "read"
  /\ IF Ensurable(on[r])
       THEN /\ copy' = [copy EXCEPT ![r] = RowsOf({on[r]})]
            /\ GoTo(r, "rename")
            /\ UNCHANGED found
       ELSE Throw(r)
  /\ UNCHANGED <<row, service, mishaps, late>>

\* accounts.upsert({...account, sourceExternalId}): the row that was read goes
\* back whole, here its columns of this module; state, last_error and the others go
\* back as read as well.  The row of a deleted account has lost its secret, and the
\* foreign key refuses the insert.
Upsert(r, a) == row' = [row EXCEPT ![a] = [copy[r][a] EXCEPT !.ext = "own"]]

RenameAccount(r, a) ==
  /\ step[r] = "rename"
  /\ a \in DOMAIN copy[r] /\ copy[r][a].ext # "own"
  /\ IF copy[r][a].ext = "legacy" /\ Exists(a)
       THEN /\ Upsert(r, a)
            /\ copy' = [copy EXCEPT ![r][a].ext = "own"]
            /\ GoTo(r, "rename")
            /\ UNCHANGED found
       ELSE Throw(r) /\ UNCHANGED row
  /\ UNCHANGED <<service, mishaps, late>>

Renamed(r) ==
  /\ step[r] = "rename"
  /\ \A a \in DOMAIN copy[r] : copy[r][a].ext = "own"
  /\ copy' = [copy EXCEPT ![r] = NoCopy]
  /\ GoTo(r, IF op[r] = "reconcile" THEN "readAgain" ELSE "again")
  /\ UNCHANGED <<row, service, found, mishaps, late>>

ReadAgain(r) ==
  /\ step[r] = "again"
  /\ IF Exists(on[r]) THEN GoTo(r, "list") /\ UNCHANGED <<copy, found>> ELSE Throw(r)
  /\ UNCHANGED <<row, service, mishaps, late>>

\* The listing decides: one usable source is the answer, none asks for a
\* creation, anything else is refused.  (An origin_code of null is accepted.)
Usable(some) == \A s \in some : s.origin # "theirs"

ListSources(r) ==
  /\ step[r] = "list"
  /\ CASE Listed(on[r]) = {} -> GoTo(r, "create") /\ UNCHANGED <<copy, found>>
       [] Cardinality(Listed(on[r])) = 1 /\ Usable(Listed(on[r])) -> Return(r)
       [] OTHER -> Throw(r)
  /\ UNCHANGED <<row, service, mishaps, late>>

\* POST /api/v4/sources: amoCRM adds what it is given.
Post(whose, by) ==
  /\ created + Cardinality(whose) <= MaxSources
  /\ created' = created + Cardinality(whose)
  /\ \E ids \in [whose -> created + 1 .. created'] :
       /\ IsInjective(ids)
       /\ sources' = sources \cup 
                       {[id |-> ids[a], of |-> a, origin |-> "ours", by |-> by] : a \in whose}

CreateSource(r) ==
  /\ step[r] = "create"
  /\ Post({on[r]}, "ensure")
  /\ GoTo(r, "confirm")
  /\ UNCHANGED <<row, copy, found, mishaps, late>>

ConfirmSource(r) ==
  /\ step[r] = "confirm"
  /\ IF Cardinality(Listed(on[r])) = 1 /\ Usable(Listed(on[r])) THEN Return(r)
                                                               ELSE Throw(r)
  /\ UNCHANGED <<row, service, mishaps, late>>

-----------------------------------------------------------------------------
(***************************************************************************)
(* The endpoint that deletes an account: removeForAccount(), then            *)
(* accountAdmin.delete(), which is one step here and is described in         *)
(* AccountLifecycle.                                                        *)
(***************************************************************************)
\* Mutant of DeleteFor: the deletion does not wait for a creation in flight.
DeleteAtOnce(r, a) ==
  /\ step' = [step EXCEPT ![r] = "check"]
  /\ UNCHANGED <<pending, late>>

DeleteFor(r, a) ==
  /\ step' = [step EXCEPT ![r] = IF pending[a] # NoRequest THEN "await" ELSE "check"]
  /\ UNCHANGED <<pending, late>>

CheckAccount(r) ==
  /\ step[r] = "check"
  /\ IF row[on[r]].ext = "own" THEN GoTo(r, "find") /\ UNCHANGED <<copy, found>>
                               ELSE Throw(r)
  /\ UNCHANGED <<row, service, mishaps, late>>

Removable(some) == Cardinality(some) = 1 /\ \A s \in some : s.origin = "ours"

FindSource(r) ==
  /\ step[r] = "find"
  /\ LET mine == Listed(on[r]) IN
       IF mine = {} \/ Removable(mine)
         THEN /\ found' = [found EXCEPT ![r] = mine]
              /\ GoTo(r, IF mine = {} THEN "erase" ELSE "unlink")
              /\ UNCHANGED copy
         ELSE Throw(r)
  /\ UNCHANGED <<row, service, mishaps, late>>

\* DELETE /api/v4/sources/{id} is refused for a source that is gone.
DeleteSource(r) ==
  /\ step[r] = "unlink"
  /\ IF found[r] \subseteq sources
       THEN /\ sources' = sources \ found[r]
            /\ found' = [found EXCEPT ![r] = {}]
            /\ GoTo(r, "erase")
            /\ UNCHANGED copy
       ELSE Throw(r) /\ UNCHANGED sources
  /\ UNCHANGED <<row, created, mishaps, late>>

EraseAccount(r) ==
  /\ step[r] = "erase"
  /\ IF Exists(on[r]) THEN row' = [row EXCEPT ![on[r]] = AbsentRow] /\ Return(r)
                      ELSE Throw(r) /\ UNCHANGED row
  /\ UNCHANGED <<service, mishaps, late>>

-----------------------------------------------------------------------------
(***************************************************************************)
(* reconcile(): the same for all accounts at once, without the shared        *)
(* promise.  Its last listing is for the answer only.                       *)
(***************************************************************************)
ReadAccounts(r) ==
  /\ step[r] \in {"readAll", "readAgain"}
  /\ copy' = [copy EXCEPT ![r] = RowsOf(Accounts)]
  /\ GoTo(r, IF step[r] = "readAll" THEN "rename" ELSE "listAll")
  /\ UNCHANGED <<row, service, found, mishaps, late>>

Missing(r) ==
  {a \in DOMAIN copy[r] : copy[r][a].scope /\ Listed(a) = {}}

ListAllSources(r) ==
  /\ step[r] = "listAll"
  /\ IF Missing(r) = {}
       THEN Return(r)
       ELSE /\ copy' = [copy EXCEPT ![r] = [a \in Missing(r) |-> @[a]]]
            /\ GoTo(r, "createAll")
            /\ UNCHANGED found
  /\ UNCHANGED <<row, service, mishaps, late>>

PostAll(r) ==
  /\ Post(DOMAIN copy[r], "reconcile")
  /\ late' = late \cup {a \in DOMAIN copy[r] : PastListing(a)}

CreateAllSources(r) ==
  /\ step[r] = "createAll"
  /\ PostAll(r)
  /\ Return(r)
  /\ UNCHANGED <<row, mishaps>>

-----------------------------------------------------------------------------
(***************************************************************************)
(* .../amocrm/connect: connectAccount() of AmoChatsLifecycle saves the scope  *)
(* unless there is one, then a source is ensured.                           *)
(***************************************************************************)
ConnectAccount(r) ==
  /\ step[r] = "connect"
  /\ \/ ~Exists(on[r]) /\ Throw(r) /\ UNCHANGED late
     \/ Exists(on[r]) /\ ~row[on[r]].scope /\ GoTo(r, "scope") /\ UNCHANGED <<copy, found, late>>
     \/ row[on[r]].scope /\ EnsureFor(r, on[r]) /\ UNCHANGED <<op, on, copy, found>>
  /\ UNCHANGED <<row, service, mishaps>>

SetScope(a) == row' = IF Exists(a) THEN [row EXCEPT ![a].scope = TRUE] ELSE row

StoreScope(r) ==
  /\ step[r] = "scope"
  /\ SetScope(on[r])
  /\ EnsureFor(r, on[r])
  /\ UNCHANGED <<op, on, copy, found, service, mishaps>>

-----------------------------------------------------------------------------
Ask(r, o, a) ==
  /\ step[r] = "idle"
  /\ op' = [op EXCEPT ![r] = o]
  /\ on' = [on EXCEPT ![r] = IF o = "reconcile" THEN NoAccount ELSE a]
  /\ \/ o = "ensure" /\ EnsureFor(r, a)
     \/ o = "delete" /\ DeleteFor(r, a)
     \/ o = "connect" /\ step' = [step EXCEPT ![r] = "connect"] /\ UNCHANGED <<pending, late>>
     \/ o = "reconcile" /\ step' = [step EXCEPT ![r] = "readAll"] /\ UNCHANGED <<pending, late>>
  /\ UNCHANGED <<row, service, copy, found, mishaps>>

\* A call or a statement of r throws.  What it writes may have been written.
Effect(r) ==
  \/ step[r] = "rename" /\ (\E a \in DOMAIN copy[r] : copy[r][a].ext = "legacy" /\ Exists(a) /\ Upsert(r, a))
       /\ UNCHANGED <<service, late>>
  \/ step[r] = "create" /\ Post({on[r]}, "ensure") /\ UNCHANGED <<row, late>>
  \/ step[r] = "createAll" /\ PostAll(r) /\ UNCHANGED row
  \/ step[r] = "unlink" /\ sources' = sources \ found[r] /\ UNCHANGED <<row, created, late>>
  \/ step[r] = "erase" /\ row' = [row EXCEPT ![on[r]] = AbsentRow] /\ UNCHANGED <<service, late>>
  \/ step[r] = "scope" /\ SetScope(on[r]) /\ UNCHANGED <<service, late>>

Fails(r) ==
  /\ step[r] \notin {"idle", "join", "await"}
  /\ mishaps < MaxMishaps
  /\ mishaps' = mishaps + 1
  /\ Effect(r) \/ UNCHANGED <<row, service, late>>
  /\ Throw(r)

\* The process stops; a call in flight may have its effect.
Crash ==
  /\ mishaps < MaxMishaps
  /\ mishaps' = mishaps + 1
  /\ step' = [r \in Requests |-> "idle"]
  /\ op' = [r \in Requests |-> "none"]
  /\ on' = [r \in Requests |-> NoAccount]
  /\ copy' = [r \in Requests |-> NoCopy]
  /\ found' = [r \in Requests |-> {}]
  /\ pending' = [a \in Accounts |-> NoRequest]
  /\ (\E r \in Requests : Effect(r)) \/ UNCHANGED <<row, service, late>>

RequestStep(r) ==
  \/ ReadAccount(r) \/ Renamed(r) \/ ReadAgain(r)
  \/ \E a \in Accounts : RenameAccount(r, a)
  \/ ListSources(r) \/ CreateSource(r) \/ ConfirmSource(r)
  \/ CheckAccount(r) \/ FindSource(r) \/ DeleteSource(r) \/ EraseAccount(r)
  \/ ReadAccounts(r) \/ ListAllSources(r) \/ CreateAllSources(r)
  \/ ConnectAccount(r) \/ StoreScope(r)

SourcesNext ==
  \/ \E r \in Requests :
       \/ RequestStep(r) \/ Fails(r)
       \/ \E o \in Operations, a \in Accounts : Ask(r, o, a)
  \/ Crash

SourcesSpec == SourcesInit /\ [][SourcesNext]_vars

-----------------------------------------------------------------------------
(***************************************************************************)
(* Properties.                                                              *)
(***************************************************************************)
Steps == {"idle", "read", "again", "list", "create", "confirm", "join", "await", "check",
          "find", "unlink", "erase", "readAll", "readAgain", "listAll", "createAll",
          "rename", "connect", "scope"}

\* The variables have their types, and every request but a reconcile() has an account.
SourcesTypeOK ==
  /\ row \in [Accounts -> Rows \cup {AbsentRow}]
  /\ sources \subseteq AmoSources
  /\ created \in 0..MaxSources
  /\ pending \in [Accounts -> Requests \cup {NoRequest}]
  /\ step \in [Requests -> Steps]
  /\ op \in [Requests -> Operations \cup {"none"}]
  /\ on \in [Requests -> Accounts \cup {NoAccount}]
  /\ copy \in [Requests -> Copies]
  /\ found \in [Requests -> SUBSET AmoSources]
  /\ \A r \in Requests : on[r] = NoAccount => op[r] \in {"none", "reconcile"}
  /\ mishaps \in 0..MaxMishaps
  /\ late \subseteq Accounts

\* However many callers ask, and whatever they crash on, ensureForAccount() never
\* adds a second source of its own to an account: a retry after a lost answer finds
\* the first one.  (Next to one of reconcile() it may, which shares no promise.)
EnsureAddsOne ==
  \A s, t \in sources : (s.of = t.of /\ s.by = "ensure" /\ t.by = "ensure") => s = t

\* Deleting an account leaves no source of this integration behind, also when a
\* creation was in flight as the deletion began: only one that began during the
\* deletion, or a reconcile() that read the account before, leaves one.
DeletedLeavesNoSource ==
  \A a \in Accounts \ late : ~Exists(a) => \A s \in Listed(a) : s.origin # "ours"

\* A source of another integration, or of unknown origin, is never deleted.
ForeignSourceKept ==
  [][\A s \in sources : s.origin # "ours" => s \in sources']_vars

\* A request that is in a creation or waits for one; reconcile() renames outside.
InCreation(r) ==
  \/ step[r] \in {"read", "again", "list", "create", "confirm", "join", "await"}
  \/ step[r] = "rename" /\ op[r] # "reconcile"

\* Renaming writes back the whole row it has read.  ensureForAccount() never undoes
\* a scope that was saved meanwhile (docs/architecture.md:22): only reconcile(),
\* which also takes accounts without a scope, can.
EnsureKeepsScope ==
  [][\A a \in Accounts :
       (row[a].scope /\ row'[a].ext # "absent" /\ ~row'[a].scope)
         => \E r \in Requests : op[r] = "reconcile" /\ step[r] = "rename"]_vars

\* The shared promise is one creation at a time for each account: everybody who asks
\* meanwhile, a deletion too, waits for that one, nobody is left behind when it ends,
\* and the request that started it stays in it until then (refinement).
Creation == INSTANCE SingleFlight WITH
  Keys <- Accounts,
  Callers <- Requests,
  NoCaller <- NoRequest,
  flight <- pending,
  aboard <- [a \in Accounts |-> {r \in Requests : on[r] = a /\ InCreation(r)}]

CreationIsShared == Creation!FlightSpec
=============================================================================
