-------------------- MODULE SourceReconciliationProofs --------------------
(***************************************************************************)
(* Proofs about SourceReconciliation: a shared creation adds one source, a   *)
(* deletion that no creation crosses leaves none, and the shared promises    *)
(* implement SingleFlight.                                                  *)
(***************************************************************************)
EXTENDS SourceReconciliation, FiniteSetTheorems, TLAPS

\* The steps of a request that is about one account.
AccountSteps == {"read", "again", "list", "create", "confirm", "join", "await", "check",
                 "find", "unlink", "erase", "connect", "scope"}

\* A request inside ensureForAccountLocked().
Ensuring(r) ==
  \/ step[r] \in {"read", "again", "list", "create", "confirm"}
  \/ step[r] = "rename" /\ op[r] # "reconcile"

\* Where a request is, its account and its operation agree.
StepInv ==
  \A r \in Requests :
    /\ step[r] \in AccountSteps \/ Ensuring(r) => on[r] \in Accounts
    /\ step[r] \in {"readAll", "readAgain", "listAll", "createAll"} => op[r] = "reconcile"

\* Requests only ever settle, and wake those who wait for them.
LEMMA SettleFacts ==
  ASSUME SourcesTypeOK, NEW r \in Requests, NEW ok \in BOOLEAN, Settle(r, ok)
  PROVE  /\ step' \in [Requests -> Steps]
         /\ op' \in [Requests -> Operations \cup {"none"}]
         /\ on' \in [Requests -> Accounts \cup {NoAccount}]
         /\ copy' \in [Requests -> Copies]
         /\ found' \in [Requests -> SUBSET AmoSources]
         /\ pending' \in [Accounts -> Requests \cup {NoRequest}]
         /\ step'[r] = "idle"
         /\ \A q \in Requests :
              \/ step'[q] = "idle" /\ op'[q] = "none" /\ on'[q] = NoAccount
              \/ /\ q # r /\ op'[q] = op[q] /\ on'[q] = on[q]
                 /\ \/ step'[q] = step[q]
                    \/ /\ step[q] = "await" /\ step'[q] = "check"
                       /\ Leads(r) /\ on[q] = on[r]
         /\ \A q \in Requests \ {r} : found'[q] = found[q] /\ copy'[q] = copy[q]
         /\ \A a \in Accounts :
              pending'[a] = IF pending[a] = r THEN NoRequest ELSE pending[a]
  <1>1. NoCopy \in Copies
    BY DEF NoCopy, Copies
  <1>2. QED
    BY <1>1 DEF SourcesTypeOK, Settle, Woken, Steps

LEMMA PostFacts ==
  ASSUME SourcesTypeOK, NEW whose \in SUBSET Accounts,
         NEW by \in {"ensure", "reconcile"}, Post(whose, by)
  PROVE  /\ sources' \subseteq AmoSources /\ created' \in 0..MaxSources
         /\ sources \subseteq sources'
         /\ \A s \in sources' \ sources : s.of \in whose /\ s.origin = "ours" /\ s.by = by
         /\ \A s, t \in sources' \ sources : s.of = t.of => s = t
  <1>1. IsFiniteSet(whose) /\ Cardinality(whose) \in Nat
    BY SourcesAssumption, FS_Subset, FS_CardinalityType
  <1>2. created \in 0..MaxSources /\ MaxSources \in Nat
    BY SourcesAssumption DEF SourcesTypeOK
  <1>3. created + Cardinality(whose) <= MaxSources /\ created' = created + Cardinality(whose)
    BY DEF Post
  <1>4. created' \in 0..MaxSources
    <2>1. \A n, c, m \in Nat : c + n <= m => c + n \in 0..m
      OBVIOUS
    <2>2. created \in Nat
      BY <1>2
    <2>3. created + Cardinality(whose) \in 0..MaxSources
      BY <1>1, <1>2, <1>3, <2>1, <2>2
    <2>4. QED
      BY <1>3, <2>3
  <1>5. PICK ids \in [whose -> created + 1 .. created'] :
          sources' = sources \cup {[id |-> ids[a], of |-> a, origin |-> "ours", by |-> by]
                                   : a \in whose}
    BY DEF Post
  <1>6. \A a \in whose : ids[a] \in 0..MaxSources
    BY <1>2, <1>4, <1>5
  <1> DEFINE new == {[id |-> ids[a], of |-> a, origin |-> "ours", by |-> by] : a \in whose}
  <1>7. new \subseteq AmoSources
    BY <1>6 DEF AmoSources, Origins
  <1>8. /\ \A s \in new : s.of \in whose /\ s.origin = "ours" /\ s.by = by
        /\ \A s \in new, t \in new : s.of = t.of => s = t
    OBVIOUS
  <1> HIDE DEF new
  <1>9. sources' = sources \cup new
    BY <1>5 DEF new
  <1>10. QED
    BY <1>4, <1>7, <1>8, <1>9 DEF SourcesTypeOK

-----------------------------------------------------------------------------
TypeInv == SourcesTypeOK /\ StepInv

LEMMA TypeInvInit == SourcesInit => TypeInv
  <1> SUFFICES ASSUME SourcesInit PROVE TypeInv
    OBVIOUS
  <1>1. PICK foreign \in SUBSET [id : {0}, of : Accounts, origin : {"theirs", "null"},
                                by : {"amoCRM"}] : sources = foreign
    BY DEF SourcesInit
  <1>2. sources \subseteq AmoSources
    BY <1>1, SourcesAssumption DEF AmoSources, Origins
  <1>3. NoCopy \in Copies
    BY DEF NoCopy, Copies
  <1>4. QED
    BY <1>2, <1>3, SourcesAssumption
    DEF SourcesInit, TypeInv, SourcesTypeOK, StepInv, Steps, AccountSteps, Ensuring, Operations

\* The rows, the sources and the counters have their types.
DataOK ==
  /\ row \in [Accounts -> Rows \cup {AbsentRow}]
  /\ sources \subseteq AmoSources
  /\ created \in 0..MaxSources
  /\ mishaps \in 0..MaxMishaps
  /\ late \subseteq Accounts

\* So have what the requests have read.
ReadOK ==
  /\ copy \in [Requests -> Copies]
  /\ found \in [Requests -> SUBSET AmoSources]

LEMMA InCopies ==
  ASSUME NEW whose \in SUBSET Accounts, NEW f \in [whose -> Rows]
  PROVE  f \in Copies
  BY DEF Copies

LEMMA OfCopies ==
  ASSUME NEW f \in Copies
  PROVE  /\ DOMAIN f \in SUBSET Accounts /\ f \in [DOMAIN f -> Rows]
         /\ \A a \in DOMAIN f : f[a] \in Rows
  BY DEF Copies

LEMMA NoCopyIsCopy == NoCopy \in Copies
  BY DEF NoCopy, Copies

\* What the database returns for some accounts is a copy.
LEMMA RowsOfType ==
  ASSUME DataOK, NEW whose \in SUBSET Accounts
  PROVE  RowsOf(whose) \in Copies
  <1> DEFINE there == {b \in whose : Exists(b)}
  <1>1. there \in SUBSET Accounts
    OBVIOUS
  <1>2. \A a \in there : row[a] \in Rows
    BY DEF DataOK, Exists
  <1>3. [a \in there |-> row[a]] \in [there -> Rows]
    BY <1>2
  <1> HIDE DEF there
  <1>4. [a \in there |-> row[a]] \in Copies
    BY <1>1, <1>3, InCopies
  <1>5. QED
    BY <1>4 DEF RowsOf, there

\* Setting a field of a row leaves a row.
LEMMA RowFields ==
  ASSUME NEW x \in Rows
  PROVE  [x EXCEPT !.ext = "own"] \in Rows /\ [x EXCEPT !.scope = TRUE] \in Rows
  BY DEF Rows, ExternalIds

\* A request that settles keeps the types.
LEMMA SettleKeepsTypes ==
  ASSUME TypeInv, NEW r \in Requests, NEW ok \in BOOLEAN, Settle(r, ok), DataOK'
  PROVE  TypeInv'
  <1>1. SourcesTypeOK'
    <2>1. \A q \in Requests : on'[q] = NoAccount => op'[q] \in {"none", "reconcile"}
      BY SettleFacts DEF TypeInv, SourcesTypeOK
    <2>2. QED
      BY <2>1, SettleFacts DEF TypeInv, SourcesTypeOK, DataOK
  <1>2. StepInv'
    BY SettleFacts DEF TypeInv, StepInv, AccountSteps, Ensuring
  <1>3. QED
    BY <1>1, <1>2 DEF TypeInv

LEMMA ReturnKeepsTypes ==
  ASSUME TypeInv, NEW r \in Requests, Return(r) \/ Throw(r), DataOK'
  PROVE  TypeInv'
  <1>1. CASE Return(r)
    BY <1>1, SettleKeepsTypes, TRUE \in BOOLEAN DEF Return
  <1>2. CASE Throw(r)
    BY <1>2, SettleKeepsTypes, FALSE \in BOOLEAN DEF Throw
  <1>3. QED
    BY <1>1, <1>2

\* A request that goes on keeps the types, where its account and its operation fit.
LEMMA GoToKeepsTypes ==
  ASSUME TypeInv, NEW r \in Requests, NEW s \in Steps, GoTo(r, s), DataOK', ReadOK',
         s \in AccountSteps \/ (s = "rename" /\ op[r] # "reconcile") => on[r] \in Accounts,
         s \in {"readAll", "readAgain", "listAll", "createAll"} => op[r] = "reconcile"
  PROVE  TypeInv'
  BY DEF TypeInv, SourcesTypeOK, StepInv, AccountSteps, Ensuring, GoTo, DataOK, ReadOK

\* So does one that is taken on for an account.
LEMMA AssignKeepsTypes ==
  ASSUME TypeInv, NEW r \in Requests, NEW a \in Accounts, NEW o \in Operations, NEW s \in Steps,
         s \notin {"readAll", "readAgain", "listAll", "createAll"},
         step' = [step EXCEPT ![r] = s], on' = [on EXCEPT ![r] = a],
         op' \in {op, [op EXCEPT ![r] = o]},
         pending' \in {pending, [pending EXCEPT ![a] = r]}, DataOK', UNCHANGED <<copy, found>>
  PROVE  TypeInv'
  <1> USE SourcesAssumption
  <1>1. SourcesTypeOK'
    <2>1. \A q \in Requests : on'[q] = NoAccount => op'[q] \in {"none", "reconcile"}
      BY DEF TypeInv, SourcesTypeOK
    <2>2. QED
      BY <2>1 DEF TypeInv, SourcesTypeOK, DataOK
  <1>2. StepInv'
    BY DEF TypeInv, SourcesTypeOK, StepInv, AccountSteps, Ensuring
  <1>3. QED
    BY <1>1, <1>2 DEF TypeInv

LEMMA EnsureKeepsTypes ==
  ASSUME TypeInv, NEW r \in Requests, on[r] \in Accounts, EnsureFor(r, on[r]), DataOK',
         UNCHANGED <<op, on, copy, found>>
  PROVE  TypeInv'
  <1> DEFINE a == on[r]
  <1>1. PICK s \in {"read", "join"} :
          /\ step' = [step EXCEPT ![r] = s]
          /\ pending' \in {pending, [pending EXCEPT ![a] = r]}
    BY DEF EnsureFor
  <1>2. on' = [on EXCEPT ![r] = a] /\ a \in Accounts /\ s \in Steps
        /\ "ensure" \in Operations /\ s \notin {"readAll", "readAgain", "listAll", "createAll"}
    BY <1>1 DEF TypeInv, SourcesTypeOK, Steps, Operations
  <1> HIDE DEF a
  <1>3. QED
    BY <1>1, <1>2, AssignKeepsTypes

\* Saving a scope leaves rows.
LEMMA ScopeType ==
  ASSUME DataOK, NEW a \in Accounts, SetScope(a)
  PROVE  row' \in [Accounts -> Rows \cup {AbsentRow}]
  <1>1. Exists(a) => [row[a] EXCEPT !.scope = TRUE] \in Rows
    BY RowFields DEF Exists, DataOK
  <1>2. QED
    BY <1>1 DEF SetScope, DataOK

\* What a call writes has its type, whether or not its answer arrives.
LEMMA EffectKeepsTypes ==
  ASSUME TypeInv, NEW r \in Requests, Effect(r), mishaps' \in 0..MaxMishaps
  PROVE  DataOK'
  <1> USE DEF TypeInv, SourcesTypeOK, DataOK
  <1>1. /\ DOMAIN copy[r] \in SUBSET Accounts
        /\ \A a \in DOMAIN copy[r] : copy[r][a] \in Rows
    BY OfCopies
  <1>2. CASE /\ step[r] = "rename" /\ UNCHANGED <<service, late>>
             /\ \E a \in DOMAIN copy[r] : Upsert(r, a)
    <2>1. PICK a \in DOMAIN copy[r] : Upsert(r, a)
      BY <1>2
    <2>2. a \in Accounts /\ [copy[r][a] EXCEPT !.ext = "own"] \in Rows
      BY <1>1, RowFields
    <2>3. row' \in [Accounts -> Rows \cup {AbsentRow}]
      BY <2>1, <2>2 DEF Upsert
    <2>4. QED
      BY <1>2, <2>3 DEF service
  <1>3. CASE step[r] = "create" /\ Post({on[r]}, "ensure") /\ UNCHANGED <<row, late>>
    <2>1. {on[r]} \in SUBSET Accounts
      BY <1>3 DEF StepInv, AccountSteps
    <2>2. QED
      BY <1>3, <2>1, PostFacts
  <1>4. CASE step[r] = "createAll" /\ PostAll(r) /\ UNCHANGED row
    <2>1. /\ sources' \subseteq AmoSources /\ created' \in 0..MaxSources
      BY <1>1, <1>4, PostFacts DEF PostAll
    <2>2. QED
      BY <1>1, <1>4, <2>1 DEF PostAll
  <1>5. CASE sources' = sources \ found[r] /\ UNCHANGED <<row, created, late>>
    BY <1>5
  <1>6. CASE row' = [row EXCEPT ![on[r]] = AbsentRow] /\ UNCHANGED <<service, late>>
    BY <1>6 DEF service
  <1>7. CASE step[r] = "scope" /\ SetScope(on[r]) /\ UNCHANGED <<service, late>>
    <2>1. on[r] \in Accounts
      BY <1>7 DEF StepInv, AccountSteps
    <2>2. QED
      BY <1>7, <2>1, ScopeType DEF service
  <1>8. QED
    BY <1>2, <1>3, <1>4, <1>5, <1>6, <1>7 DEF Effect

LEMMA TypeInvRequest ==
  ASSUME TypeInv, NEW r \in Requests, RequestStep(r)
  PROVE  TypeInv'
  <1> USE DEF AccountSteps, Steps
  <1>1. /\ DataOK /\ ReadOK
        /\ step[r] \in AccountSteps \/ Ensuring(r) => on[r] \in Accounts
        /\ step[r] \in {"readAll", "readAgain", "listAll", "createAll"} => op[r] = "reconcile"
    BY DEF TypeInv, SourcesTypeOK, StepInv, DataOK, ReadOK
  <1>2. UNCHANGED <<row, service, mishaps, late>> => DataOK'
    BY <1>1 DEF DataOK, service
  <1>3. UNCHANGED <<copy, found>> => ReadOK'
    BY <1>1 DEF ReadOK
  <1>4. CASE ReadAccount(r)
    <2>1. RowsOf({on[r]}) \in Copies /\ on[r] \in Accounts
      BY <1>1, <1>4, RowsOfType DEF ReadAccount
    <2>2. Throw(r) \/ (GoTo(r, "rename") /\ ReadOK')
      BY <1>1, <1>4, <2>1 DEF ReadAccount, ReadOK
    <2>3. QED
      BY <1>2, <1>4, <2>1, <2>2, GoToKeepsTypes, ReturnKeepsTypes DEF ReadAccount
  <1>5. CASE Renamed(r)
    <2>1. ReadOK'
      BY <1>1, <1>5, NoCopyIsCopy DEF Renamed, ReadOK
    <2>2. CASE op[r] = "reconcile" /\ GoTo(r, "readAgain")
      BY <1>2, <1>5, <2>1, <2>2, GoToKeepsTypes DEF Renamed
    <2>3. CASE op[r] # "reconcile" /\ GoTo(r, "again")
      BY <1>1, <1>2, <1>5, <2>1, <2>3, GoToKeepsTypes DEF Renamed, Ensuring
    <2>4. QED
      BY <1>5, <2>2, <2>3 DEF Renamed
  <1>6. CASE ReadAgain(r)
    <2>1. Throw(r) \/ (GoTo(r, "list") /\ ReadOK' /\ on[r] \in Accounts)
      BY <1>1, <1>3, <1>6 DEF ReadAgain
    <2>2. QED
      BY <1>2, <1>6, <2>1, GoToKeepsTypes, ReturnKeepsTypes DEF ReadAgain
  <1>7. CASE \E a \in Accounts : RenameAccount(r, a)
    <2>1. PICK a \in Accounts : RenameAccount(r, a)
      BY <1>7
    <2>2. copy[r] \in [DOMAIN copy[r] -> Rows] /\ a \in DOMAIN copy[r]
          /\ DOMAIN copy[r] \in SUBSET Accounts /\ copy[r][a] \in Rows
      BY <1>1, <2>1, OfCopies DEF RenameAccount, ReadOK
    <2>3. [copy[r][a] EXCEPT !.ext = "own"] \in Rows
      BY <2>2, RowFields
    <2>4. CASE Upsert(r, a) /\ copy' = [copy EXCEPT ![r][a].ext = "own"] /\ GoTo(r, "rename")
               /\ UNCHANGED found
      <3>1. [copy[r] EXCEPT ![a] = [copy[r][a] EXCEPT !.ext = "own"]] \in Copies
        <4>1. [copy[r] EXCEPT ![a] = [copy[r][a] EXCEPT !.ext = "own"]] \in [DOMAIN copy[r] -> Rows]
          BY <2>2, <2>3
        <4>2. QED
          BY <2>2, <4>1, InCopies
      <3>2. ReadOK'
        BY <1>1, <2>4, <3>1 DEF ReadOK
      <3>3. DataOK'
        BY <1>1, <2>1, <2>3, <2>4 DEF DataOK, RenameAccount, Upsert, service
      <3>4. op[r] # "reconcile" => on[r] \in Accounts
        BY <1>1, <2>1 DEF RenameAccount, Ensuring
      <3>5. QED
        BY <2>4, <3>2, <3>3, <3>4, GoToKeepsTypes
    <2>5. CASE Throw(r) /\ UNCHANGED row
      BY <1>2, <2>1, <2>5, ReturnKeepsTypes DEF RenameAccount
    <2>6. QED
      BY <2>1, <2>4, <2>5 DEF RenameAccount
  <1>8. CASE ListSources(r)
    <2>1. Throw(r) \/ Return(r) \/ (GoTo(r, "create") /\ ReadOK' /\ on[r] \in Accounts)
      BY <1>1, <1>3, <1>8 DEF ListSources
    <2>2. QED
      BY <1>2, <1>8, <2>1, GoToKeepsTypes, ReturnKeepsTypes DEF ListSources
  <1>9. CASE CreateSource(r)
    <2>1. on[r] \in Accounts /\ {on[r]} \in SUBSET Accounts
      BY <1>1, <1>9 DEF CreateSource
    <2>2. DataOK'
      BY <1>1, <1>9, <2>1, PostFacts DEF CreateSource, DataOK, TypeInv
    <2>3. QED
      BY <1>3, <1>9, <2>1, <2>2, GoToKeepsTypes DEF CreateSource
  <1>10. CASE ConfirmSource(r)
    BY <1>2, <1>10, ReturnKeepsTypes DEF ConfirmSource
  <1>11. CASE CheckAccount(r)
    <2>1. Throw(r) \/ (GoTo(r, "find") /\ ReadOK' /\ on[r] \in Accounts)
      BY <1>1, <1>3, <1>11 DEF CheckAccount
    <2>2. QED
      BY <1>2, <1>11, <2>1, GoToKeepsTypes, ReturnKeepsTypes DEF CheckAccount
  <1>12. CASE FindSource(r)
    <2>1. Listed(on[r]) \subseteq AmoSources /\ on[r] \in Accounts
      BY <1>1, <1>12 DEF Listed, DataOK, FindSource
    <2>2. Throw(r) \/ (ReadOK' /\ (GoTo(r, "erase") \/ GoTo(r, "unlink")))
      BY <1>1, <1>12, <2>1 DEF FindSource, ReadOK
    <2>3. QED
      BY <1>2, <1>12, <2>1, <2>2, GoToKeepsTypes, ReturnKeepsTypes DEF FindSource
  <1>13. CASE DeleteSource(r)
    <2>1. DataOK'
      BY <1>1, <1>13 DEF DataOK, DeleteSource
    <2>2. Throw(r) \/ (GoTo(r, "erase") /\ ReadOK' /\ on[r] \in Accounts)
      BY <1>1, <1>13 DEF DeleteSource, ReadOK
    <2>3. QED
      BY <2>1, <2>2, GoToKeepsTypes, ReturnKeepsTypes
  <1>14. CASE EraseAccount(r)
    <2>1. DataOK'
      BY <1>1, <1>14 DEF DataOK, EraseAccount, service
    <2>2. QED
      BY <1>14, <2>1, ReturnKeepsTypes DEF EraseAccount
  <1>15. CASE ReadAccounts(r)
    <2>1. RowsOf(Accounts) \in Copies
      BY <1>1, RowsOfType
    <2>2. ReadOK' /\ op[r] = "reconcile"
      BY <1>1, <1>15, <2>1 DEF ReadAccounts, ReadOK
    <2>3. GoTo(r, "rename") \/ GoTo(r, "listAll")
      BY <1>15 DEF ReadAccounts
    <2>4. QED
      BY <1>2, <1>15, <2>2, <2>3, GoToKeepsTypes DEF ReadAccounts
  <1>16. CASE ListAllSources(r)
    <2>1. /\ Missing(r) \in SUBSET Accounts
          /\ [a \in Missing(r) |-> copy[r][a]] \in [Missing(r) -> Rows]
      BY <1>1, OfCopies DEF Missing, ReadOK
    <2>2. [a \in Missing(r) |-> copy[r][a]] \in Copies
      BY <2>1, InCopies
    <2>3. Return(r) \/ (ReadOK' /\ GoTo(r, "createAll") /\ op[r] = "reconcile")
      BY <1>1, <1>16, <2>2 DEF ListAllSources, ReadOK
    <2>4. QED
      BY <1>2, <1>16, <2>3, GoToKeepsTypes, ReturnKeepsTypes DEF ListAllSources
  <1>17. CASE CreateAllSources(r)
    <2>1. DOMAIN copy[r] \in SUBSET Accounts
      BY <1>1, OfCopies DEF ReadOK
    <2>2. DataOK'
      BY <1>1, <1>17, <2>1, PostFacts DEF CreateAllSources, PostAll, DataOK, TypeInv
    <2>3. QED
      BY <1>17, <2>2, ReturnKeepsTypes DEF CreateAllSources
  <1>18. CASE ConnectAccount(r)
    <2>1. on[r] \in Accounts
      BY <1>1, <1>18 DEF ConnectAccount
    <2>2. CASE Throw(r) /\ UNCHANGED late
      BY <1>2, <1>18, <2>2, ReturnKeepsTypes DEF ConnectAccount
    <2>3. CASE GoTo(r, "scope") /\ UNCHANGED <<copy, found, late>>
      BY <1>2, <1>3, <1>18, <2>1, <2>3, GoToKeepsTypes DEF ConnectAccount
    <2>4. CASE EnsureFor(r, on[r]) /\ UNCHANGED <<op, on, copy, found>>
      <3>1. DataOK'
        BY <1>1, <1>18, <2>1, <2>4 DEF DataOK, EnsureFor, ConnectAccount, service
      <3>2. QED
        BY <2>1, <2>4, <3>1, EnsureKeepsTypes
    <2>5. QED
      BY <1>18, <2>2, <2>3, <2>4 DEF ConnectAccount
  <1>19. CASE StoreScope(r)
    <2>1. on[r] \in Accounts
      BY <1>1, <1>19 DEF StoreScope
    <2>2. DataOK'
      BY <1>1, <1>19, <2>1, ScopeType DEF StoreScope, EnsureFor, DataOK, service
    <2>3. QED
      BY <1>19, <2>1, <2>2, EnsureKeepsTypes DEF StoreScope
  <1>20. QED
    BY <1>4, <1>5, <1>6, <1>7, <1>8, <1>9, <1>10, <1>11, <1>12, <1>13, <1>14, <1>15, <1>16,
       <1>17, <1>18, <1>19 DEF RequestStep

LEMMA TypeInvNext == TypeInv /\ [SourcesNext]_vars => TypeInv'
  <1> SUFFICES ASSUME TypeInv, [SourcesNext]_vars PROVE TypeInv'
    OBVIOUS
  <1> USE SourcesAssumption
  <1>1. DataOK /\ ReadOK
    BY DEF TypeInv, SourcesTypeOK, DataOK, ReadOK
  <1>2. ASSUME NEW r \in Requests, RequestStep(r) PROVE TypeInv'
    BY <1>2, TypeInvRequest
  <1>3. ASSUME NEW r \in Requests, NEW o \in Operations, NEW a \in Accounts, Ask(r, o, a)
        PROVE  TypeInv'
    <2>1. DataOK'
      BY <1>1, <1>3 DEF Ask, EnsureFor, DeleteFor, DataOK, service
    <2>2. CASE o # "reconcile"
      <3>1. PICK s \in {"join", "read", "await", "check", "connect"} :
              /\ step' = [step EXCEPT ![r] = s]
              /\ pending' \in {pending, [pending EXCEPT ![a] = r]}
        BY <1>3, <2>2 DEF Ask, EnsureFor, DeleteFor
      <3>2. s \in Steps /\ s \notin {"readAll", "readAgain", "listAll", "createAll"}
        BY DEF Steps
      <3>3. on' = [on EXCEPT ![r] = a] /\ op' = [op EXCEPT ![r] = o] /\ UNCHANGED <<copy, found>>
        BY <1>3, <2>2 DEF Ask
      <3>4. QED
        BY <2>1, <3>1, <3>2, <3>3, AssignKeepsTypes
    <2>3. CASE o = "reconcile"
      BY <1>3, <2>1, <2>3
      DEF Ask, TypeInv, SourcesTypeOK, DataOK, StepInv, Steps, AccountSteps, Ensuring, Operations
    <2>4. QED
      BY <2>2, <2>3
  <1>4. ASSUME NEW r \in Requests, Fails(r) PROVE TypeInv'
    <2>1. mishaps' \in 0..MaxMishaps
      BY <1>1, <1>4 DEF Fails, DataOK
    <2>2. CASE Effect(r)
      BY <1>4, <2>1, <2>2, EffectKeepsTypes, ReturnKeepsTypes DEF Fails
    <2>3. CASE UNCHANGED <<row, service, late>>
      BY <1>1, <1>4, <2>1, <2>3, ReturnKeepsTypes DEF Fails, DataOK, service
    <2>4. QED
      BY <1>4, <2>2, <2>3 DEF Fails
  <1>5. ASSUME Crash PROVE TypeInv'
    <2>1. mishaps' \in 0..MaxMishaps
      BY <1>1, <1>5 DEF Crash, DataOK
    <2>2. DataOK'
      <3>1. CASE \E r \in Requests : Effect(r)
        BY <2>1, <3>1, EffectKeepsTypes
      <3>2. CASE UNCHANGED <<row, service, late>>
        BY <1>1, <2>1, <3>2 DEF DataOK, service
      <3>3. QED
        BY <1>5, <3>1, <3>2 DEF Crash
    <2>3. QED
      BY <1>5, <2>2, NoCopyIsCopy
      DEF Crash, DataOK, TypeInv, SourcesTypeOK, StepInv, Steps, AccountSteps, Ensuring, Operations
  <1>6. CASE UNCHANGED vars
    BY <1>6 DEF vars, service, procs, TypeInv, SourcesTypeOK, StepInv, Ensuring
  <1>7. QED
    BY <1>2, <1>3, <1>4, <1>5, <1>6 DEF SourcesNext

\* Whatever interleaves, fails or crashes, every variable keeps its type; a request
\* at a step of one account always has that account.
THEOREM SourcesTypeCorrect == SourcesSpec => []SourcesTypeOK
  <1>1. SourcesSpec => []TypeInv
    BY TypeInvInit, TypeInvNext, PTL DEF SourcesSpec
  <1>2. TypeInv => SourcesTypeOK
    BY DEF TypeInv
  <1>3. QED
    BY <1>1, <1>2, PTL

-----------------------------------------------------------------------------
(***************************************************************************)
(* What a step of one request does to the others, to the shared promises, to *)
(* the rows and to amoCRM.                                                  *)
(***************************************************************************)
\* The others stay where they are, or settle with r, or go on as r settles.
OthersFollow(r) ==
  \A q \in Requests \ {r} :
    \/ step'[q] = "idle"
    \/ /\ op'[q] = op[q] /\ on'[q] = on[q] /\ found'[q] = found[q] /\ copy'[q] = copy[q]
       /\ \/ step'[q] = step[q]
          \/ /\ step[q] = "await" /\ step'[q] = "check"
             /\ on[q] \in Accounts => pending'[on[q]] = NoRequest

\* A promise begins with an account that has none, and ends with its request.
PendingFollows(r) ==
  \A a \in Accounts :
    \/ pending'[a] = pending[a] /\ (pending[a] = r => step'[r] # "idle")
    \/ pending[a] = NoRequest /\ pending'[a] = r
    \/ pending[a] = r /\ pending'[a] = NoRequest /\ step'[r] = "idle"

LEMMA SettleFollows ==
  ASSUME TypeInv, NEW r \in Requests, Return(r) \/ Throw(r)
  PROVE  OthersFollow(r) /\ PendingFollows(r) /\ step'[r] = "idle"
  <1>1. PICK ok \in BOOLEAN : Settle(r, ok)
    BY DEF Return, Throw
  <1>2. SourcesTypeOK
    BY DEF TypeInv
  <1>3. step'[r] = "idle" /\ PendingFollows(r)
    BY <1>1, <1>2, SettleFacts, SourcesAssumption DEF PendingFollows
  <1>4. OthersFollow(r)
    BY <1>1, <1>2, SettleFacts DEF OthersFollow, Leads
  <1>5. QED
    BY <1>3, <1>4

LEMMA GoToFollows ==
  ASSUME TypeInv, NEW r \in Requests, NEW s \in Steps \ {"idle"}, GoTo(r, s),
         \A q \in Requests \ {r} : found'[q] = found[q] /\ copy'[q] = copy[q]
  PROVE  OthersFollow(r) /\ PendingFollows(r) /\ step'[r] = s
         /\ UNCHANGED <<op, on, pending>>
  BY DEF TypeInv, SourcesTypeOK, GoTo, OthersFollow, PendingFollows

LEMMA EnsureFollows ==
  ASSUME TypeInv, NEW r \in Requests, NEW a \in Accounts, EnsureFor(r, a), UNCHANGED <<copy, found>>,
         on' = [on EXCEPT ![r] = a],
         \A q \in Requests \ {r} : op'[q] = op[q]
  PROVE  /\ OthersFollow(r) /\ PendingFollows(r)
         /\ \/ step'[r] = "join"
            \/ step'[r] = "read" /\ pending[a] = NoRequest /\ pending'[a] = r
                /\ (Deleting(a) => a \in late')
  BY DEF TypeInv, SourcesTypeOK, EnsureFor, OthersFollow, PendingFollows

\* Rows that all have a scope.
Scoped(rows) == \A a \in DOMAIN rows : rows[a].scope

\* Where r itself goes: ensureForAccount() step by step, a deletion step by step.
OwnMove(r) ==
  \/ step'[r] = "idle"
  \/ /\ Ensuring(r)' =>
          \/ /\ Ensuring(r) /\ on'[r] = on[r] /\ UNCHANGED pending
             /\ step[r] = "read" => Exists(on[r])
          \/ /\ step'[r] = "read" /\ pending[on'[r]] = NoRequest /\ pending'[on'[r]] = r
             /\ Deleting(on'[r]) => on'[r] \in late'
     /\ (step'[r] = "rename" /\ op'[r] # "reconcile" /\ ~Scoped(copy'[r])) =>
          step[r] = "rename" /\ op[r] # "reconcile" /\ ~Scoped(copy[r])
     /\ step'[r] = "create" => step[r] = "list" /\ Listed(on[r]) = {} /\ on'[r] = on[r]
     /\ step'[r] = "check" => UNCHANGED pending /\ pending[on'[r]] = NoRequest
     /\ step'[r] = "find" => step[r] = "check" /\ UNCHANGED <<on, pending>>
     /\ step'[r] = "unlink" =>
          /\ step[r] = "find" /\ UNCHANGED <<on, pending>>
          /\ found'[r] = Listed(on[r]) /\ Removable(found'[r])
     /\ step'[r] = "erase" =>
          /\ UNCHANGED <<on, pending>>
          /\ \/ step[r] = "find" /\ Listed(on[r]) = {}
             \/ step[r] = "unlink" /\ sources' = sources \ found[r]

\* What r does to the rows and to amoCRM.
OwnEffect(r) ==
  /\ late \subseteq late'
  /\ \A s \in sources' \ sources :
       \/ step[r] = "create" /\ s.of = on[r]
       \/ step[r] = "createAll" /\ s.by # "ensure" /\ (PastListing(s.of) => s.of \in late')
  /\ \A s, t \in sources' \ sources : s.of = t.of => s = t
  /\ \A s \in sources \ sources' : step[r] = "unlink" /\ s \in found[r]
  /\ \A a \in Accounts :
       \/ Exists(a) <=> row'[a] # AbsentRow
       \/ step[r] = "erase" /\ on[r] = a /\ UNCHANGED <<sources, late>>
  /\ \A a \in Accounts :
       (row[a].scope /\ row'[a] # AbsentRow /\ ~row'[a].scope)
         => step[r] = "rename" /\ ~Scoped(copy[r])

LEMMA QuietEffect ==
  ASSUME TypeInv, NEW r \in Requests, UNCHANGED row, UNCHANGED sources, late \subseteq late'
  PROVE  OwnEffect(r)
  BY DEF OwnEffect, Exists

LEMMA RowEffect ==
  ASSUME TypeInv, NEW r \in Requests, UNCHANGED sources, late \subseteq late',
         \/ step[r] = "rename" /\ \E a \in DOMAIN copy[r] : Exists(a) /\ Upsert(r, a)
         \/ SetScope(on[r])
  PROVE  OwnEffect(r)
  <1> USE DEF TypeInv, SourcesTypeOK
  <1>1. CASE SetScope(on[r])
    BY <1>1 DEF SetScope, OwnEffect, Exists, AbsentRow, Rows, ExternalIds
  <1>2. CASE step[r] = "rename" /\ \E a \in DOMAIN copy[r] : Exists(a) /\ Upsert(r, a)
    <2>1. PICK a \in DOMAIN copy[r] : Exists(a) /\ Upsert(r, a)
      BY <1>2
    <2>2. a \in Accounts /\ copy[r][a] \in Rows
      BY OfCopies
    <2>3. [copy[r][a] EXCEPT !.ext = "own"] # AbsentRow
      BY <2>2 DEF Rows, AbsentRow
    <2>4. \A b \in Accounts : Exists(b) <=> row'[b] # AbsentRow
      BY <2>1, <2>2, <2>3 DEF Upsert, Exists
    <2>5. row'[a].scope = copy[r][a].scope /\ (\A b \in Accounts \ {a} : row'[b] = row[b])
      BY <2>1, <2>2 DEF Upsert, Rows
    <2>6. \A b \in Accounts : (row[b].scope /\ ~row'[b].scope) => ~Scoped(copy[r])
      BY <2>5 DEF Scoped
    <2>7. QED
      BY <1>2, <2>4, <2>6 DEF OwnEffect
  <1>3. QED
    BY <1>1, <1>2

LEMMA PostEffect ==
  ASSUME TypeInv, NEW r \in Requests, UNCHANGED row,
         \/ step[r] = "create" /\ Post({on[r]}, "ensure") /\ UNCHANGED late
         \/ step[r] = "createAll" /\ PostAll(r)
  PROVE  OwnEffect(r)
  <1> USE DEF TypeInv, SourcesTypeOK
  <1>1. CASE step[r] = "create" /\ Post({on[r]}, "ensure") /\ UNCHANGED late
    <2>1. {on[r]} \in SUBSET Accounts
      BY <1>1 DEF StepInv, AccountSteps
    <2>2. QED
      BY <1>1, <2>1, PostFacts DEF OwnEffect, Exists
  <1>2. CASE step[r] = "createAll" /\ PostAll(r)
    <2>1. DOMAIN copy[r] \in SUBSET Accounts
      BY OfCopies
    <2>2. /\ sources \subseteq sources'
          /\ \A s \in sources' \ sources : s.of \in DOMAIN copy[r] /\ s.by = "reconcile"
          /\ \A s, t \in sources' \ sources : s.of = t.of => s = t
      BY <1>2, <2>1, PostFacts DEF PostAll
    <2>3. QED
      BY <1>2, <2>2 DEF OwnEffect, Exists, PostAll
  <1>3. QED
    BY <1>1, <1>2

LEMMA EffectFollows ==
  ASSUME TypeInv, NEW r \in Requests, Effect(r) \/ UNCHANGED <<row, service, late>>
  PROVE  OwnEffect(r)
  <1>1. CASE UNCHANGED <<row, service, late>>
    BY <1>1, QuietEffect DEF service
  <1>2. CASE UNCHANGED <<service, late>>
             /\ \/ step[r] = "rename" /\ \E a \in DOMAIN copy[r] : Exists(a) /\ Upsert(r, a)
                \/ SetScope(on[r])
    BY <1>2, RowEffect DEF service
  <1>3. CASE UNCHANGED row /\ \/ step[r] = "create" /\ Post({on[r]}, "ensure") /\ UNCHANGED late
                              \/ step[r] = "createAll" /\ PostAll(r)
    BY <1>3, PostEffect
  <1>4. CASE step[r] = "unlink" /\ sources' = sources \ found[r] /\ UNCHANGED <<row, created, late>>
    BY <1>4 DEF OwnEffect, Exists
  <1>5. CASE step[r] = "erase" /\ row' = [row EXCEPT ![on[r]] = AbsentRow]
             /\ UNCHANGED <<service, late>>
    BY <1>5 DEF OwnEffect, Exists, service, TypeInv, SourcesTypeOK
  <1>6. QED
    BY <1>1, <1>2, <1>3, <1>4, <1>5 DEF Effect

\* Everything that a step of r does.
Follows(r) == OthersFollow(r) /\ PendingFollows(r) /\ OwnMove(r) /\ OwnEffect(r)

LEMMA RequestFollows ==
  ASSUME TypeInv, NEW r \in Requests, RequestStep(r)
  PROVE  Follows(r)
  <1> USE DEF Steps, OwnMove, Follows
  <1>1. OthersFollow(r) /\ PendingFollows(r) /\ OwnMove(r)
    <2>1. CASE Return(r) \/ Throw(r)
      BY <2>1, SettleFollows
    <2>3. CASE ReadAccount(r) /\ ~Throw(r)
      <3>1. /\ GoTo(r, "rename") /\ UNCHANGED found /\ step[r] = "read" /\ Ensurable(on[r])
            /\ copy' = [copy EXCEPT ![r] = RowsOf({on[r]})]
        BY <2>3 DEF ReadAccount
      <3>2. copy'[r] = RowsOf({on[r]}) /\ (\A q \in Requests \ {r} : copy'[q] = copy[q])
        BY <3>1 DEF TypeInv, SourcesTypeOK
      <3>3. Scoped(RowsOf({on[r]})) /\ Exists(on[r])
        BY <3>1 DEF Scoped, RowsOf, Ensurable
      <3>4. QED
        BY <3>1, <3>2, <3>3, GoToFollows DEF Ensuring
    <2>4. CASE Renamed(r)
      <3>1. PICK s \in {"readAgain", "again"} :
              /\ GoTo(r, s) /\ (s = "again" => op[r] # "reconcile") /\ UNCHANGED found
              /\ \A q \in Requests \ {r} : copy'[q] = copy[q]
        BY <2>4 DEF Renamed, TypeInv, SourcesTypeOK
      <3>2. QED
        BY <2>4, <3>1, GoToFollows DEF Renamed, Ensuring
    <2>5. CASE ReadAgain(r) /\ ~Throw(r)
      <3>1. GoTo(r, "list") /\ UNCHANGED <<copy, found>>
        BY <2>5 DEF ReadAgain
      <3>2. QED
        BY <2>5, <3>1, GoToFollows DEF ReadAgain, Ensuring
    <2>6. CASE (\E a \in Accounts : RenameAccount(r, a)) /\ ~Throw(r)
      <3>1. PICK a \in Accounts :
              /\ GoTo(r, "rename") /\ UNCHANGED found /\ step[r] = "rename"
              /\ copy' = [copy EXCEPT ![r][a].ext = "own"] /\ a \in DOMAIN copy[r]
        BY <2>6 DEF RenameAccount
      <3>2. /\ copy[r] \in Copies
            /\ copy'[r] = [copy[r] EXCEPT ![a] = [copy[r][a] EXCEPT !.ext = "own"]]
            /\ \A q \in Requests \ {r} : copy'[q] = copy[q]
        BY <3>1 DEF TypeInv, SourcesTypeOK
      <3>3. Scoped(copy[r]) => Scoped(copy'[r])
        BY <3>1, <3>2, OfCopies DEF Scoped, Rows
      <3>4. QED
        BY <3>1, <3>2, <3>3, GoToFollows DEF Ensuring, GoTo
    <2>7. CASE ListSources(r) /\ ~Throw(r) /\ ~Return(r)
      <3>1. GoTo(r, "create") /\ UNCHANGED <<copy, found>> /\ Listed(on[r]) = {} /\ step[r] = "list"
        BY <2>7 DEF ListSources
      <3>2. QED
        BY <3>1, GoToFollows DEF Ensuring
    <2>8. CASE CreateSource(r)
      BY <2>8, GoToFollows DEF CreateSource, Ensuring
    <2>9. CASE CheckAccount(r) /\ ~Throw(r)
      <3>1. GoTo(r, "find") /\ UNCHANGED <<copy, found>> /\ step[r] = "check"
        BY <2>9 DEF CheckAccount
      <3>2. QED
        BY <3>1, GoToFollows DEF Ensuring
    <2>10. CASE FindSource(r) /\ ~Throw(r)
      <3>1. PICK s \in {"erase", "unlink"} :
              /\ GoTo(r, s) /\ step[r] = "find" /\ UNCHANGED copy
              /\ found' = [found EXCEPT ![r] = Listed(on[r])]
              /\ IF s = "erase" THEN Listed(on[r]) = {} ELSE Removable(Listed(on[r]))
        BY <2>10 DEF FindSource
      <3>2. found'[r] = Listed(on[r]) /\ (\A q \in Requests \ {r} : found'[q] = found[q])
        BY <3>1 DEF TypeInv, SourcesTypeOK
      <3>3. QED
        BY <3>1, <3>2, GoToFollows DEF Ensuring
    <2>11. CASE DeleteSource(r) /\ ~Throw(r)
      <3>1. GoTo(r, "erase") /\ step[r] = "unlink" /\ UNCHANGED copy /\ sources' = sources \ found[r]
            /\ (\A q \in Requests \ {r} : found'[q] = found[q])
        BY <2>11 DEF DeleteSource, TypeInv, SourcesTypeOK
      <3>2. QED
        BY <3>1, GoToFollows DEF Ensuring
    <2>12. CASE ReadAccounts(r)
      <3>1. PICK s \in {"rename", "listAll"} :
              /\ GoTo(r, s) /\ UNCHANGED found
              /\ \A q \in Requests \ {r} : copy'[q] = copy[q]
        BY <2>12 DEF ReadAccounts, TypeInv, SourcesTypeOK
      <3>2. op[r] = "reconcile"
        BY <2>12 DEF ReadAccounts, TypeInv, StepInv
      <3>3. QED
        BY <3>1, <3>2, GoToFollows DEF Ensuring
    <2>13. CASE ListAllSources(r) /\ ~Return(r)
      <3>1. /\ GoTo(r, "createAll") /\ UNCHANGED found
            /\ \A q \in Requests \ {r} : copy'[q] = copy[q]
        BY <2>13 DEF ListAllSources, TypeInv, SourcesTypeOK
      <3>2. QED
        BY <3>1, GoToFollows DEF Ensuring
    <2>14. CASE ConnectAccount(r) /\ GoTo(r, "scope") /\ UNCHANGED <<copy, found>>
      BY <2>14, GoToFollows DEF Ensuring
    <2>15. CASE /\ step[r] \in {"connect", "scope"} /\ EnsureFor(r, on[r])
                /\ UNCHANGED <<op, on, copy, found>>
      <3>1. on[r] \in Accounts /\ on' = [on EXCEPT ![r] = on[r]]
        BY <2>15 DEF TypeInv, SourcesTypeOK, StepInv, AccountSteps
      <3>2. QED
        BY <2>15, <3>1, EnsureFollows DEF Ensuring
    <2>16. QED
      BY <2>1, <2>3, <2>4, <2>5, <2>6, <2>7, <2>8, <2>9, <2>10, <2>11, <2>12, <2>13, <2>14, <2>15
      DEF RequestStep, ConfirmSource, EraseAccount, CreateAllSources, ConnectAccount, StoreScope
  <1>2. OwnEffect(r)
    <2>1. CASE UNCHANGED <<row, service>> /\ late \subseteq late'
      BY <2>1, QuietEffect DEF service
    <2>2. CASE (\E a \in Accounts : RenameAccount(r, a)) /\ ~UNCHANGED row
      <3>1. step[r] = "rename" /\ \E a \in DOMAIN copy[r] : Exists(a) /\ Upsert(r, a)
        BY <2>2 DEF RenameAccount
      <3>2. QED
        BY <2>2, <3>1, RowEffect DEF RenameAccount, service
    <2>3. CASE CreateSource(r) \/ CreateAllSources(r)
      BY <2>3, PostEffect DEF CreateSource, CreateAllSources
    <2>4. CASE DeleteSource(r)
      BY <2>4 DEF DeleteSource, OwnEffect, Exists
    <2>5. CASE EraseAccount(r)
      BY <2>5 DEF EraseAccount, OwnEffect, Exists, service, TypeInv, SourcesTypeOK
    <2>6. CASE StoreScope(r)
      BY <2>6, RowEffect DEF StoreScope, EnsureFor, service
    <2>7. CASE ConnectAccount(r)
      BY <2>7, QuietEffect DEF ConnectAccount, EnsureFor, service
    <2>8. QED
      BY <2>1, <2>2, <2>3, <2>4, <2>5, <2>6, <2>7
      DEF RequestStep, ReadAccount, Renamed, ReadAgain, RenameAccount, ListSources, ConfirmSource,
          CheckAccount, FindSource, ReadAccounts, ListAllSources
  <1>3. QED
    BY <1>1, <1>2

LEMMA AskFollows ==
  ASSUME TypeInv, NEW r \in Requests, NEW o \in Operations, NEW a \in Accounts, Ask(r, o, a)
  PROVE  Follows(r)
  <1>1. OwnEffect(r)
    BY QuietEffect DEF Ask, EnsureFor, DeleteFor, service
  <1>2. UNCHANGED <<copy, found>> /\ (\A q \in Requests \ {r} : op'[q] = op[q] /\ on'[q] = on[q])
    BY DEF Ask, TypeInv, SourcesTypeOK
  <1>3. CASE o = "ensure"
    <2>1. on' = [on EXCEPT ![r] = a] /\ on'[r] = a /\ EnsureFor(r, a)
      BY <1>3 DEF Ask, TypeInv, SourcesTypeOK
    <2>2. QED
      BY <1>1, <1>2, <2>1, EnsureFollows DEF Follows, OwnMove, Ensuring
  <1>4. CASE o # "ensure"
    <2>1. /\ UNCHANGED pending /\ step' = [step EXCEPT ![r] = step'[r]]
          /\ step'[r] \in {"await", "check", "connect", "readAll"}
          /\ step'[r] = "check" => on'[r] = a /\ pending[a] = NoRequest
      BY <1>4 DEF Ask, DeleteFor, TypeInv, SourcesTypeOK
    <2>2. OthersFollow(r) /\ PendingFollows(r)
      BY <1>2, <2>1 DEF OthersFollow, PendingFollows, TypeInv, SourcesTypeOK
    <2>3. OwnMove(r)
      BY <2>1 DEF OwnMove, Ensuring
    <2>4. QED
      BY <1>1, <2>2, <2>3 DEF Follows
  <1>5. QED
    BY <1>3, <1>4

LEMMA FailFollows ==
  ASSUME TypeInv, NEW r \in Requests, Fails(r)
  PROVE  Follows(r)
  BY SettleFollows, EffectFollows DEF Fails, Follows, OwnMove

-----------------------------------------------------------------------------
(***************************************************************************)
(* A shared creation adds one source.                                       *)
(* ensureForAccountLocked() of an account is entered by one request at a     *)
(* time, whose promise is the shared one; it creates after it has seen that  *)
(* there is no source.                                                      *)
(***************************************************************************)
LeadInv == \A r \in Requests : Ensuring(r) => pending[on[r]] = r

NoneYet ==
  \A r \in Requests : step[r] = "create" => \A s \in Listed(on[r]) : s.by # "ensure"

EnsureInv == TypeInv /\ LeadInv /\ NoneYet /\ EnsureAddsOne

LEMMA StepFollows ==
  ASSUME TypeInv, [SourcesNext]_vars
  PROVE  \/ \E r \in Requests : Follows(r)
         \/ Crash
         \/ UNCHANGED vars
  BY RequestFollows, AskFollows, FailFollows DEF SourcesNext

LEMMA LeadStep ==
  ASSUME TypeInv, TypeInv', LeadInv, NEW r \in Requests, Follows(r)
  PROVE  LeadInv'
  <1> SUFFICES ASSUME NEW q \in Requests, Ensuring(q)' PROVE (pending[on[q]] = q)'
    BY DEF LeadInv
  <1>1. on'[q] \in Accounts /\ step'[q] # "idle"
    BY DEF TypeInv, StepInv, Ensuring
  <1>2. CASE q = r
    BY <1>1, <1>2 DEF Follows, OwnMove, LeadInv
  <1>3. CASE q # r
    <2>1. Ensuring(q) /\ on'[q] = on[q]
      BY <1>1, <1>3 DEF Follows, OthersFollow, Ensuring
    <2>2. pending[on[q]] = q
      BY <2>1 DEF LeadInv
    <2>3. QED
      BY <1>1, <1>3, <2>1, <2>2, SourcesAssumption DEF Follows, PendingFollows
  <1>4. QED
    BY <1>2, <1>3

LEMMA EnsureStep ==
  ASSUME EnsureInv, TypeInv', LeadInv', NEW r \in Requests, Follows(r)
  PROVE  NoneYet' /\ EnsureAddsOne'
  <1>1. ASSUME NEW s \in sources' \ sources, s.by = "ensure"
        PROVE  /\ step[r] = "create" /\ s.of = on[r]
               /\ \A t \in sources : t.of = s.of => t.by # "ensure"
    <2>1. step[r] = "create" /\ s.of = on[r]
      BY <1>1 DEF Follows, OwnEffect
    <2>2. QED
      BY <2>1 DEF EnsureInv, NoneYet, Listed
  <1>2. EnsureAddsOne'
    BY <1>1 DEF EnsureInv, EnsureAddsOne, Follows, OwnEffect
  <1>3. ASSUME NEW q \in Requests, step'[q] = "create", NEW s \in sources',
               s.of = on'[q], s.by = "ensure"
        PROVE  FALSE
    <2>1. CASE q = r
      <3>1. step[r] = "list" /\ Listed(on[r]) = {} /\ on'[r] = on[r]
        BY <1>3, <2>1 DEF Follows, OwnMove
      <3>2. s \notin sources
        BY <1>3, <2>1, <3>1 DEF Listed
      <3>3. QED
        BY <1>1, <1>3, <3>1, <3>2
    <2>2. CASE q # r
      <3>1. step[q] = "create" /\ on'[q] = on[q]
        BY <1>3, <2>2 DEF Follows, OthersFollow
      <3>2. s \notin sources
        BY <1>3, <3>1 DEF EnsureInv, NoneYet, Listed
      <3>3. step[r] = "create" /\ on[r] = on[q]
        BY <1>1, <1>3, <3>1, <3>2
      <3>4. QED
        BY <2>2, <3>1, <3>3 DEF EnsureInv, LeadInv, Ensuring
    <2>3. QED
      BY <2>1, <2>2
  <1>4. QED
    BY <1>2, <1>3 DEF NoneYet, Listed

LEMMA EnsureInvNext == EnsureInv /\ [SourcesNext]_vars => EnsureInv'
  <1> SUFFICES ASSUME EnsureInv, [SourcesNext]_vars PROVE EnsureInv'
    OBVIOUS
  <1>1. TypeInv /\ TypeInv'
    BY TypeInvNext DEF EnsureInv
  <1>2. ASSUME NEW r \in Requests, Follows(r) PROVE EnsureInv'
    BY <1>1, <1>2, LeadStep, EnsureStep DEF EnsureInv
  <1>3. ASSUME Crash PROVE EnsureInv'
    <2>1. \A q \in Requests : step'[q] = "idle"
      BY <1>3 DEF Crash
    <2>2. LeadInv' /\ NoneYet'
      BY <2>1 DEF LeadInv, NoneYet, Ensuring
    <2>3. CASE UNCHANGED sources
      BY <1>1, <2>2, <2>3 DEF EnsureInv, EnsureAddsOne
    <2>4. ASSUME NEW r \in Requests, Effect(r) PROVE EnsureAddsOne'
      <3>1. OwnEffect(r)
        BY <1>1, <2>4, EffectFollows
      <3>2. ASSUME NEW s \in sources' \ sources, s.by = "ensure", NEW t \in sources, t.of = s.of
            PROVE  t.by # "ensure"
        BY <3>1, <3>2 DEF OwnEffect, EnsureInv, NoneYet, Listed
      <3>3. QED
        BY <3>1, <3>2 DEF OwnEffect, EnsureInv, EnsureAddsOne
    <2>5. QED
      BY <1>1, <1>3, <2>2, <2>3, <2>4 DEF EnsureInv, Crash, service
  <1>4. CASE UNCHANGED vars
    BY <1>1, <1>4
    DEF EnsureInv, LeadInv, NoneYet, EnsureAddsOne, Ensuring, Listed, vars, service, procs
  <1>5. QED
    BY <1>1, <1>2, <1>3, <1>4, StepFollows

\* However many requests ask for a source of an account, in whatever order their
\* calls return, fail or are cut off, the shared creation never adds a second one.
THEOREM EnsureAddsOneHolds == SourcesSpec => []EnsureAddsOne
  <1>1. SourcesInit => EnsureInv
    <2>1. SourcesInit => LeadInv /\ NoneYet
      BY DEF SourcesInit, LeadInv, NoneYet, Ensuring
    <2>2. SourcesInit => EnsureAddsOne
      BY DEF SourcesInit, EnsureAddsOne
    <2>3. QED
      BY <2>1, <2>2, TypeInvInit DEF EnsureInv
  <1>2. SourcesSpec => []EnsureInv
    BY <1>1, EnsureInvNext, PTL DEF SourcesSpec
  <1>3. EnsureInv => EnsureAddsOne
    BY DEF EnsureInv
  <1>4. QED
    BY <1>2, <1>3, PTL

-----------------------------------------------------------------------------
(***************************************************************************)
(* A deletion leaves no source behind.                                      *)
(* An account outside late meets no creation between the look at the promise *)
(* and the end of its deletion, and no reconcile() once its sources are      *)
(* listed.                                                                  *)
(***************************************************************************)
Removing == {"check", "find", "unlink", "erase"}

\* No creation runs next to a deletion that has looked for one.
Alone ==
  \A r, q \in Requests :
    (step[r] \in Removing /\ on[r] \notin late /\ Ensuring(q)) => on[q] # on[r]

\* What a deletion is about to remove is all there is; then there is nothing.
Emptied ==
  \A r \in Requests : on[r] \notin late =>
    /\ step[r] = "unlink" => \A s \in Listed(on[r]) : s.origin = "ours" => s \in found[r]
    /\ step[r] = "erase" => \A s \in Listed(on[r]) : s.origin # "ours"

\* A creation for an account that is gone has not got beyond reading it.
GoneStays ==
  \A q \in Requests : (Ensuring(q) /\ on[q] \notin late /\ ~Exists(on[q])) => step[q] = "read"

DeleteInv ==
  /\ TypeInv /\ LeadInv
  /\ Alone /\ Emptied /\ GoneStays /\ DeletedLeavesNoSource

LEMMA AloneStep ==
  ASSUME DeleteInv, TypeInv', LeadInv', NEW r \in Requests, Follows(r)
  PROVE  Alone'
  <1> SUFFICES ASSUME NEW d \in Requests, NEW q \in Requests, (step[d] \in Removing)',
                      (on[d] \notin late)', Ensuring(q)', (on[q] = on[d])'
               PROVE  FALSE
    BY DEF Alone
  <1>1. /\ on'[d] \in Accounts /\ step'[d] # "idle" /\ step'[q] # "idle" /\ d # q
        /\ pending'[on'[d]] = q /\ q # NoRequest
    BY SourcesAssumption DEF TypeInv, StepInv, AccountSteps, Removing, LeadInv, Ensuring
  <1>2. late \subseteq late'
    BY DEF Follows, OwnEffect
  <1>3. CASE d = r
    <2>1. Ensuring(q) /\ on'[q] = on[q]
      BY <1>1, <1>3 DEF Follows, OthersFollow, Ensuring
    <2>2. pending[on[q]] = q
      BY <2>1 DEF DeleteInv, LeadInv
    <2>3. step[d] \in Removing /\ on'[d] = on[d]
      BY <1>1, <1>3, <2>1, <2>2 DEF Follows, OwnMove, Removing
    <2>4. QED
      BY <1>2, <2>1, <2>3 DEF DeleteInv, Alone
  <1>4. CASE d # r
    <2>1. on'[d] = on[d] /\ (step'[d] = step[d] \/ pending'[on[d]] = NoRequest)
      BY <1>1, <1>4 DEF Follows, OthersFollow
    <2>2. step[d] \in Removing
      BY <1>1, <1>4, <2>1 DEF Follows, OthersFollow
    <2>3. CASE Ensuring(q) /\ on'[q] = on[q]
      BY <1>2, <2>1, <2>2, <2>3 DEF DeleteInv, Alone
    <2>4. CASE q = r /\ (Deleting(on'[q]) => on'[q] \in late')
      BY <2>1, <2>2, <2>4 DEF Deleting, Removing
    <2>5. QED
      BY <1>1, <2>3, <2>4 DEF Follows, OthersFollow, OwnMove, Ensuring
  <1>5. QED
    BY <1>3, <1>4

\* A source that r adds to an account outside late' is added by a creation, or while
\* the account is there and no deletion of it has listed its sources.
LEMMA NewSource ==
  ASSUME DeleteInv, NEW r \in Requests, OwnEffect(r), NEW s \in sources' \ sources,
         s.of \notin late'
  PROVE  /\ Exists(s.of)
         /\ \A d \in Requests : on[d] = s.of => step[d] \notin {"unlink", "erase"}
  <1>1. late \subseteq late'
    BY DEF OwnEffect
  <1>2. CASE step[r] = "create" /\ s.of = on[r]
    BY <1>1, <1>2 DEF DeleteInv, GoneStays, Alone, Removing, Ensuring
  <1>3. CASE PastListing(s.of) => s.of \in late'
    BY <1>3 DEF PastListing
  <1>4. QED
    BY <1>2, <1>3 DEF OwnEffect

LEMMA EmptiedStep ==
  ASSUME DeleteInv, TypeInv', NEW r \in Requests, Follows(r)
  PROVE  Emptied'
  <1> SUFFICES ASSUME NEW d \in Requests, (on[d] \notin late)', NEW s \in sources',
                      s.of = on'[d], s.origin = "ours", (step[d] \in {"unlink", "erase"})'
               PROVE  step'[d] = "unlink" /\ s \in found'[d]
    BY DEF Emptied, Listed
  <1>1. late \subseteq late' /\ OwnEffect(r)
    BY DEF Follows, OwnEffect
  <1>2. CASE d = r
    <2>1. on'[d] = on[d]
      BY <1>2 DEF Follows, OwnMove
    <2>2. CASE s \notin sources
      <3>1. step[r] \in {"create", "createAll"}
        BY <1>1, <2>2 DEF OwnEffect
      <3>2. QED
        BY <1>2, <3>1 DEF Follows, OwnMove
    <2>3. CASE s \in sources
      BY <1>1, <1>2, <2>1, <2>3 DEF Follows, OwnMove, DeleteInv, Emptied, Listed
    <2>4. QED
      BY <2>2, <2>3
  <1>3. CASE d # r
    <2>1. on'[d] = on[d] /\ step'[d] = step[d] /\ found'[d] = found[d]
      BY <1>3 DEF Follows, OthersFollow
    <2>2. s \in sources
      BY <1>1, <2>1, NewSource
    <2>3. QED
      BY <1>1, <2>1, <2>2 DEF DeleteInv, Emptied, Listed
  <1>4. QED
    BY <1>2, <1>3

LEMMA GoneStep ==
  ASSUME DeleteInv, TypeInv', NEW r \in Requests, Follows(r)
  PROVE  GoneStays'
  <1> SUFFICES ASSUME NEW q \in Requests, Ensuring(q)', (on[q] \notin late)', ~Exists(on[q])',
                      step'[q] # "read"
               PROVE  FALSE
    BY DEF GoneStays
  <1>1. on'[q] \in Accounts /\ step'[q] # "idle" /\ late \subseteq late'
    BY DEF TypeInv, StepInv, Ensuring, Follows, OwnEffect
  <1>2. Ensuring(q) /\ on'[q] = on[q]
    BY <1>1 DEF Follows, OthersFollow, OwnMove, Ensuring
  <1>3. CASE ~Exists(on[q])
    <2>1. step[q] = "read"
      BY <1>1, <1>2, <1>3 DEF DeleteInv, GoneStays
    <2>2. QED
      BY <1>1, <1>2, <1>3, <2>1 DEF Follows, OthersFollow, OwnMove
  <1>4. CASE Exists(on[q])
    <2>1. step[r] = "erase" /\ on[r] = on[q]
      BY <1>1, <1>2, <1>4 DEF Follows, OwnEffect, Exists
    <2>2. QED
      BY <1>1, <1>2, <2>1 DEF DeleteInv, Alone, Removing
  <1>5. QED
    BY <1>3, <1>4

LEMMA LeftStep ==
  ASSUME DeleteInv, NEW r \in Requests, OwnEffect(r)
  PROVE  DeletedLeavesNoSource'
  <1> SUFFICES ASSUME NEW a \in Accounts, a \notin late', ~Exists(a)', NEW s \in sources',
                      s.of = a, s.origin = "ours"
               PROVE  FALSE
    BY DEF DeletedLeavesNoSource, Listed
  <1>1. late \subseteq late'
    BY DEF OwnEffect
  <1>2. CASE ~Exists(a)
    <2>1. s \in sources
      BY <1>2, NewSource
    <2>2. QED
      BY <1>1, <1>2, <2>1 DEF DeleteInv, DeletedLeavesNoSource, Listed
  <1>3. CASE Exists(a)
    <2>1. step[r] = "erase" /\ on[r] = a /\ UNCHANGED <<sources, late>>
      BY <1>3 DEF OwnEffect, Exists
    <2>2. QED
      BY <2>1 DEF DeleteInv, Emptied, Listed
  <1>4. QED
    BY <1>2, <1>3

LEMMA DeleteInvNext == DeleteInv /\ [SourcesNext]_vars => DeleteInv'
  <1> SUFFICES ASSUME DeleteInv, [SourcesNext]_vars PROVE DeleteInv'
    OBVIOUS
  <1>1. TypeInv /\ TypeInv'
    BY TypeInvNext DEF DeleteInv
  <1>2. ASSUME NEW r \in Requests, Follows(r) PROVE DeleteInv'
    <2>1. LeadInv'
      BY <1>1, <1>2, LeadStep DEF DeleteInv
    <2>2. QED
      BY <1>1, <1>2, <2>1, AloneStep, EmptiedStep, GoneStep, LeftStep DEF DeleteInv, Follows
  <1>3. ASSUME Crash PROVE DeleteInv'
    <2>1. \A q \in Requests : step'[q] = "idle"
      BY <1>3 DEF Crash
    <2>2. LeadInv' /\ Alone' /\ Emptied' /\ GoneStays'
      BY <2>1 DEF LeadInv, Alone, Emptied, GoneStays, Ensuring, Removing
    <2>3. CASE UNCHANGED <<row, service, late>>
      BY <1>1, <2>2, <2>3 DEF DeleteInv, DeletedLeavesNoSource, Exists, Listed, service
    <2>4. ASSUME NEW r \in Requests, Effect(r) PROVE DeletedLeavesNoSource'
      BY <1>1, <2>4, EffectFollows, LeftStep
    <2>5. QED
      BY <1>1, <1>3, <2>2, <2>3, <2>4 DEF DeleteInv, Crash
  <1>4. CASE UNCHANGED vars
    BY <1>1, <1>4
    DEF DeleteInv, LeadInv, Alone, Emptied, GoneStays, DeletedLeavesNoSource, Ensuring, Removing,
        Exists, Listed, vars, service, procs
  <1>5. QED
    BY <1>1, <1>2, <1>3, <1>4, StepFollows

\* An account that is gone has no source of this integration, whatever was in flight
\* as its deletion began and whatever failed or crashed, unless a creation began
\* during the deletion or a reconcile() posted after its listing (late).
THEOREM DeletedLeavesNoSourceHolds == SourcesSpec => []DeletedLeavesNoSource
  <1>1. SourcesInit => DeleteInv
    <2>1. SourcesInit => LeadInv /\ Alone /\ Emptied /\ GoneStays
      BY DEF SourcesInit, LeadInv, Alone, Emptied, GoneStays, Ensuring, Removing
    <2>2. SourcesInit => DeletedLeavesNoSource
      BY DEF SourcesInit, DeletedLeavesNoSource, Exists, AbsentRow, Rows, ExternalIds
    <2>3. QED
      BY <2>1, <2>2, TypeInvInit DEF DeleteInv
  <1>2. SourcesSpec => []DeleteInv
    BY <1>1, DeleteInvNext, PTL DEF SourcesSpec
  <1>3. DeleteInv => DeletedLeavesNoSource
    BY DEF DeleteInv
  <1>4. QED
    BY <1>2, <1>3, PTL

-----------------------------------------------------------------------------
(***************************************************************************)
(* What a step may never do.                                                 *)
(***************************************************************************)
\* A deletion holds sources of this integration only; what ensureForAccount()
\* writes back was read with its scope.
FoundOurs ==
  \A r \in Requests : step[r] = "unlink" => \A s \in found[r] : s.origin = "ours"

ReadWithScope ==
  \A r \in Requests : (step[r] = "rename" /\ op[r] # "reconcile") => Scoped(copy[r])

LEMMA FoundOursNext == TypeInv /\ FoundOurs /\ [SourcesNext]_vars => FoundOurs'
  <1> SUFFICES ASSUME TypeInv, FoundOurs, [SourcesNext]_vars PROVE FoundOurs'
    OBVIOUS
  <1>1. ASSUME NEW r \in Requests, Follows(r) PROVE FoundOurs'
    BY <1>1 DEF FoundOurs, Follows, OthersFollow, OwnMove, Removable
  <1>2. CASE Crash
    BY <1>2 DEF Crash, FoundOurs
  <1>3. CASE UNCHANGED vars
    BY <1>3 DEF FoundOurs, vars, procs
  <1>4. QED
    BY <1>1, <1>2, <1>3, StepFollows

\* No step, no failed call and no crash removes a source that is not ours.
THEOREM ForeignSourceKeptHolds == SourcesSpec => ForeignSourceKept
  <1>1. SourcesInit => FoundOurs
    BY DEF SourcesInit, FoundOurs
  <1>2. TypeInv /\ FoundOurs /\ [SourcesNext]_vars
          => [\A s \in sources : s.origin # "ours" => s \in sources']_vars
    <2> SUFFICES ASSUME TypeInv, FoundOurs, [SourcesNext]_vars
                 PROVE  \A s \in sources : s.origin # "ours" => s \in sources'
      OBVIOUS
    <2>1. ASSUME NEW r \in Requests, OwnEffect(r)
          PROVE  \A s \in sources : s.origin # "ours" => s \in sources'
      BY <2>1 DEF OwnEffect, FoundOurs
    <2>2. CASE Crash
      BY <2>1, <2>2, EffectFollows DEF Crash, service
    <2>3. CASE UNCHANGED vars
      BY <2>3 DEF vars, service
    <2>4. QED
      BY <2>1, <2>2, <2>3, StepFollows DEF Follows
  <1>3. QED
    BY <1>1, <1>2, TypeInvInit, TypeInvNext, FoundOursNext, PTL DEF SourcesSpec, ForeignSourceKept

LEMMA ReadWithScopeNext == TypeInv /\ ReadWithScope /\ [SourcesNext]_vars => ReadWithScope'
  <1> SUFFICES ASSUME TypeInv, ReadWithScope, [SourcesNext]_vars PROVE ReadWithScope'
    OBVIOUS
  <1>1. ASSUME NEW r \in Requests, Follows(r) PROVE ReadWithScope'
    BY <1>1 DEF ReadWithScope, Scoped, Follows, OthersFollow, OwnMove
  <1>2. CASE Crash
    BY <1>2 DEF Crash, ReadWithScope
  <1>3. CASE UNCHANGED vars
    BY <1>3 DEF ReadWithScope, Scoped, vars, procs
  <1>4. QED
    BY <1>1, <1>2, <1>3, StepFollows

\* The whole row that ensureForAccount() writes back never takes away a scope: it
\* has read the row with one.
THEOREM EnsureKeepsScopeHolds == SourcesSpec => EnsureKeepsScope
  <1> DEFINE Kept == \A a \in Accounts :
               (row[a].scope /\ row'[a].ext # "absent" /\ ~row'[a].scope)
                 => \E r \in Requests : op[r] = "reconcile" /\ step[r] = "rename"
  <1>1. SourcesInit => ReadWithScope
    BY DEF SourcesInit, ReadWithScope
  <1>2. TypeInv /\ ReadWithScope /\ [SourcesNext]_vars => [Kept]_vars
    <2> SUFFICES ASSUME TypeInv, ReadWithScope, [SourcesNext]_vars PROVE Kept
      OBVIOUS
    <2>1. ASSUME NEW r \in Requests, OwnEffect(r) PROVE Kept
      BY <2>1 DEF OwnEffect, ReadWithScope, AbsentRow
    <2>2. CASE UNCHANGED row
      BY <2>2
    <2>3. CASE Crash
      BY <2>1, <2>2, <2>3, EffectFollows DEF Crash
    <2>4. QED
      BY <2>1, <2>2, <2>3, StepFollows DEF Follows, vars
  <1>3. QED
    BY <1>1, <1>2, TypeInvInit, TypeInvNext, ReadWithScopeNext, PTL
    DEF SourcesSpec, EnsureKeepsScope

-----------------------------------------------------------------------------
(***************************************************************************)
(* The shared promises implement SingleFlight.                              *)
(* A promise belongs to the one request that is inside the creation of its   *)
(* account, and whoever waits, waits for a promise.  So the end of that       *)
(* request is the end of the creation for everybody in it.                  *)
(***************************************************************************)
Aboard == [a \in Accounts |-> {r \in Requests : on[r] = a /\ InCreation(r)}]

Waiting == {"join", "await"}

OpInv == \A r \in Requests : step[r] \in AccountSteps => op[r] # "reconcile"

PromiseInv ==
  /\ \A a \in Accounts :
       pending[a] # NoRequest => on[pending[a]] = a /\ Ensuring(pending[a])
  /\ \A r \in Requests : step[r] \in Waiting => pending[on[r]] # NoRequest

CreationInv == TypeInv /\ LeadInv /\ OpInv /\ PromiseInv

\* The four ways in which a step of r meets the shared promises.
OthersStay(r) ==
  \A q \in Requests \ {r} : step'[q] = step[q] /\ op'[q] = op[q] /\ on'[q] = on[q]

StaysOutside(r) ==
  /\ ~InCreation(r) /\ ~InCreation(r)'
  /\ OthersStay(r) /\ UNCHANGED pending
  /\ step'[r] \in AccountSteps => op'[r] # "reconcile"

StaysInside(r) ==
  /\ Ensuring(r) /\ Ensuring(r)'
  /\ OthersStay(r) /\ UNCHANGED <<op, on, pending>>
  /\ op[r] # "reconcile"

Enters(r, a) ==
  /\ ~InCreation(r)
  /\ OthersStay(r) /\ on'[r] = a /\ op'[r] # "reconcile"
  /\ \/ step'[r] \in Waiting /\ pending[a] # NoRequest /\ UNCHANGED pending
     \/ step'[r] = "read" /\ pending[a] = NoRequest /\ pending' = [pending EXCEPT ![a] = r]

Settles(r) == step[r] \notin Waiting /\ (Return(r) \/ Throw(r))

Meets(r) ==
  StaysOutside(r) \/ StaysInside(r) \/ Settles(r) \/ \E a \in Accounts : Enters(r, a)

LEMMA GoToMeets ==
  ASSUME CreationInv, NEW r \in Requests, NEW s \in Steps \ Waiting, GoTo(r, s),
         \/ /\ Ensuring(r) /\ op[r] # "reconcile"
            /\ s \in {"again", "list", "create", "confirm", "rename"}
         \/ /\ ~InCreation(r)
            /\ s \notin {"read", "again", "list", "create", "confirm"}
            /\ s \in AccountSteps => op[r] # "reconcile"
            /\ s = "rename" => op[r] = "reconcile"
  PROVE  StaysOutside(r) \/ StaysInside(r)
  <1> USE DEF CreationInv, TypeInv, SourcesTypeOK, GoTo, OthersStay
  <1>1. OthersStay(r) /\ UNCHANGED <<op, on, pending>> /\ step'[r] = s
    OBVIOUS
  <1>2. CASE Ensuring(r)
    BY <1>1, <1>2 DEF StaysInside, Ensuring, InCreation
  <1>3. CASE ~Ensuring(r)
    BY <1>1, <1>3 DEF StaysOutside, Ensuring, InCreation, Waiting
  <1>4. QED
    BY <1>2, <1>3

LEMMA EnsureMeets ==
  ASSUME CreationInv, NEW r \in Requests, NEW a \in Accounts, EnsureFor(r, a),
         ~InCreation(r), on' = [on EXCEPT ![r] = a], op'[r] # "reconcile",
         \A q \in Requests \ {r} : op'[q] = op[q]
  PROVE  Enters(r, a)
  BY DEF CreationInv, TypeInv, SourcesTypeOK, EnsureFor, Enters, OthersStay, Waiting

LEMMA RequestMeets ==
  ASSUME CreationInv, NEW r \in Requests, RequestStep(r)
  PROVE  Meets(r)
  <1> USE DEF Steps, AccountSteps, Waiting, Ensuring, InCreation
  <1>1. /\ step[r] \in AccountSteps => op[r] # "reconcile"
        /\ step[r] \in {"readAll", "readAgain", "listAll", "createAll"} => op[r] = "reconcile"
        /\ step[r] \in AccountSteps => on[r] \in Accounts
    BY DEF CreationInv, OpInv, TypeInv, StepInv
  <1>2. step[r] \notin Waiting
    BY DEF RequestStep, ReadAccount, Renamed, ReadAgain, RenameAccount, ListSources, CreateSource,
           ConfirmSource, CheckAccount, FindSource, DeleteSource, EraseAccount, ReadAccounts,
           ListAllSources, CreateAllSources, ConnectAccount, StoreScope
  <1>3. CASE Return(r) \/ Throw(r)
    BY <1>2, <1>3 DEF Settles, Meets
  <1>4. CASE ReadAccount(r) /\ ~Throw(r)
    BY <1>1, <1>4, GoToMeets DEF ReadAccount, Meets
  <1>5. CASE Renamed(r)
    BY <1>1, <1>5, GoToMeets DEF Renamed, Meets
  <1>6. CASE ReadAgain(r) /\ ~Throw(r)
    BY <1>1, <1>6, GoToMeets DEF ReadAgain, Meets
  <1>7. CASE (\E a \in Accounts : RenameAccount(r, a)) /\ ~Throw(r)
    <2>1. GoTo(r, "rename") /\ step[r] = "rename"
      BY <1>7 DEF RenameAccount
    <2>2. QED
      BY <1>1, <2>1, GoToMeets DEF Meets
  <1>8. CASE ListSources(r) /\ ~Throw(r) /\ ~Return(r)
    <2>1. GoTo(r, "create") /\ step[r] = "list"
      BY <1>8 DEF ListSources
    <2>2. QED
      BY <1>1, <2>1, GoToMeets DEF Meets
  <1>9. CASE CreateSource(r)
    BY <1>1, <1>9, GoToMeets DEF CreateSource, Meets
  <1>10. CASE (CheckAccount(r) \/ FindSource(r) \/ DeleteSource(r)) /\ ~Throw(r)
    <2>1. PICK s \in {"find", "unlink", "erase"} :
            GoTo(r, s) /\ step[r] \in {"check", "find", "unlink"}
      BY <1>10 DEF CheckAccount, FindSource, DeleteSource
    <2>2. QED
      BY <1>1, <2>1, GoToMeets DEF Meets
  <1>11. CASE ReadAccounts(r) \/ (ListAllSources(r) /\ ~Return(r))
    <2>1. PICK s \in {"rename", "listAll", "createAll"} :
            GoTo(r, s) /\ step[r] \in {"readAll", "readAgain", "listAll"}
      BY <1>11 DEF ReadAccounts, ListAllSources
    <2>2. StaysOutside(r)
      BY <1>1, <2>1
      DEF StaysOutside, OthersStay, GoTo, CreationInv, TypeInv, SourcesTypeOK
    <2>3. QED
      BY <2>2 DEF Meets
  <1>12. CASE ConnectAccount(r) /\ GoTo(r, "scope")
    BY <1>1, <1>12, GoToMeets DEF ConnectAccount, Meets
  <1>13. CASE step[r] \in {"connect", "scope"} /\ EnsureFor(r, on[r]) /\ UNCHANGED <<op, on>>
    <2>1. on[r] \in Accounts /\ on' = [on EXCEPT ![r] = on[r]] /\ op'[r] # "reconcile"
      BY <1>1, <1>13 DEF CreationInv, TypeInv, SourcesTypeOK
    <2>2. QED
      BY <1>13, <2>1, EnsureMeets DEF Meets
  <1>14. QED
    BY <1>3, <1>4, <1>5, <1>6, <1>7, <1>8, <1>9, <1>10, <1>11, <1>12, <1>13
    DEF RequestStep, ConfirmSource, EraseAccount, CreateAllSources, ConnectAccount, StoreScope

LEMMA AskMeets ==
  ASSUME CreationInv, NEW r \in Requests, NEW o \in Operations, NEW a \in Accounts, Ask(r, o, a)
  PROVE  Meets(r)
  <1>1. /\ ~InCreation(r) /\ op'[r] = o
        /\ \A q \in Requests \ {r} : op'[q] = op[q] /\ on'[q] = on[q]
    BY DEF Ask, CreationInv, TypeInv, SourcesTypeOK, InCreation
  <1>2. CASE o = "ensure"
    <2>1. on' = [on EXCEPT ![r] = a] /\ EnsureFor(r, a)
      BY <1>2 DEF Ask
    <2>2. QED
      BY <1>1, <1>2, <2>1, EnsureMeets DEF Meets
  <1>3. CASE o = "delete" /\ pending[a] # NoRequest
    BY <1>1, <1>3
    DEF Ask, DeleteFor, Meets, Enters, OthersStay, Waiting, CreationInv, TypeInv, SourcesTypeOK
  <1>4. CASE \/ o = "delete" /\ pending[a] = NoRequest
             \/ o \in {"connect", "reconcile"}
    <2>1. /\ UNCHANGED pending
          /\ \E s \in {"check", "connect", "readAll"} :
               /\ step' = [step EXCEPT ![r] = s]
               /\ s = "readAll" <=> o = "reconcile"
      BY <1>4 DEF Ask, DeleteFor
    <2>2. StaysOutside(r)
      BY <1>1, <2>1
      DEF StaysOutside, OthersStay, InCreation, AccountSteps, CreationInv, TypeInv, SourcesTypeOK
    <2>3. QED
      BY <2>2 DEF Meets
  <1>5. QED
    BY <1>2, <1>3, <1>4 DEF Ask, Operations

LEMMA StepMeets ==
  ASSUME CreationInv, [SourcesNext]_vars
  PROVE  \/ \E r \in Requests : Meets(r)
         \/ Crash
         \/ UNCHANGED vars
  <1>1. ASSUME NEW r \in Requests, Fails(r) PROVE Meets(r)
    BY <1>1 DEF Fails, Meets, Settles, Waiting
  <1>2. QED
    BY <1>1, RequestMeets, AskMeets DEF SourcesNext

\* Who ends with r, and where the others are then.
LEMMA SettleEnds ==
  ASSUME CreationInv, NEW r \in Requests, Settles(r)
  PROVE  /\ pending' = [a \in Accounts |-> IF pending[a] = r THEN NoRequest ELSE pending[a]]
         /\ step'[r] = "idle" /\ on'[r] = NoAccount
         /\ \A q \in Requests \ {r} :
              IF Leads(r) /\ on[q] = on[r] /\ step[q] \in Waiting
                THEN \/ step'[q] = "idle" /\ on'[q] = NoAccount
                     \/ step'[q] = "check" /\ on'[q] = on[q] /\ op'[q] = op[q]
                ELSE step'[q] = step[q] /\ op'[q] = op[q] /\ on'[q] = on[q]
  <1>1. PICK ok \in BOOLEAN : Settle(r, ok)
    BY DEF Settles, Return, Throw
  <1>2. /\ step \in [Requests -> Steps] /\ on \in [Requests -> Accounts \cup {NoAccount}]
        /\ step[r] \notin Waiting
    BY DEF CreationInv, TypeInv, SourcesTypeOK, Settles
  <1>3. \A q \in Requests :
          q \in Woken(r) <=> (Leads(r) /\ on[q] = on[r] /\ step[q] \in Waiting)
    BY DEF Woken, Waiting
  <1>4. r \notin Woken(r)
    BY <1>2, <1>3
  <1>5. QED
    BY <1>1, <1>2, <1>3, <1>4 DEF Settle

LEMMA OpStep ==
  ASSUME CreationInv, NEW r \in Requests, Meets(r)
  PROVE  OpInv'
  <1>1. ASSUME NEW a \in Accounts, Enters(r, a) PROVE OpInv'
    BY <1>1 DEF Enters, OthersStay, CreationInv, OpInv
  <1>2. CASE StaysOutside(r)
    BY <1>2 DEF StaysOutside, OthersStay, CreationInv, OpInv
  <1>3. CASE StaysInside(r)
    BY <1>3 DEF StaysInside, OthersStay, CreationInv, OpInv
  <1>4. CASE Settles(r)
    <2>1. \A q \in Requests :
            \/ step'[q] = "idle"
            \/ step'[q] = step[q] /\ op'[q] = op[q]
            \/ step[q] \in Waiting /\ op'[q] = op[q]
      BY <1>4, SettleEnds
    <2>2. QED
      BY <2>1 DEF CreationInv, OpInv, AccountSteps, Waiting
  <1>5. QED
    BY <1>1, <1>2, <1>3, <1>4 DEF Meets

LEMMA PromiseStep ==
  ASSUME CreationInv, TypeInv', NEW r \in Requests, Meets(r)
  PROVE  PromiseInv'
  <1> USE SourcesAssumption DEF CreationInv, PromiseInv, Ensuring, InCreation, Waiting
  <1>1. \A a \in Accounts : pending[a] # NoRequest => pending[a] \in Requests
    BY DEF TypeInv, SourcesTypeOK
  <1>2. \A q \in Requests : step[q] \in Waiting => on[q] \in Accounts
    BY DEF TypeInv, StepInv, AccountSteps
  <1>3. ASSUME NEW a \in Accounts, Enters(r, a) PROVE PromiseInv'
    <2>1. CASE step'[r] \in Waiting /\ pending[a] # NoRequest /\ UNCHANGED pending
      BY <1>1, <1>3, <2>1 DEF Enters, OthersStay
    <2>2. CASE step'[r] = "read" /\ pending[a] = NoRequest /\ pending' = [pending EXCEPT ![a] = r]
      <3>1. /\ pending'[a] = r /\ (\A b \in Accounts \ {a} : pending'[b] = pending[b])
            /\ on'[r] = a
        BY <1>3, <2>2 DEF Enters, TypeInv, SourcesTypeOK
      <3>2. \A q \in Requests \ {r} : step'[q] = step[q] /\ op'[q] = op[q] /\ on'[q] = on[q]
        BY <1>3 DEF Enters, OthersStay
      <3>3. \A b \in Accounts \ {a} : pending[b] # r
        BY <1>3 DEF Enters
      <3>4. QED
        BY <1>1, <1>2, <2>2, <3>1, <3>2, <3>3
    <2>3. QED
      BY <1>3, <2>1, <2>2 DEF Enters
  <1>4. CASE StaysOutside(r)
    BY <1>1, <1>4 DEF StaysOutside, OthersStay
  <1>5. CASE StaysInside(r)
    BY <1>1, <1>5 DEF StaysInside, OthersStay
  <1>6. CASE Settles(r)
    <2>1. ASSUME NEW a \in Accounts, pending'[a] # NoRequest
          PROVE  on'[pending'[a]] = a /\ Ensuring(pending[a])' /\ pending'[a] = pending[a]
      <3>1. pending'[a] = pending[a] /\ pending[a] \in Requests \ {r}
        BY <1>1, <1>6, <2>1, SettleEnds
      <3>2. step[pending[a]] \notin Waiting
        BY <3>1
      <3>3. QED
        BY <1>6, <3>1, <3>2, SettleEnds
    <2>2. ASSUME NEW q \in Requests, step'[q] \in Waiting
          PROVE  pending'[on'[q]] # NoRequest
      <3>1. q # r /\ step'[q] = step[q] /\ on'[q] = on[q] /\ ~(Leads(r) /\ on[q] = on[r])
        BY <1>6, <2>2, SettleEnds
      <3>2. on[q] \in Accounts /\ pending[on[q]] # NoRequest
        BY <1>2, <2>2, <3>1
      <3>3. pending[on[q]] # r
        BY <3>1, <3>2 DEF Leads
      <3>4. QED
        BY <1>6, <3>1, <3>2, <3>3, SettleEnds
    <2>3. QED
      BY <2>1, <2>2
  <1>7. QED
    BY <1>3, <1>4, <1>5, <1>6 DEF Meets

LEMMA CreationInvNext ==
  EnsureInv /\ CreationInv /\ [SourcesNext]_vars => CreationInv'
  <1> SUFFICES ASSUME EnsureInv, CreationInv, [SourcesNext]_vars PROVE CreationInv'
    OBVIOUS
  <1>1. TypeInv' /\ LeadInv'
    BY EnsureInvNext DEF EnsureInv
  <1>2. ASSUME NEW r \in Requests, Meets(r) PROVE OpInv' /\ PromiseInv'
    BY <1>1, <1>2, OpStep, PromiseStep
  <1>3. ASSUME Crash PROVE OpInv' /\ PromiseInv'
    BY <1>3 DEF Crash, OpInv, PromiseInv, AccountSteps, Waiting
  <1>4. CASE UNCHANGED vars
    <2>1. UNCHANGED <<step, op, on, pending>>
      BY <1>4 DEF vars, procs
    <2>2. OpInv'
      BY <2>1 DEF CreationInv, OpInv
    <2>3. step' = step /\ op' = op /\ on' = on /\ pending' = pending /\ PromiseInv
      BY <2>1 DEF CreationInv
    <2>4. PromiseInv'
      BY <2>3 DEF PromiseInv, Ensuring, Waiting
    <2>5. QED
      BY <1>1, <2>2, <2>4 DEF CreationInv
  <1>5. QED
    BY <1>1, <1>2, <1>3, <1>4, StepMeets DEF CreationInv

-----------------------------------------------------------------------------
\* The refinement mapping, one step at a time.
LEMMA CreationStutters ==
  ASSUME UNCHANGED pending,
         \A q \in Requests : /\ InCreation(q)' <=> InCreation(q)
                             /\ InCreation(q) => on'[q] = on[q]
  PROVE  UNCHANGED Creation!flightVars
  <1>1. ASSUME NEW a \in Accounts
        PROVE  {q \in Requests : on'[q] = a /\ InCreation(q)'}
                 = {q \in Requests : on[q] = a /\ InCreation(q)}
    OBVIOUS
  <1>2. Aboard' = Aboard
    BY <1>1 DEF Aboard
  <1>3. QED
    BY <1>2 DEF Creation!flightVars, Aboard

LEMMA CreationBoards ==
  ASSUME CreationInv, NEW r \in Requests, NEW a \in Accounts, Enters(r, a)
  PROVE  Creation!Board(a, r)
  <1> USE DEF Enters, OthersStay, InCreation, Waiting
  <1>1. /\ ~InCreation(r) /\ InCreation(r)' /\ on'[r] = a
        /\ \A q \in Requests \ {r} : (InCreation(q)' <=> InCreation(q)) /\ on'[q] = on[q]
    OBVIOUS
  <1> HIDE DEF InCreation
  <1>2. {q \in Requests : on'[q] = a /\ InCreation(q)'}
          = {q \in Requests : on[q] = a /\ InCreation(q)} \cup {r}
    BY <1>1
  <1>3. ASSUME NEW b \in Accounts, b # a
        PROVE  {q \in Requests : on'[q] = b /\ InCreation(q)'}
                 = {q \in Requests : on[q] = b /\ InCreation(q)}
    BY <1>1, <1>3
  <1>4. Aboard' = [Aboard EXCEPT ![a] = @ \cup {r}]
    <2>1. Aboard'[a] = Aboard[a] \cup {r}
      BY <1>2 DEF Aboard
    <2>2. \A b \in Accounts \ {a} : Aboard'[b] = Aboard[b]
      BY <1>3 DEF Aboard
    <2>3. Aboard = [b \in Accounts |-> Aboard[b]] /\ Aboard' = [b \in Accounts |-> Aboard'[b]]
      BY DEF Aboard
    <2>4. QED
      BY <2>1, <2>2, <2>3
  <1>5. r \notin Aboard[a]
    BY <1>1 DEF Aboard
  <1>6. \/ pending[a] = NoRequest /\ pending' = [pending EXCEPT ![a] = r]
        \/ pending[a] # NoRequest /\ UNCHANGED pending
    OBVIOUS
  <1>7. QED
    BY <1>4, <1>5, <1>6 DEF Creation!Board, Aboard

LEMMA CreationLands ==
  ASSUME CreationInv, NEW r \in Requests, Settles(r), NEW a \in Accounts, a = on[r], Leads(r)
  PROVE  Creation!Land(a)
  <1> USE SourcesAssumption
  <1>1. a \in Accounts /\ pending[a] = r
    BY DEF Leads
  <1>2. \A b \in Accounts : pending[b] = r => b = a
    BY DEF CreationInv, PromiseInv
  <1>3. pending' = [pending EXCEPT ![a] = NoRequest]
    BY <1>1, <1>2, SettleEnds DEF CreationInv, TypeInv, SourcesTypeOK
  <1>4. ASSUME NEW q \in Requests, InCreation(q)', on'[q] = a
        PROVE  FALSE
    <2>1. q # r /\ step'[q] = step[q] /\ op'[q] = op[q] /\ on[q] = a /\ step[q] \notin Waiting
      BY <1>1, <1>4, SettleEnds DEF InCreation, Waiting
    <2>2. Ensuring(q)
      BY <1>4, <2>1 DEF InCreation, Ensuring, Waiting
    <2>3. QED
      BY <1>1, <2>1, <2>2 DEF CreationInv, LeadInv
  <1>5. ASSUME NEW b \in Accounts, b # a, NEW q \in Requests
        PROVE  (on'[q] = b /\ InCreation(q)') <=> (on[q] = b /\ InCreation(q))
    <2>1. CASE q = r
      BY <1>5, <2>1, SettleEnds
    <2>2. CASE q # r
      BY <1>1, <1>5, <2>2, SettleEnds DEF InCreation
    <2>3. QED
      BY <2>1, <2>2
  <1>6. ASSUME NEW b \in Accounts, b # a
        PROVE  {q \in Requests : on'[q] = b /\ InCreation(q)'}
                 = {q \in Requests : on[q] = b /\ InCreation(q)}
    BY <1>5, <1>6
  <1>7. {q \in Requests : on'[q] = a /\ InCreation(q)'} = {}
    BY <1>4
  <1>8. Aboard' = [Aboard EXCEPT ![a] = {}]
    BY <1>6, <1>7 DEF Aboard
  <1>9. QED
    BY <1>1, <1>3, <1>8 DEF Creation!Land, Aboard

LEMMA CreationPassedBy ==
  ASSUME CreationInv, NEW r \in Requests, Settles(r), ~Leads(r)
  PROVE  UNCHANGED Creation!flightVars
  <1>1. ~InCreation(r) /\ ~InCreation(r)'
    <2>1. ~Ensuring(r)
      BY DEF CreationInv, LeadInv, TypeInv, StepInv, Leads
    <2>2. QED
      BY <2>1, SettleEnds DEF Settles, InCreation, Ensuring, Waiting
  <1>2. \A a \in Accounts : pending[a] # r
    BY SourcesAssumption DEF CreationInv, PromiseInv, Leads
  <1>3. UNCHANGED pending
    BY <1>2, SettleEnds DEF CreationInv, TypeInv, SourcesTypeOK
  <1>4. \A q \in Requests \ {r} : (InCreation(q)' <=> InCreation(q)) /\ on'[q] = on[q]
    BY SettleEnds DEF InCreation
  <1>5. QED
    BY <1>1, <1>3, <1>4, CreationStutters

LEMMA CreationStep ==
  CreationInv /\ [SourcesNext]_vars => [Creation!FlightNext]_(Creation!flightVars)
  <1> SUFFICES ASSUME CreationInv, [SourcesNext]_vars
               PROVE  Creation!FlightNext \/ UNCHANGED Creation!flightVars
    OBVIOUS
  <1>1. ASSUME NEW r \in Requests, StaysOutside(r) \/ StaysInside(r)
        PROVE  UNCHANGED Creation!flightVars
    <2>1. /\ InCreation(r)' <=> InCreation(r)
          /\ InCreation(r) => on'[r] = on[r]
          /\ UNCHANGED pending
      BY <1>1 DEF StaysOutside, StaysInside, Ensuring, InCreation
    <2>2. \A q \in Requests \ {r} : (InCreation(q)' <=> InCreation(q)) /\ on'[q] = on[q]
      BY <1>1 DEF StaysOutside, StaysInside, OthersStay, InCreation
    <2>3. QED
      BY <2>1, <2>2, CreationStutters
  <1>2. ASSUME NEW r \in Requests, Settles(r)
        PROVE  Creation!FlightNext \/ UNCHANGED Creation!flightVars
    <2>1. CASE Leads(r)
      <3>1. PICK a \in Accounts : a = on[r]
        BY <2>1 DEF Leads
      <3>2. Creation!Land(a)
        BY <1>2, <2>1, <3>1, CreationLands
      <3>3. QED
        BY <3>2 DEF Creation!FlightNext
    <2>2. CASE ~Leads(r)
      BY <1>2, <2>2, CreationPassedBy
    <2>3. QED
      BY <2>1, <2>2
  <1>3. ASSUME NEW r \in Requests, NEW a \in Accounts, Enters(r, a)
        PROVE  Creation!FlightNext
    BY <1>3, CreationBoards DEF Creation!FlightNext
  <1>4. CASE Crash
    <2>1. pending' = [a \in Accounts |-> NoRequest] /\ \A q \in Requests : step'[q] = "idle"
      BY <1>4 DEF Crash
    <2>2. \A q \in Requests : ~InCreation(q)'
      BY <2>1 DEF InCreation
    <2>3. Creation!Ground
      BY <2>1, <2>2 DEF Creation!Ground
    <2>4. QED
      BY <2>3 DEF Creation!FlightNext
  <1>5. CASE UNCHANGED vars
    <2>1. UNCHANGED <<step, op, on, pending>>
      BY <1>5 DEF vars, procs
    <2>2. QED
      BY <2>1, CreationStutters DEF InCreation
  <1>6. QED
    BY <1>1, <1>2, <1>3, <1>4, <1>5, StepMeets DEF Meets

\* The promise that ensureForAccount() shares for each account implements
\* SingleFlight: one creation at a time, which everybody who asks meanwhile, and a
\* deletion, waits for, and which leaves nobody behind, also when it fails.
THEOREM CreationsAreShared == SourcesSpec => CreationIsShared
  <1>1. SourcesInit => EnsureInv /\ CreationInv
    <2>1. SourcesInit => LeadInv /\ NoneYet /\ OpInv /\ PromiseInv
      BY DEF SourcesInit, LeadInv, NoneYet, OpInv, PromiseInv, Ensuring, AccountSteps, Waiting
    <2>2. SourcesInit => EnsureAddsOne
      BY DEF SourcesInit, EnsureAddsOne
    <2>3. QED
      BY <2>1, <2>2, TypeInvInit DEF EnsureInv, CreationInv
  <1>2. SourcesInit => Creation!FlightInit
    BY DEF SourcesInit, InCreation, Creation!FlightInit
  <1>3. SourcesSpec => [](EnsureInv /\ CreationInv)
    BY <1>1, EnsureInvNext, CreationInvNext, PTL DEF SourcesSpec
  <1>4. QED
    BY <1>2, <1>3, CreationStep, PTL DEF SourcesSpec, CreationIsShared, Creation!FlightSpec
=============================================================================
