---------------------------- MODULE QrOnboarding ----------------------------
(***************************************************************************)
(* TelegramQrOnboardingService (src/src/runtime/qr-onboarding.ts): the job  *)
(* the admin page polls, the run behind it with the callbacks of the        *)
(* Telegram library, the operator's password and cancel, and the secret and *)
(* account row the run leaves behind.                                       *)
(*                                                                          *)
(* run[l] is the await the run of login l has reached.  The library, the    *)
(* phone that scans the code and amoCRM's side are external.                *)
(***************************************************************************)
EXTENDS Naturals, FiniteSets

CONSTANTS
  Logins,       \* ids start() hands out
  Phones,       \* phone numbers of the Telegram accounts that may scan a code
  AmoAccounts,  \* amoCRM accounts an operator may enter
  MaxMishaps,   \* bound: failing statements and calls, crashes
  MaxCodes,     \* bound: how often the library shows a login a code
  None

ASSUME QrAssumption ==
  /\ MaxMishaps \in Nat
  /\ MaxCodes \in Nat
  /\ None \notin Logins \cup Phones \cup AmoAccounts

VARIABLES
  state,        \* what status() shows: starting, qr, password, connected, error, cancelled
  cancelled,    \* logins cancel() was called for
  resolver,     \* logins whose password promise waits for password() or cancel()
  run,          \* the progress of the run
  thrown,       \* runs that are ending with an error
  codes,        \* how often the code was shown
  phone,        \* who signed in
  amo,          \* the amoCRM account entered
  secrets,      \* logins whose session is in the secret store
  rows,         \* account rows: the login that made it, or None, and their key
  mishaps,
  cancelledAt,  \* history: where the run was when cancel() was called
  stranded      \* history: logins whose session a crash or a failing DELETE left behind

page == <<state, cancelled, resolver>>
progress == <<run, thrown, codes>>
identity == <<phone, amo>>
database == <<secrets, rows>>
history == <<mishaps, cancelledAt, stranded>>
qrVars == <<page, progress, identity, database, history>>

Active == {"starting", "qr", "password"}
JobStates == Active \cup {"none", "connected", "error", "cancelled"}
SigningIn == {"connect", "signin", "render", "password"}
Saving == {"me", "find", "put", "upsert", "undo", "reconnect"}
RunSteps == {"none", "close", "ended", "gone"} \cup SigningIn \cup Saving

QrInit ==
  /\ state = [l \in Logins |-> "none"]
  /\ cancelled = {}
  /\ resolver = {}
  /\ run = [l \in Logins |-> "none"]
  /\ thrown = {}
  /\ codes = [l \in Logins |-> 0]
  /\ phone = [l \in Logins |-> None]
  /\ amo = [l \in Logins |-> None]
  /\ secrets = {}
  /\ rows = {}
  /\ mishaps = 0
  /\ cancelledAt = [l \in Logins |-> "none"]
  /\ stranded = {}

Show(l, s) == state' = [state EXCEPT ![l] = s]
GoTo(l, s) == run' = [run EXCEPT ![l] = s] /\ UNCHANGED <<thrown, codes>>
Throw(l) == run' = [run EXCEPT ![l] = "close"] /\ thrown' = thrown \cup {l} /\ UNCHANGED codes
Mishap == mishaps < MaxMishaps /\ mishaps' = mishaps + 1

(***************************************************************************)
(* start(): refused while any job is starting, shows a code or waits for a  *)
(* password.                                                                *)
(***************************************************************************)
Start(l, a) ==
  /\ run[l] = "none"
  /\ \A other \in Logins : state[other] \notin Active
  /\ Show(l, "starting")
  /\ GoTo(l, "connect")
  /\ amo' = [amo EXCEPT ![l] = a]
  /\ UNCHANGED <<cancelled, resolver, phone, database, history>>

Connect(l) ==
  /\ run[l] = "connect"
  /\ GoTo(l, "signin")
  /\ UNCHANGED <<page, identity, database, history>>

(***************************************************************************)
(* The callbacks of signInUserWithQrCode().  A callback that throws ends    *)
(* the sign-in, because onError answers true.                               *)
(***************************************************************************)
QrCode(l) ==
  /\ run[l] = "signin"
  /\ codes[l] < MaxCodes
  /\ IF l \in cancelled THEN Throw(l)
     ELSE /\ run' = [run EXCEPT ![l] = "render"]
          /\ codes' = [codes EXCEPT ![l] = @ + 1]
          /\ UNCHANGED thrown
  /\ UNCHANGED <<page, identity, database, history>>

\* toDataURL() has answered; the state is set without another look at cancelled.
QrShown(l) ==
  /\ run[l] = "render"
  /\ Show(l, "qr")
  /\ GoTo(l, "signin")
  /\ UNCHANGED <<cancelled, resolver, identity, database, history>>

PasswordWanted(l) ==
  /\ run[l] = "signin"
  /\ IF l \in cancelled
     THEN Throw(l) /\ UNCHANGED <<state, resolver>>
     ELSE /\ Show(l, "password")
          /\ resolver' = resolver \cup {l}
          /\ GoTo(l, "password")
  /\ UNCHANGED <<cancelled, identity, database, history>>

\* password(): hands the operator's input to the library, once per question.
Password(l) ==
  /\ state[l] = "password"
  /\ l \in resolver
  /\ resolver' = resolver \ {l}
  /\ GoTo(l, "signin")
  /\ UNCHANGED <<state, cancelled, identity, database, history>>

SignInFails(l) ==
  /\ run[l] \in {"connect", "signin"}
  /\ Throw(l)
  /\ UNCHANGED <<page, identity, database, history>>

\* Mutant of SignedIn: the run goes on for a cancelled login.
SignedInUnchecked(l, p) ==
  /\ run[l] = "signin"
  /\ phone' = [phone EXCEPT ![l] = p]
  /\ GoTo(l, "me")
  /\ UNCHANGED <<page, amo, database, history>>

SignedIn(l, p) ==
  /\ run[l] = "signin"
  /\ phone' = [phone EXCEPT ![l] = p]
  /\ GoTo(l, IF l \in cancelled THEN "close" ELSE "me")
  /\ UNCHANGED <<page, amo, database, history>>

(***************************************************************************)
(* cancel(): any job that is still known, whatever it is doing.  An empty   *)
(* password makes the library give up.                                      *)
(***************************************************************************)
MarkCancelled(l) ==
  /\ run[l] \notin {"none", "gone"}
  /\ l \notin cancelled
  /\ cancelled' = cancelled \cup {l}
  /\ Show(l, "cancelled")
  /\ cancelledAt' = [cancelledAt EXCEPT ![l] = run[l]]
  /\ UNCHANGED <<identity, database, mishaps, stranded>>

\* Mutant of Cancel: a promise that waits for the password is left alone.
CancelSilently(l) == MarkCancelled(l) /\ UNCHANGED <<resolver, progress>>

Cancel(l) ==
  /\ MarkCancelled(l)
  /\ resolver' = resolver \ {l}
  /\ IF l \in resolver THEN GoTo(l, "signin") ELSE UNCHANGED progress

(***************************************************************************)
(* The signed-in part of the run: nothing looks at cancelled any more.      *)
(***************************************************************************)
GetMe(l) ==
  /\ run[l] = "me"
  /\ GoTo(l, "find")
  /\ UNCHANGED <<page, identity, database, history>>

FindByProvider(l) ==
  /\ run[l] = "find"
  /\ IF \E x \in rows : x.phone = phone[l] THEN Throw(l) ELSE GoTo(l, "put")
  /\ UNCHANGED <<page, identity, database, history>>

PutSecret(l) ==
  /\ run[l] = "put"
  /\ secrets' = secrets \cup {l}
  /\ GoTo(l, "upsert")
  /\ UNCHANGED <<page, identity, rows, history>>

Row(l) == [by |-> l, phone |-> phone[l], amo |-> amo[l]]
Taken(p, a) == \E x \in rows : x.phone = p /\ x.amo = a

\* The row of a new id: a phone that is registered for the amoCRM account violates
\* the unique key.
InsertAccount(l) ==
  /\ run[l] = "upsert"
  /\ IF Taken(phone[l], amo[l])
     THEN GoTo(l, "undo") /\ UNCHANGED rows
     ELSE rows' = rows \cup {Row(l)} /\ GoTo(l, "reconnect")
  /\ UNCHANGED <<page, identity, secrets, history>>

\* Mutant of DeleteSecret: the error is rethrown only.
DeleteNothing(l) ==
  /\ run[l] = "undo"
  /\ Throw(l)
  /\ UNCHANGED <<page, identity, database, history>>

\* The secret a row refers to cannot be deleted: credential_ref is a foreign key.
DeleteSecret(l) ==
  /\ run[l] = "undo"
  /\ secrets' = IF \E x \in rows : x.by = l THEN secrets ELSE secrets \ {l}
  /\ Throw(l)
  /\ UNCHANGED <<page, identity, rows, history>>

\* The supervisor connects the account or fails; both outcomes are shown.
Reconnect(l) ==
  /\ run[l] = "reconnect"
  /\ \E s \in {"connected", "error"} : Show(l, s)
  /\ GoTo(l, "close")
  /\ UNCHANGED <<cancelled, resolver, identity, database, history>>

\* A call or a statement fails; a statement may have been applied.
SavingFails(l) ==
  /\ Mishap
  /\ \/ run[l] \in {"me", "find"} /\ Throw(l) /\ UNCHANGED <<database, stranded>>
     \/ /\ run[l] = "put" /\ Throw(l) /\ UNCHANGED rows
        /\ \/ UNCHANGED <<secrets, stranded>>
           \/ secrets' = secrets \cup {l} /\ stranded' = stranded \cup {l}
     \/ /\ run[l] = "upsert" /\ GoTo(l, "undo") /\ UNCHANGED <<secrets, stranded>>
        /\ \/ UNCHANGED rows
           \/ ~Taken(phone[l], amo[l]) /\ rows' = rows \cup {Row(l)}
     \/ /\ run[l] = "undo" /\ Throw(l) /\ UNCHANGED database
        /\ stranded' = stranded \cup {l}
  /\ UNCHANGED <<page, identity, cancelledAt>>

(***************************************************************************)
(* finally and catch, and the timer that forgets the job.                   *)
(***************************************************************************)
Close(l) ==
  /\ run[l] = "close"
  /\ IF l \in thrown \ cancelled THEN Show(l, "error") ELSE UNCHANGED state
  /\ GoTo(l, "ended")
  /\ UNCHANGED <<cancelled, resolver, identity, database, history>>

Forget(l) ==
  /\ run[l] = "ended"
  /\ Show(l, "none")
  /\ GoTo(l, "gone")
  /\ UNCHANGED <<cancelled, resolver, identity, database, history>>

\* The other ways to register an account (telegram-onboarding.ts:21,
\* account-management.ts:9) do not look for the phone: only the unique key stops them.
RegisterElsewhere(p, a) ==
  /\ ~Taken(p, a)
  /\ rows' = rows \cup {[by |-> None, phone |-> p, amo |-> a]}
  /\ UNCHANGED <<page, progress, identity, secrets, history>>

\* The process stops: jobs and runs are gone, the database remains.
Crash ==
  /\ Mishap
  /\ \E l \in Logins : run[l] \notin {"none", "gone"}
  /\ state' = [l \in Logins |-> "none"]
  /\ resolver' = {}
  /\ run' = [l \in Logins |-> IF run[l] = "none" THEN "none" ELSE "gone"]
  /\ stranded' = stranded \cup {l \in secrets : run[l] \in {"upsert", "undo"}}
  /\ UNCHANGED <<cancelled, thrown, codes, identity, database, cancelledAt>>

RunStep(l) ==
  \/ Connect(l) \/ QrShown(l)
  \/ GetMe(l) \/ FindByProvider(l) \/ PutSecret(l) \/ InsertAccount(l)
  \/ DeleteSecret(l) \/ Reconnect(l) \/ Close(l)

QrNext ==
  \/ \E l \in Logins :
       \/ RunStep(l) \/ QrCode(l) \/ PasswordWanted(l) \/ Password(l) \/ SignInFails(l)
       \/ Cancel(l) \/ Forget(l) \/ SavingFails(l)
       \/ \E p \in Phones : SignedIn(l, p)
       \/ \E a \in AmoAccounts : Start(l, a)
  \/ \E p \in Phones, a \in AmoAccounts : RegisterElsewhere(p, a)
  \/ Crash

\* Calls and statements end, and so does a sign-in once cancel() has disconnected
\* its client.  Nobody has to scan the code or to enter the password.
QrSpec ==
  /\ QrInit
  /\ [][QrNext]_qrVars
  /\ \A l \in Logins :
       WF_qrVars(RunStep(l)) /\ WF_qrVars(l \in cancelled /\ SignInFails(l))

-----------------------------------------------------------------------------
(***************************************************************************)
(* Properties.                                                              *)
(***************************************************************************)

\* The variables have their types.
QrTypeOK ==
  /\ state \in [Logins -> JobStates]
  /\ run \in [Logins -> RunSteps]
  /\ codes \in [Logins -> 0..MaxCodes]
  /\ phone \in [Logins -> Phones \cup {None}]
  /\ amo \in [Logins -> AmoAccounts \cup {None}]
  /\ UNION {cancelled, resolver, thrown, secrets, stranded} \subseteq Logins
  /\ rows \subseteq [by : Logins \cup {None}, phone : Phones, amo : AmoAccounts]
  /\ mishaps \in 0..MaxMishaps
  /\ cancelledAt \in [Logins -> RunSteps]

\* A login that is cancelled before the sign-in has answered never stores a
\* session or an account, however the library's callbacks race with cancel();
\* and unless a code was being rendered, the page goes on showing "cancelled".
CancelPreventsAccount ==
  \A l \in Logins : cancelledAt[l] \in SigningIn =>
    /\ l \notin secrets
    /\ \A x \in rows : x.by # l
    /\ cancelledAt[l] # "render" => state[l] \in {"cancelled", "none"}

\* A session outlives its run exactly when an account row refers to it, unless a
\* crash or the failing clean-up itself left it; and no row lacks its session.
SessionsBelongToRows ==
  /\ \A x \in rows : x.by # None => x.by \in secrets
  /\ \A l \in secrets :
       \/ \E x \in rows : x.by = l
       \/ l \in stranded
       \/ run[l] \in {"upsert", "undo"}

\* After cancel() the run comes to its end, also when it waits for a password.
CancelEndsRun ==
  \A l \in Logins : l \in cancelled ~> run[l] \in {"ended", "gone"}
=============================================================================
