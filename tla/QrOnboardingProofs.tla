------------------------- MODULE QrOnboardingProofs -------------------------
(***************************************************************************)
(* Proofs about QrOnboarding: what a cancelled login can still do, and       *)
(* which sessions and account rows belong together.                          *)
(***************************************************************************)
EXTENDS QrOnboarding, TLAPS

\* A password promise waits exactly while the run waits for it, and a login that
\* was cancelled while it signed in never gets past the sign-in.
CancelInv(l) ==
  /\ l \in resolver <=> run[l] = "password"
  /\ run[l] = "none" => l \notin cancelled
  /\ l \notin cancelled => cancelledAt[l] = "none"
  /\ cancelledAt[l] \in SigningIn =>
       /\ run[l] \in {"connect", "signin", "render", "close", "ended", "gone"}
       /\ cancelledAt[l] # "render" => run[l] # "render" /\ state[l] \in {"cancelled", "none"}
       /\ l \notin secrets
       /\ \A x \in rows : x.by # l

\* How far a run is says whether it has stored its session and its row.
SavedInv(l) ==
  /\ run[l] \in {"none", "me", "find", "put"} \cup SigningIn =>
       l \notin secrets /\ \A x \in rows : x.by # l
  /\ run[l] = "upsert" => l \in secrets
  /\ l \in secrets => \/ \E x \in rows : x.by = l
                      \/ l \in stranded
                      \/ run[l] \in {"upsert", "undo"}
  /\ (\E x \in rows : x.by = l) => l \in secrets

\* The row of an account names a phone and an amoCRM account.
IdentityInv(l) ==
  /\ l \in resolver => run[l] # "none"
  /\ run[l] # "none" => amo[l] \in AmoAccounts
  /\ run[l] \in Saving => phone[l] \in Phones

TypeInv == QrTypeOK /\ \A l \in Logins : IdentityInv(l)

QrInv ==
  /\ TypeInv
  /\ \A l \in Logins : CancelInv(l) /\ SavedInv(l)

-----------------------------------------------------------------------------
LEMMA QrInvInit == QrInit => QrInv
  BY QrAssumption DEF QrInit, QrInv, TypeInv, IdentityInv, QrTypeOK, CancelInv, SavedInv, JobStates, Active,
                      RunSteps, SigningIn, Saving

LEMMA TypeNext == TypeInv /\ [QrNext]_qrVars => TypeInv'
  <1> SUFFICES ASSUME TypeInv, [QrNext]_qrVars
               PROVE  TypeInv'
    OBVIOUS
  <1> USE QrAssumption DEF TypeInv, IdentityInv, QrTypeOK, JobStates, Active, RunSteps, SigningIn, Saving,
          Show, GoTo, Throw, Mishap, page, progress, identity, database, history
  <1>1. ASSUME NEW l \in Logins, RunStep(l)
        PROVE  TypeInv'
    <2>1. CASE Connect(l)
      BY <2>1 DEF Connect
    <2>2. CASE QrShown(l)
      BY <2>2 DEF QrShown
    <2>3. CASE GetMe(l) \/ FindByProvider(l) \/ PutSecret(l)
      BY <2>3 DEF GetMe, FindByProvider, PutSecret
    <2>4. CASE InsertAccount(l)
      BY <2>4 DEF InsertAccount, Row
    <2>5. CASE DeleteSecret(l)
      BY <2>5 DEF DeleteSecret
    <2>6. CASE Reconnect(l) \/ Close(l)
      BY <2>6 DEF Reconnect, Close
    <2>7. QED
      BY <1>1, <2>1, <2>2, <2>3, <2>4, <2>5, <2>6 DEF RunStep
  <1>2. ASSUME NEW l \in Logins, QrCode(l) \/ PasswordWanted(l) \/ Password(l) \/ SignInFails(l)
        PROVE  TypeInv'
    <2>1. CASE QrCode(l)
      BY <2>1 DEF QrCode
    <2>2. CASE PasswordWanted(l) \/ Password(l)
      BY <2>2 DEF PasswordWanted, Password
    <2>3. CASE SignInFails(l)
      BY <2>3 DEF SignInFails
    <2>4. QED
      BY <1>2, <2>1, <2>2, <2>3
  <1>3. ASSUME NEW l \in Logins, Cancel(l) \/ Forget(l)
        PROVE  TypeInv'
    BY <1>3 DEF Cancel, MarkCancelled, Forget
  <1>4. ASSUME NEW l \in Logins, SavingFails(l)
        PROVE  TypeInv'
    BY <1>4 DEF SavingFails, Row
  <1>5. ASSUME NEW l \in Logins, NEW p \in Phones, SignedIn(l, p)
        PROVE  TypeInv'
    BY <1>5 DEF SignedIn
  <1>6. ASSUME NEW l \in Logins, NEW a \in AmoAccounts, Start(l, a)
        PROVE  TypeInv'
    BY <1>6 DEF Start
  <1>7. ASSUME NEW p \in Phones, NEW a \in AmoAccounts, RegisterElsewhere(p, a)
        PROVE  TypeInv'
    BY <1>7 DEF RegisterElsewhere
  <1>8. CASE Crash
    BY <1>8 DEF Crash
  <1>9. CASE UNCHANGED qrVars
    BY <1>9 DEF qrVars
  <1>10. QED
    BY <1>1, <1>2, <1>3, <1>4, <1>5, <1>6, <1>7, <1>8, <1>9 DEF QrNext

\* What a step of login l does to the others: nothing but rows of its own.
LEMMA OthersStay ==
  ASSUME NEW l \in Logins, NEW k \in Logins \ {l}, QrTypeOK, CancelInv(k), SavedInv(k),
         UNCHANGED <<run[k], state[k], cancelledAt[k]>>,
         k \in cancelled' <=> k \in cancelled,
         k \in resolver' <=> k \in resolver,
         k \in secrets' <=> k \in secrets,
         k \in stranded' <=> k \in stranded,
         rows' = rows \/ rows' = rows \cup {Row(l)}
  PROVE  CancelInv(k)' /\ SavedInv(k)'
  <1>1. (\E x \in rows' : x.by = k) <=> (\E x \in rows : x.by = k)
    BY DEF Row
  <1>2. QED
    BY <1>1 DEF CancelInv, SavedInv

\* A step of login l that keeps the invariant of l keeps it of every login.
LEMMA OneLogin ==
  ASSUME NEW l \in Logins, QrInv, CancelInv(l)' /\ SavedInv(l)',
         \A k \in Logins \ {l} :
           /\ UNCHANGED <<run[k], state[k], cancelledAt[k]>>
           /\ k \in cancelled' <=> k \in cancelled
           /\ k \in resolver' <=> k \in resolver
           /\ k \in secrets' <=> k \in secrets
           /\ k \in stranded' <=> k \in stranded,
         rows' = rows \/ rows' = rows \cup {Row(l)}
  PROVE  \A k \in Logins : CancelInv(k)' /\ SavedInv(k)'
  BY OthersStay DEF QrInv, TypeInv

LEMMA LoginNext ==
  ASSUME QrInv, NEW l \in Logins,
         \/ RunStep(l) \/ QrCode(l) \/ PasswordWanted(l) \/ Password(l) \/ SignInFails(l)
         \/ Cancel(l) \/ Forget(l) \/ SavingFails(l)
         \/ \E p \in Phones : SignedIn(l, p)
         \/ \E a \in AmoAccounts : Start(l, a)
  PROVE  \A k \in Logins : CancelInv(k)' /\ SavedInv(k)'
  <1>1. QrTypeOK /\ CancelInv(l) /\ SavedInv(l)
    BY DEF QrInv, TypeInv
  <1> USE <1>1, QrAssumption
      DEF QrTypeOK, Show, GoTo, Throw, page, progress, identity, database, history
  <1> DEFINE Ours == CancelInv(l)' /\ SavedInv(l)'
             Theirs == /\ \A k \in Logins \ {l} :
                            /\ UNCHANGED <<run[k], state[k], cancelledAt[k]>>
                            /\ k \in cancelled' <=> k \in cancelled
                            /\ k \in resolver' <=> k \in resolver
                            /\ k \in secrets' <=> k \in secrets
                            /\ k \in stranded' <=> k \in stranded
                       /\ rows' = rows \/ rows' = rows \cup {Row(l)}
  <1>2. SUFFICES Ours /\ Theirs
    BY OneLogin
  <1>3. CASE Connect(l)
    BY <1>3 DEF Connect, CancelInv, SavedInv, SigningIn
  <1>4. CASE QrShown(l)
    BY <1>4 DEF QrShown, CancelInv, SavedInv, SigningIn
  <1>5. CASE GetMe(l) \/ FindByProvider(l) \/ PutSecret(l)
    BY <1>5 DEF GetMe, FindByProvider, PutSecret, CancelInv, SavedInv, SigningIn
  <1>6. CASE InsertAccount(l)
    <2>1. Row(l).by = l
      BY DEF Row
    <2>2. cancelledAt[l] \notin SigningIn
      BY <1>6 DEF InsertAccount, CancelInv, SigningIn
    <2>3. QED
      BY <1>6, <2>1, <2>2 DEF InsertAccount, CancelInv, SavedInv, SigningIn
  <1>7. CASE DeleteSecret(l)
    BY <1>7 DEF DeleteSecret, CancelInv, SavedInv, SigningIn
  <1>8. CASE Reconnect(l) \/ Close(l) \/ Forget(l)
    BY <1>8 DEF Reconnect, Close, Forget, CancelInv, SavedInv, SigningIn
  <1>9. CASE QrCode(l)
    BY <1>9 DEF QrCode, CancelInv, SavedInv, SigningIn
  <1>10. CASE PasswordWanted(l) \/ Password(l) \/ SignInFails(l)
    BY <1>10 DEF PasswordWanted, Password, SignInFails, CancelInv, SavedInv, SigningIn
  <1>11. CASE Cancel(l)
    BY <1>11 DEF Cancel, MarkCancelled, CancelInv, SavedInv, SigningIn
  <1>12. CASE SavingFails(l)
    <2>1. Row(l).by = l
      BY DEF Row
    <2>2. cancelledAt[l] \notin SigningIn
      BY <1>12 DEF SavingFails, CancelInv, SigningIn
    <2>3. QED
      BY <1>12, <2>1, <2>2 DEF SavingFails, Mishap, CancelInv, SavedInv, SigningIn
  <1>13. ASSUME NEW p \in Phones, SignedIn(l, p)
         PROVE  Ours /\ Theirs
    BY <1>13 DEF SignedIn, CancelInv, SavedInv, SigningIn
  <1>14. ASSUME NEW a \in AmoAccounts, Start(l, a)
         PROVE  Ours /\ Theirs
    BY <1>14 DEF Start, CancelInv, SavedInv, SigningIn
  <1>15. QED
    BY <1>3, <1>4, <1>5, <1>6, <1>7, <1>8, <1>9, <1>10, <1>11, <1>12, <1>13, <1>14
       DEF RunStep

LEMMA QrInvNext == QrInv /\ [QrNext]_qrVars => QrInv'
  <1> SUFFICES ASSUME QrInv, [QrNext]_qrVars
               PROVE  QrInv'
    OBVIOUS
  <1>1. TypeInv'
    BY TypeNext DEF QrInv
  <1>2. ASSUME NEW p \in Phones, NEW a \in AmoAccounts, RegisterElsewhere(p, a), NEW k \in Logins
        PROVE  CancelInv(k)' /\ SavedInv(k)'
    <2>1. (\E x \in rows' : x.by = k) <=> (\E x \in rows : x.by = k)
      BY <1>2, QrAssumption DEF RegisterElsewhere
    <2>2. QED
      BY <1>2, <2>1 DEF RegisterElsewhere, QrInv, CancelInv, SavedInv, page, progress, history
  <1>3. ASSUME Crash, NEW k \in Logins
        PROVE  CancelInv(k)' /\ SavedInv(k)'
    BY <1>3 DEF Crash, QrInv, TypeInv, QrTypeOK, CancelInv, SavedInv, SigningIn, identity, database
  <1>4. ASSUME UNCHANGED qrVars, NEW k \in Logins
        PROVE  CancelInv(k)' /\ SavedInv(k)'
    BY <1>4 DEF qrVars, page, progress, identity, database, history, QrInv, CancelInv, SavedInv
  <1>5. \A k \in Logins : CancelInv(k)' /\ SavedInv(k)'
    BY LoginNext, <1>2, <1>3, <1>4 DEF QrNext
  <1>6. QED
    BY <1>1, <1>5 DEF QrInv

LEMMA QrInvAlways == QrSpec => []QrInv
  <1>1. QED
    BY QrInvInit, QrInvNext, PTL DEF QrSpec

-----------------------------------------------------------------------------
\* Every variable of QrOnboarding keeps its type (qr-onboarding.ts:10).
THEOREM QrType == QrSpec => []QrTypeOK
  <1>1. QrInv => QrTypeOK
    BY DEF QrInv, TypeInv
  <1>2. QED
    BY <1>1, QrInvAlways, PTL

\* A login cancelled during the sign-in stores no session and no account
\* (qr-onboarding.ts:66), for any number of logins and failures.
THEOREM CancelledLoginsStoreNothing == QrSpec => []CancelPreventsAccount
  <1>1. QrInv => CancelPreventsAccount
    BY DEF QrInv, CancelInv, CancelPreventsAccount
  <1>2. QED
    BY <1>1, QrInvAlways, PTL

\* A session is kept exactly for an account row, unless a crash or the failing
\* clean-up left it (qr-onboarding.ts:79).
THEOREM SessionsHaveRows == QrSpec => []SessionsBelongToRows
  <1>1. ASSUME QrInv
        PROVE  SessionsBelongToRows
    <2>1. ASSUME NEW x \in rows, x.by # None
          PROVE  x.by \in secrets
      <3>1. x.by \in Logins
        BY <1>1, <2>1 DEF QrInv, TypeInv, QrTypeOK
      <3>2. QED
        BY <1>1, <2>1, <3>1 DEF QrInv, SavedInv
    <2>2. \A l \in secrets : l \in Logins
      BY <1>1 DEF QrInv, TypeInv, QrTypeOK
    <2>3. QED
      BY <1>1, <2>1, <2>2 DEF QrInv, SavedInv, SessionsBelongToRows
  <1>2. QED
    BY <1>1, QrInvAlways, PTL
=============================================================================
