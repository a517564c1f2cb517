----------------------- MODULE AccountLifecycleProofs -----------------------
(***************************************************************************)
(* Proofs about AccountLifecycle, for any accounts, requests and mishaps.   *)
(***************************************************************************)
EXTENDS AccountLifecycle, TLAPS, FiniteSetTheorems

LEMMA MishapStep ==
  ASSUME NEW kind, Mishap(kind)
  PROVE  mishaps' = [mishaps EXCEPT ![kind] = @ + 1]
  BY DEF Mishap

-----------------------------------------------------------------------------
(***************************************************************************)
(* The executors.  Whoever is first in a queue stays first until it leaves. *)
(***************************************************************************)
LEMMA JoinType ==
  ASSUME NEW S, NEW q \in [Accounts -> Seq(S)], NEW a \in Accounts, NEW x \in S
  PROVE  Join(q, a, x) \in [Accounts -> Seq(S)]
  BY DEF Join

LEMMA JoinKeepsFirst ==
  ASSUME NEW S, NEW q \in [Accounts -> Seq(S)], NEW a \in Accounts, NEW x \in S,
         NEW b \in Accounts, q[b] # <<>>
  PROVE  Join(q, a, x)[b] # <<>> /\ Head(Join(q, a, x)[b]) = Head(q[b])
  <1>1. CASE a = b
    <2>1. Join(q, a, x)[b] = Append(q[b], x)
      BY <1>1 DEF Join
    <2>2. q[b] \in Seq(S)
      OBVIOUS
    <2>3. QED
      BY <2>1, <2>2
  <1>2. CASE a # b
    BY <1>2 DEF Join
  <1>3. QED
    BY <1>1, <1>2

LEMMA LeaveType ==
  ASSUME NEW S, NEW q \in [Accounts -> Seq(S)], NEW p
  PROVE  Leave(q, p) \in [Accounts -> Seq(S)]
  <1>1. CASE Turn(q, p)
    <2>1. on[p] \in Accounts /\ q[on[p]] \in Seq(S) /\ q[on[p]] # <<>>
      BY <1>1 DEF Turn
    <2>2. Tail(q[on[p]]) \in Seq(S)
      BY <2>1
    <2>3. QED
      BY <1>1, <2>1, <2>2 DEF Leave
  <1>2. CASE ~Turn(q, p)
    BY <1>2 DEF Leave
  <1>3. QED
    BY <1>1, <1>2

First(q, a, x) == a \in Accounts /\ q[a] # <<>> /\ Head(q[a]) = x

LEMMA LeaveKeepsFirst ==
  ASSUME NEW S, NEW q \in [Accounts -> Seq(S)], NEW p, NEW a, NEW x,
         First(q, a, x), x # p
  PROVE  First(Leave(q, p), a, x)
  BY DEF Leave, Turn, First

\* What a step of process p does to a queue, of tasks of S.
Changed(q, n, p, S) ==
  \/ n = q
  \/ n = Leave(q, p)
  \/ p \in S /\ \E a \in Accounts : n = Join(q, a, p)

LEMMA ChangedType ==
  ASSUME NEW S, NEW q \in [Accounts -> Seq(S)], NEW p, NEW n, Changed(q, n, p, S)
  PROVE  n \in [Accounts -> Seq(S)]
  <1>1. CASE n = q
    BY <1>1
  <1>2. CASE n = Leave(q, p)
    BY <1>2, LeaveType
  <1>3. ASSUME NEW a \in Accounts, p \in S, n = Join(q, a, p)
        PROVE  n \in [Accounts -> Seq(S)]
    BY <1>3, JoinType
  <1>4. QED
    BY <1>1, <1>2, <1>3 DEF Changed

LEMMA ChangedKeepsFirst ==
  ASSUME NEW S, NEW q \in [Accounts -> Seq(S)], NEW p, NEW n, Changed(q, n, p, S),
         NEW a, NEW x, First(q, a, x), x # p
  PROVE  First(n, a, x)
  <1>1. CASE n = q
    BY <1>1
  <1>2. CASE n = Leave(q, p)
    BY <1>2, LeaveKeepsFirst
  <1>3. ASSUME NEW b \in Accounts, p \in S, n = Join(q, b, p)
        PROVE  First(n, a, x)
    BY <1>3, JoinKeepsFirst DEF First
  <1>4. QED
    BY <1>1, <1>2, <1>3 DEF Changed

-----------------------------------------------------------------------------
(***************************************************************************)
(* Where the processes are.  A process inside a task of an executor is the  *)
(* first of its queue, so there is one per account and executor.            *)
(***************************************************************************)
Away == {"idle", "sleeping", "next", "stopped", "down"}
Ensuring == {"decide", "create", "dial", "connected", "failed"}
Loop == {"sleeping", "next", "stopped", "down", "awaitSup"} \cup Ensuring
Local == RowStates \cup {"none", "existing", "missing"}
Ops == AllOperations \cup {"none", "reconcile"}

ProcType ==
  /\ supQueue \in [Accounts -> Seq(Processes)]
  /\ onbQueue \in [Accounts -> Seq(Requests)]
  /\ step \in [Processes -> Steps]
  /\ op \in [Processes -> Ops]
  /\ on \in [Processes -> Accounts \cup {NoAccount}]
  /\ seen \in [Processes -> Local]

\* Process p may be at step s of operation o on account a, with n in its variable.
Place(p, s, o, a, n) ==
  /\ s \in Steps /\ o \in Ops /\ n \in Local
  /\ a \in Accounts \cup {NoAccount}
  /\ s \notin Away => a \in Accounts
  /\ s = "create" => n \in {"existing", "missing"}
  /\ s = "failed" => n \in {"error", "reconnect_required"}
  /\ p = Supervisor => o = "reconcile" /\ s \in Loop
  /\ p # Supervisor =>
       /\ o # "reconcile" /\ s \notin {"sleeping", "next", "stopped", "down"}
       /\ s = "awaitOnb" => o \in AllOperations \ {"create", "reconnect"}
       /\ s = "awaitSup" => o \in {"reconnect", "disconnect", "delete"}
       /\ s \in Ensuring => o = "reconnect"
       /\ s = "unplug" => o \in {"disconnect", "delete"}
       /\ s = "erase" => o = "delete"
       /\ s = "insert" => o = "register"
       /\ s = "begin" => o \in {"register", "start"}
       /\ s \in {"store", "mark", "finish"} => o \in {"code", "password"}
       /\ s \in {"put", "upsert"} => o = "create"

InSup(s) == s \in Ensuring \cup {"unplug"}
InOnb(s, o) ==
  \/ s \in {"insert", "begin", "store", "mark", "finish", "unplug", "erase"}
  \/ s = "awaitSup" /\ o \in {"disconnect", "delete"}

ProcOK(p) ==
  /\ Place(p, step[p], op[p], on[p], seen[p])
  /\ InSup(step[p]) => First(supQueue, on[p], p)
  /\ InOnb(step[p], op[p]) => First(onbQueue, on[p], p)

ProcInv == ProcType /\ \A p \in Processes : ProcOK(p)

\* One process per account is inside ensure() or disconnectAccount(), and one
\* inside an operation of the onboarding service.
LEMMA OneInside ==
  ASSUME ProcInv, NEW p \in Processes, NEW q \in Processes, on[p] = on[q],
         \/ InSup(step[p]) /\ InSup(step[q])
         \/ InOnb(step[p], op[p]) /\ InOnb(step[q], op[q])
  PROVE  p = q
  BY DEF ProcInv, ProcOK, First

LEMMA Moved ==
  ASSUME ProcInv, NEW p \in Processes, NEW s, NEW o, NEW a, NEW n, NEW sq, NEW oq,
         step' = [step EXCEPT ![p] = s], op' = [op EXCEPT ![p] = o],
         on' = [on EXCEPT ![p] = a], seen' = [seen EXCEPT ![p] = n],
         supQueue' = sq, onbQueue' = oq,
         Changed(supQueue, sq, p, Processes), Changed(onbQueue, oq, p, Requests),
         Place(p, s, o, a, n),
         InSup(s) => First(sq, a, p), InOnb(s, o) => First(oq, a, p)
  PROVE  ProcInv'
  <1> USE DEF ProcInv
  <1>1. ProcType'
    <2>1. sq \in [Accounts -> Seq(Processes)]
      BY ChangedType DEF ProcType
    <2>2. oq \in [Accounts -> Seq(Requests)]
      BY ChangedType DEF ProcType
    <2>3. QED
      BY <2>1, <2>2 DEF ProcType, Place
  <1>2. ASSUME NEW x \in Processes
        PROVE  ProcOK(x)'
    <2>1. CASE x = p
      <3>1. step'[p] = s /\ op'[p] = o /\ on'[p] = a /\ seen'[p] = n
        BY DEF ProcType
      <3>2. QED
        BY <2>1, <3>1 DEF ProcOK
    <2>2. CASE x # p
      <3>1. step'[x] = step[x] /\ op'[x] = op[x] /\ on'[x] = on[x] /\ seen'[x] = seen[x]
        BY <2>2 DEF ProcType
      <3>2. First(supQueue, on[x], x) => First(sq, on[x], x)
        <4>1. supQueue \in [Accounts -> Seq(Processes)]
          BY DEF ProcType
        <4>2. QED
          BY <2>2, <4>1, ChangedKeepsFirst
      <3>3. First(onbQueue, on[x], x) => First(oq, on[x], x)
        BY <2>2, ChangedKeepsFirst DEF ProcType
      <3>4. ProcOK(x)
        OBVIOUS
      <3>5. QED
        BY <3>1, <3>2, <3>3, <3>4 DEF ProcOK
    <2>3. QED
      BY <2>1, <2>2
  <1>3. QED
    BY <1>1, <1>2

LEMMA GoToMoved ==
  ASSUME ProcInv, NEW p \in Processes, NEW s, GoTo(p, s),
         Place(p, s, op[p], on[p], seen[p]),
         InSup(s) => First(supQueue, on[p], p),
         InOnb(s, op[p]) => First(onbQueue, on[p], p)
  PROVE  ProcInv'
  <1>1. /\ op' = [op EXCEPT ![p] = op[p]] /\ on' = [on EXCEPT ![p] = on[p]]
        /\ seen' = [seen EXCEPT ![p] = seen[p]]
        /\ supQueue' = supQueue /\ onbQueue' = onbQueue
    BY DEF GoTo, ProcInv, ProcType, locks
  <1>2. step' = [step EXCEPT ![p] = s]
    BY DEF GoTo
  <1>3. Changed(supQueue, supQueue, p, Processes) /\ Changed(onbQueue, onbQueue, p, Requests)
    BY DEF Changed
  <1>4. QED
    BY <1>1, <1>2, <1>3, Moved

LEMMA SettleMoved ==
  ASSUME ProcInv, NEW p \in Processes, NEW s, Settle(p, s),
         IF p = Supervisor THEN s \in {"next", "stopped"} ELSE s = "idle"
  PROVE  ProcInv'
  <1> DEFINE o == IF p = Supervisor THEN op[p] ELSE "none"
  <1>1. /\ step' = [step EXCEPT ![p] = s] /\ op' = [op EXCEPT ![p] = o]
        /\ on' = [on EXCEPT ![p] = NoAccount] /\ seen' = [seen EXCEPT ![p] = "none"]
        /\ supQueue' = Leave(supQueue, p) /\ onbQueue' = Leave(onbQueue, p)
    BY DEF Settle, ProcInv, ProcType
  <1>2. /\ Changed(supQueue, Leave(supQueue, p), p, Processes)
        /\ Changed(onbQueue, Leave(onbQueue, p), p, Requests)
    BY DEF Changed
  <1>3. Place(p, s, o, NoAccount, "none")
    BY DEF ProcInv, ProcOK, Place, Steps, Ops, Local, Away, Loop, Ensuring
  <1>4. ~InSup(s) /\ ~InOnb(s, o)
    BY DEF InSup, InOnb, Ensuring
  <1> HIDE DEF o
  <1>5. QED
    BY <1>1, <1>2, <1>3, <1>4, Moved

LEMMA ReturnMoved ==
  ASSUME ProcInv, NEW p \in Processes, Return(p) \/ Throw(p)
  PROVE  ProcInv'
  BY SettleMoved DEF Return, Throw

LEMMA SeesMoved ==
  ASSUME ProcInv, NEW p \in Processes, NEW s, NEW n,
         step' = [step EXCEPT ![p] = s], seen' = [seen EXCEPT ![p] = n],
         UNCHANGED <<op, on, locks>>,
         Place(p, s, op[p], on[p], n),
         InSup(s) => First(supQueue, on[p], p),
         InOnb(s, op[p]) => First(onbQueue, on[p], p)
  PROVE  ProcInv'
  <1>1. /\ op' = [op EXCEPT ![p] = op[p]] /\ on' = [on EXCEPT ![p] = on[p]]
        /\ supQueue' = supQueue /\ onbQueue' = onbQueue
    BY DEF ProcInv, ProcType, locks
  <1>3. Changed(supQueue, supQueue, p, Processes) /\ Changed(onbQueue, onbQueue, p, Requests)
    BY DEF Changed
  <1>4. QED
    BY <1>1, <1>3, Moved

LEMMA ProcCases ==
  ASSUME ProcInv, NEW p \in Processes
  PROVE  /\ Place(p, step[p], op[p], on[p], seen[p])
         /\ step[p] \notin Away => on[p] \in Accounts
         /\ InSup(step[p]) => First(supQueue, on[p], p)
         /\ InOnb(step[p], op[p]) => First(onbQueue, on[p], p)
         /\ Turn(supQueue, p) => First(supQueue, on[p], p)
         /\ Turn(onbQueue, p) => First(onbQueue, on[p], p)
         /\ p \in Requests => p # Supervisor
  BY LifecycleAssumption DEF ProcInv, ProcOK, Place, First, Turn

LEMMA CaughtMoved ==
  ASSUME ProcInv, NEW p \in Processes, NEW s \in {"error", "reconnect_required"},
         step[p] \in Ensuring, Catch(p, s)
  PROVE  ProcInv'
  <1>1. Place(p, "failed", op[p], on[p], s)
    BY ProcCases DEF Place, Ensuring, Steps, Ops, Local, Away, Loop, RowStates
  <1>2. InSup("failed") => First(supQueue, on[p], p)
    BY ProcCases DEF InSup, Ensuring
  <1>3. ~InOnb("failed", op[p])
    BY DEF InOnb
  <1>4. QED
    BY <1>1, <1>2, <1>3, SeesMoved DEF Catch

LEMMA EnsureStepMoved ==
  ASSUME ProcInv, NEW p \in Processes, EnsureStep(p)
  PROVE  ProcInv'
  <1> USE DEF Ensuring, Steps, Ops, Local, Away, Loop, RowStates, InSup, InOnb
  <1>1. CASE EnsureRead(p)
    <2>1. CASE Return(p)
      BY <2>1, ReturnMoved
    <2>2. CASE GoTo(p, "decide")
      <3>1. Place(p, "decide", op[p], on[p], seen[p])
        BY <1>1, ProcCases DEF EnsureRead, Place
      <3>2. First(supQueue, on[p], p)
        BY <1>1, ProcCases DEF EnsureRead
      <3>3. QED
        BY <2>2, <3>1, <3>2, GoToMoved
    <2>3. QED
      BY <1>1, <2>1, <2>2 DEF EnsureRead
  <1>2. CASE EnsureDecide(p)
    <2>1. CASE Return(p)
      BY <2>1, ReturnMoved
    <2>2. ASSUME NEW n \in {"missing", "existing"},
                 step' = [step EXCEPT ![p] = "create"], seen' = [seen EXCEPT ![p] = n],
                 UNCHANGED <<op, on, locks>>
          PROVE  ProcInv'
      <3>1. Place(p, "create", op[p], on[p], n)
        BY <1>2, ProcCases DEF EnsureDecide, Place
      <3>2. First(supQueue, on[p], p)
        BY <1>2, ProcCases DEF EnsureDecide
      <3>3. QED
        BY <2>2, <3>1, <3>2, SeesMoved
    <2>3. QED
      BY <1>2, <2>1, <2>2 DEF EnsureDecide
  <1>3. CASE EnsureCreate(p)
    <2>1. CASE GoTo(p, "dial")
      <3>1. Place(p, "dial", op[p], on[p], seen[p])
        BY <1>3, ProcCases DEF EnsureCreate, Place
      <3>2. First(supQueue, on[p], p)
        BY <1>3, ProcCases DEF EnsureCreate
      <3>3. QED
        BY <2>1, <3>1, <3>2, GoToMoved
    <2>2. ASSUME NEW s \in {"error", "reconnect_required"}, Catch(p, s)
          PROVE  ProcInv'
      BY <1>3, <2>2, CaughtMoved DEF EnsureCreate
    <2>3. QED
      BY <1>3, <2>1, <2>2 DEF EnsureCreate
  <1>4. CASE EnsureDial(p)
    <2>1. CASE GoTo(p, "connected")
      <3>1. Place(p, "connected", op[p], on[p], seen[p])
        BY <1>4, ProcCases DEF EnsureDial, Place
      <3>2. First(supQueue, on[p], p)
        BY <1>4, ProcCases DEF EnsureDial
      <3>3. QED
        BY <2>1, <3>1, <3>2, GoToMoved
    <2>2. ASSUME NEW s \in {"error", "reconnect_required"}, Catch(p, s)
          PROVE  ProcInv'
      BY <1>4, <2>2, CaughtMoved DEF EnsureDial
    <2>3. QED
      BY <1>4, <2>1, <2>2 DEF EnsureDial
  <1>5. CASE EnsureConnected(p)
    BY <1>5, ReturnMoved DEF EnsureConnected
  <1>6. CASE EnsureFailed(p)
    BY <1>6, ReturnMoved DEF EnsureFailed
  <1>7. QED
    BY <1>1, <1>2, <1>3, <1>4, <1>5, <1>6 DEF EnsureStep

LEMMA EnsureFailsMoved ==
  ASSUME ProcInv, NEW p \in Processes, EnsureFails(p)
  PROVE  ProcInv'
  <1>1. CASE Throw(p)
    BY <1>1, ReturnMoved
  <1>2. CASE step[p] \in Ensuring /\ Catch(p, "error")
    BY <1>2, CaughtMoved
  <1>3. QED
    BY <1>1, <1>2 DEF EnsureFails, Ensuring

LEMMA SupervisorMoved ==
  ASSUME ProcInv,
         ListEnabled \/ PassEnds \/ ListFails \/ Restart \/ \E a \in Accounts : PickAccount(a)
  PROVE  ProcInv'
  <1>0. Supervisor \in Processes
    BY DEF Processes
  <1>1. ASSUME NEW s \in {"next", "sleeping"}, GoTo(Supervisor, s)
        PROVE  ProcInv'
    <2>1. Place(Supervisor, s, op[Supervisor], on[Supervisor], seen[Supervisor])
      BY <1>0, ProcCases DEF Place, Away, Loop, Steps, Ensuring
    <2>2. ~InSup(s) /\ ~InOnb(s, op[Supervisor])
      BY DEF InSup, InOnb, Ensuring
    <2>3. QED
      BY <1>0, <1>1, <2>1, <2>2, GoToMoved
  <1>2. CASE ListFails
    BY <1>0, <1>2, ReturnMoved DEF ListFails
  <1>3. ASSUME NEW a \in Accounts, PickAccount(a)
        PROVE  ProcInv'
    <2> DEFINE p == Supervisor
               sq == Join(supQueue, a, p)
    <2>1. /\ step' = [step EXCEPT ![p] = "awaitSup"] /\ op' = [op EXCEPT ![p] = op[p]]
          /\ on' = [on EXCEPT ![p] = a] /\ seen' = [seen EXCEPT ![p] = seen[p]]
          /\ supQueue' = sq /\ onbQueue' = onbQueue
      BY <1>3, <1>0 DEF PickAccount, ProcInv, ProcType
    <2>2. Changed(supQueue, sq, p, Processes) /\ Changed(onbQueue, onbQueue, p, Requests)
      BY <1>0 DEF Changed
    <2>3. Place(p, "awaitSup", op[p], a, seen[p])
      BY <1>0, ProcCases DEF Place, Steps, Loop
    <2>4. ~InSup("awaitSup") /\ ~InOnb("awaitSup", op[p])
      BY <1>0, ProcCases DEF InSup, InOnb, Ensuring, Place
    <2> HIDE DEF sq, p
    <2>5. p \in Processes
      BY <1>0 DEF p
    <2>6. QED
      BY <2>1, <2>2, <2>3, <2>4, <2>5, Moved
  <1>4. QED
    BY <1>1, <1>2, <1>3 DEF ListEnabled, PassEnds, Restart

LEMMA AskMoved ==
  ASSUME ProcInv, NEW r \in Requests, NEW o \in Operations, NEW a \in Accounts,
         Ask(r, o, a)
  PROVE  ProcInv'
  <1>0. r \in Processes /\ r # Supervisor /\ o \in AllOperations
    BY LifecycleAssumption DEF Processes
  <1>1. /\ op' = [op EXCEPT ![r] = o] /\ on' = [on EXCEPT ![r] = a]
        /\ seen' = [seen EXCEPT ![r] = seen[r]] /\ seen[r] \in Local
    BY <1>0 DEF Ask, ProcInv, ProcType
  <1>2. ASSUME NEW s, NEW sq, NEW oq,
               step' = [step EXCEPT ![r] = s], supQueue' = sq, onbQueue' = oq,
               Changed(supQueue, sq, r, Processes), Changed(onbQueue, oq, r, Requests),
               \/ s = "put" /\ o = "create"
               \/ s = "awaitSup" /\ o = "reconnect"
               \/ s = "awaitOnb" /\ o \notin {"create", "reconnect"}
        PROVE  ProcInv'
    <2>1. Place(r, s, o, a, seen[r])
      <3>1. s \in Steps /\ o \in Ops /\ o # "reconcile"
        BY <1>0, <1>2 DEF Steps, Ops, AllOperations
      <3>2. QED
        BY <1>0, <1>1, <1>2, <3>1 DEF Place, Away, Ensuring
    <2>2. ~InSup(s) /\ ~InOnb(s, o)
      BY <1>2 DEF InSup, InOnb, Ensuring
    <2>3. QED
      BY <1>0, <1>1, <1>2, <2>1, <2>2, Moved
  <1>3. /\ Changed(supQueue, supQueue, r, Processes)
        /\ Changed(onbQueue, onbQueue, r, Requests)
        /\ Changed(supQueue, Join(supQueue, a, r), r, Processes)
        /\ Changed(onbQueue, Join(onbQueue, a, r), r, Requests)
    BY <1>0 DEF Changed
  <1>4. CASE o = "create" /\ step' = [step EXCEPT ![r] = "put"] /\ UNCHANGED locks
    <2>1. supQueue' = supQueue /\ onbQueue' = onbQueue
      BY <1>4 DEF locks
    <2>2. QED
      BY <1>2, <1>3, <1>4, <2>1
  <1>5. QED
    BY <1>2, <1>3, <1>4 DEF Ask

LEMMA StoppingMoved ==
  ASSUME ProcInv, NEW r \in Requests,
         CancelOnboarding(r) \/ StopAccount(r) \/ Unplug(r) \/ Erase(r) \/ AdminFails(r)
  PROVE  ProcInv'
  <1>0. r \in Processes /\ r # Supervisor
    BY LifecycleAssumption DEF Processes
  <1>1. CASE Return(r) \/ Throw(r)
    BY <1>0, <1>1, ReturnMoved
  <1>2. CASE CancelOnboarding(r)
    <2> DEFINE sq == Join(supQueue, on[r], r)
    <2>1. CASE /\ step' = [step EXCEPT ![r] = "awaitSup"] /\ supQueue' = sq
               /\ UNCHANGED <<op, on, seen, onbQueue>>
      <3>1. First(onbQueue, on[r], r) /\ op[r] \in {"disconnect", "delete"}
        BY <1>0, <1>2, ProcCases DEF CancelOnboarding, Onboarding
      <3>2. /\ op' = [op EXCEPT ![r] = op[r]] /\ on' = [on EXCEPT ![r] = on[r]]
            /\ seen' = [seen EXCEPT ![r] = seen[r]] /\ onbQueue' = onbQueue
        BY <1>0, <2>1 DEF ProcInv, ProcType
      <3>3. Place(r, "awaitSup", op[r], on[r], seen[r])
        BY <1>0, <3>1, ProcCases DEF Place, Steps, Ensuring, Away, First
      <3>4. Changed(supQueue, sq, r, Processes) /\ Changed(onbQueue, onbQueue, r, Requests)
        BY <1>0, <3>1 DEF Changed, First
      <3>5. ~InSup("awaitSup")
        BY DEF InSup, Ensuring
      <3> HIDE DEF sq
      <3>6. QED
        BY <1>0, <2>1, <3>1, <3>2, <3>3, <3>4, <3>5, Moved
    <2>2. QED
      BY <1>1, <1>2, <2>1 DEF CancelOnboarding
  <1>3. CASE StopAccount(r)
    <2>1. CASE GoTo(r, "unplug")
      <3>1. First(supQueue, on[r], r) /\ First(onbQueue, on[r], r)
        BY <1>0, <1>3, ProcCases DEF StopAccount, Stopping, InOnb
      <3>2. Place(r, "unplug", op[r], on[r], seen[r])
        BY <1>0, <1>3, <3>1, ProcCases
        DEF Place, Steps, Ensuring, Away, First, StopAccount, Stopping
      <3>3. QED
        BY <1>0, <2>1, <3>1, <3>2, GoToMoved
    <2>2. QED
      BY <1>1, <1>3, <2>1 DEF StopAccount
  <1>4. CASE Unplug(r)
    <2>1. CASE op[r] = "delete" /\ LeaveSupervisor(r)
      <3>1. /\ step' = [step EXCEPT ![r] = "erase"]
            /\ op' = [op EXCEPT ![r] = op[r]] /\ on' = [on EXCEPT ![r] = on[r]]
            /\ seen' = [seen EXCEPT ![r] = seen[r]] /\ onbQueue' = onbQueue
            /\ supQueue' = Leave(supQueue, r)
        BY <1>0, <2>1 DEF LeaveSupervisor, ProcInv, ProcType
      <3>2. First(onbQueue, on[r], r)
        BY <1>0, <1>4, ProcCases DEF Unplug, InOnb
      <3>3. Place(r, "erase", op[r], on[r], seen[r])
        BY <1>0, <1>4, <2>1, ProcCases DEF Unplug, Place, Steps, Ensuring, Away
      <3>4. /\ Changed(supQueue, Leave(supQueue, r), r, Processes)
            /\ Changed(onbQueue, onbQueue, r, Requests)
        BY DEF Changed
      <3>5. ~InSup("erase")
        BY DEF InSup, Ensuring
      <3>6. QED
        BY <1>0, <3>1, <3>2, <3>3, <3>4, <3>5, Moved
    <2>2. QED
      BY <1>1, <1>4, <2>1 DEF Unplug, LeaveSupervisor
  <1>5. QED
    BY <1>1, <1>2, <1>3, <1>4 DEF Erase, AdminFails

\* The steps of the onboarding service and of create().
OnboardingStep(r) ==
  \/ Register(r) \/ InsertAccount(r) \/ StartAgain(r) \/ BeginAuthorization(r)
  \/ Submit(r) \/ StoreSession(r) \/ MarkAuthorized(r) \/ FinishOnboarding(r)
  \/ OnboardingFails(r)

LEMMA OnboardingMoved ==
  ASSUME ProcInv, NEW r \in Requests, OnboardingStep(r)
  PROVE  ProcInv'
  <1>0. r \in Processes /\ r # Supervisor
    BY LifecycleAssumption DEF Processes
  <1>1. CASE Return(r) \/ Throw(r)
    BY <1>0, <1>1, ReturnMoved
  <1>2. ASSUME NEW s, GoTo(r, s), First(onbQueue, on[r], r),
               \/ s = "insert" /\ op[r] = "register"
               \/ s = "begin" /\ op[r] \in {"register", "start"}
               \/ s \in {"store", "mark", "finish"} /\ op[r] \in {"code", "password"}
        PROVE  ProcInv'
    <2>1. Place(r, s, op[r], on[r], seen[r])
      BY <1>0, <1>2, ProcCases DEF Place, Steps, Ensuring, Away, First
    <2>2. ~InSup(s)
      BY <1>2 DEF InSup, Ensuring
    <2>3. QED
      BY <1>0, <1>2, <2>1, <2>2, GoToMoved
  <1>3. /\ step[r] = "insert" => op[r] = "register"
        /\ step[r] \in {"store", "mark", "finish"} => op[r] \in {"code", "password"}
        /\ InOnb(step[r], op[r]) => First(onbQueue, on[r], r)
        /\ Turn(onbQueue, r) => First(onbQueue, on[r], r)
    BY <1>0, ProcCases DEF Place
  <1>4. CASE Register(r)
    BY <1>2, <1>3, <1>4 DEF Register, Onboarding
  <1>5. CASE InsertAccount(r)
    BY <1>1, <1>2, <1>3, <1>5 DEF InsertAccount, InOnb
  <1>6. CASE StartAgain(r)
    BY <1>1, <1>2, <1>3, <1>6 DEF StartAgain, Onboarding
  <1>7. CASE BeginAuthorization(r)
    BY <1>1, <1>7 DEF BeginAuthorization, FailOnboarding
  <1>8. CASE Submit(r)
    BY <1>1, <1>2, <1>3, <1>8 DEF Submit, Submits, Onboarding, FailOnboarding
  <1>9. CASE StoreSession(r)
    BY <1>2, <1>3, <1>9 DEF StoreSession, InOnb
  <1>10. CASE MarkAuthorized(r)
    BY <1>2, <1>3, <1>10 DEF MarkAuthorized, InOnb
  <1>11. CASE FinishOnboarding(r)
    BY <1>1, <1>11 DEF FinishOnboarding, FailOnboarding
  <1>12. CASE OnboardingFails(r)
    BY <1>1, <1>12 DEF OnboardingFails, FailOnboarding
  <1>13. QED
    BY <1>4, <1>5, <1>6, <1>7, <1>8, <1>9, <1>10, <1>11, <1>12 DEF OnboardingStep

LEMMA CreateMoved ==
  ASSUME ProcInv, NEW r \in Requests, PutCredentials(r) \/ UpsertAccount(r)
  PROVE  ProcInv'
  <1>0. r \in Processes /\ r # Supervisor
    BY LifecycleAssumption DEF Processes
  <1>1. CASE UpsertAccount(r)
    BY <1>0, <1>1, ReturnMoved DEF UpsertAccount
  <1>2. CASE PutCredentials(r)
    <2>1. Place(r, "upsert", op[r], on[r], seen[r])
      BY <1>0, <1>2, ProcCases DEF PutCredentials, Place, Steps, Ensuring, Away
    <2>2. ~InSup("upsert") /\ ~InOnb("upsert", op[r])
      BY DEF InSup, InOnb, Ensuring
    <2>3. QED
      BY <1>0, <1>2, <2>1, <2>2, GoToMoved DEF PutCredentials
  <1>3. QED
    BY <1>1, <1>2

LEMMA ProcInit ==
  ASSUME LifecycleInit
  PROVE  ProcInv
  <1>1. ProcType
    BY DEF LifecycleInit, ProcType, Processes, Steps, Ops, Local
  <1>2. \A p \in Processes : ProcOK(p)
    BY DEF LifecycleInit, ProcOK, Place, Steps, Ops, Local, Away, Loop, Ensuring, InSup, InOnb
  <1>3. QED
    BY <1>1, <1>2 DEF ProcInv

LEMMA CrashMoved ==
  ASSUME Crash
  PROVE  ProcInv'
  <1>1. ProcType'
    BY DEF Crash, ProcType, Processes, Steps, Ops, Local
  <1>2. \A p \in Processes : ProcOK(p)'
    BY DEF Crash, ProcOK, Place, Steps, Ops, Local, Away, Loop, Ensuring, InSup, InOnb
  <1>3. QED
    BY <1>1, <1>2 DEF ProcInv

LEMMA StillMoved ==
  ASSUME ProcInv, UNCHANGED procs, UNCHANGED locks
  PROVE  ProcInv'
  BY DEF procs, locks, ProcInv, ProcType, ProcOK

\* The steps of the next-state relation.
LEMMA NextCases ==
  ASSUME LifecycleNext
  PROVE  \/ ListEnabled \/ PassEnds \/ ListFails \/ Restart
         \/ \E a \in Accounts : PickAccount(a)
         \/ \E p \in Processes : EnsureStep(p) \/ EnsureFails(p)
         \/ \E r \in Requests :
              \/ CancelOnboarding(r) \/ StopAccount(r) \/ Unplug(r) \/ Erase(r)
              \/ AdminFails(r) \/ OnboardingStep(r)
              \/ PutCredentials(r) \/ UpsertAccount(r)
              \/ \E o \in Operations, a \in Accounts : Ask(r, o, a)
         \/ Crash
         \/ \E a \in Accounts : BackoffEnds(a) \/ Drop(a)
         \/ \E s \in Sessions : Revoke(s)
  <1>1. Supervisor \in Processes /\ Requests \subseteq Processes
    BY DEF Processes
  <1>2. QED
    BY <1>1 DEF LifecycleNext, SupervisorStep, RequestStep, StatementFails, OnboardingStep

LEMMA ProcStep ==
  ASSUME ProcInv, [LifecycleNext]_vars
  PROVE  ProcInv'
  <1>1. CASE UNCHANGED vars
    BY <1>1, StillMoved DEF vars
  <1>2. CASE UNCHANGED procs /\ UNCHANGED locks
    BY <1>2, StillMoved
  <1>3. CASE LifecycleNext
    BY <1>2, <1>3, NextCases, SupervisorMoved, EnsureStepMoved, EnsureFailsMoved,
       StoppingMoved, OnboardingMoved, CreateMoved, AskMoved, CrashMoved
    DEF BackoffEnds, Drop, Revoke
  <1>4. QED
    BY <1>1, <1>3

\* Every request and every pass of the supervisor holds the executors of its
\* account where the code runs under them.
THEOREM ProcessesHoldTheirLocks == LifecycleSpec => []ProcInv
  BY ProcInit, ProcStep, PTL DEF LifecycleSpec

-----------------------------------------------------------------------------
(***************************************************************************)
(* What a step does to the processes: it moves one of them.                 *)
(***************************************************************************)
Rest(p) ==
  \A x \in Processes \ {p} :
    step'[x] = step[x] /\ op'[x] = op[x] /\ on'[x] = on[x] /\ seen'[x] = seen[x]
Goes(p, s) == Rest(p) /\ step'[p] = s /\ op'[p] = op[p] /\ on'[p] = on[p]
Leaves(p) == Rest(p) /\ step'[p] \in Away /\ on'[p] = NoAccount

LEMMA GoToGoes ==
  ASSUME ProcInv, NEW p \in Processes, NEW s, GoTo(p, s)
  PROVE  Goes(p, s) /\ seen'[p] = seen[p]
  BY DEF ProcInv, ProcType, GoTo, Goes, Rest

LEMMA CatchGoes ==
  ASSUME ProcInv, NEW p \in Processes, NEW s, Catch(p, s)
  PROVE  Goes(p, "failed") /\ seen'[p] = s
  BY DEF ProcInv, ProcType, Catch, Goes, Rest

LEMMA SettleLeaves ==
  ASSUME ProcInv, NEW p \in Processes, Return(p) \/ Throw(p)
  PROVE  Leaves(p)
  <1>1. PICK s \in Away : Settle(p, s)
    BY DEF Return, Throw, Away
  <1>2. QED
    BY <1>1 DEF ProcInv, ProcType, Settle, Leaves, Rest

LEMMA EnsureWalk ==
  ASSUME ProcInv, NEW p \in Processes, EnsureStep(p) \/ EnsureFails(p)
  PROVE  \/ Leaves(p)
         \/ EnsureRead(p) /\ Goes(p, "decide")
         \/ step[p] \in Ensuring /\ \E s \in Ensuring \ {"decide"} : Goes(p, s)
  <1> USE DEF Ensuring
  <1>1. CASE Return(p) \/ Throw(p)
    BY <1>1, SettleLeaves
  <1>2. ASSUME NEW s, Catch(p, s)
        PROVE  Goes(p, "failed")
    BY <1>2, CatchGoes
  <1>3. ASSUME NEW s, GoTo(p, s)
        PROVE  Goes(p, s)
    BY <1>3, GoToGoes
  <1>4. CASE EnsureRead(p)
    BY <1>1, <1>3, <1>4 DEF EnsureRead
  <1>5. CASE EnsureDecide(p)
    <2>1. CASE Attempts(p)
      <3>1. Goes(p, "create")
        BY <1>5, <2>1 DEF EnsureDecide, Goes, Rest, ProcInv, ProcType
      <3>2. QED
        BY <1>5, <3>1 DEF EnsureDecide
    <2>2. QED
      BY <1>1, <1>5, <2>1 DEF EnsureDecide
  <1>6. CASE EnsureCreate(p)
    BY <1>2, <1>3, <1>6 DEF EnsureCreate
  <1>7. CASE EnsureDial(p)
    BY <1>2, <1>3, <1>7 DEF EnsureDial
  <1>8. CASE EnsureConnected(p) \/ EnsureFailed(p)
    BY <1>1, <1>8 DEF EnsureConnected, EnsureFailed
  <1>9. CASE EnsureFails(p)
    BY <1>1, <1>2, <1>9 DEF EnsureFails
  <1>10. QED
    BY <1>4, <1>5, <1>6, <1>7, <1>8, <1>9 DEF EnsureStep

LEMMA StoppingWalk ==
  ASSUME ProcInv, NEW r \in Requests,
         CancelOnboarding(r) \/ StopAccount(r) \/ Unplug(r) \/ Erase(r) \/ AdminFails(r)
  PROVE  \/ Leaves(r)
         \/ /\ CancelOnboarding(r) /\ Goes(r, "awaitSup")
            /\ pending' = [pending EXCEPT ![on[r]] = "none"]
         \/ StopAccount(r) /\ row[on[r]] # "absent" /\ Goes(r, "unplug")
         \/ Unplug(r) /\ op[r] = "delete" /\ Goes(r, "erase")
  <1>0. r \in Processes
    BY DEF Processes
  <1>1. CASE Return(r) \/ Throw(r)
    BY <1>0, <1>1, SettleLeaves
  <1>2. CASE CancelOnboarding(r)
    <2>1. CASE /\ step' = [step EXCEPT ![r] = "awaitSup"]
               /\ UNCHANGED <<op, on, seen, onbQueue>>
               /\ pending' = [pending EXCEPT ![on[r]] = "none"]
      BY <1>0, <1>2, <2>1 DEF Goes, Rest, ProcInv, ProcType
    <2>2. QED
      BY <1>1, <1>2, <2>1 DEF CancelOnboarding
  <1>3. CASE StopAccount(r)
    BY <1>0, <1>1, <1>3, GoToGoes DEF StopAccount
  <1>4. CASE Unplug(r)
    <2>1. CASE op[r] = "delete" /\ LeaveSupervisor(r)
      BY <1>0, <1>4, <2>1 DEF LeaveSupervisor, Goes, Rest, ProcInv, ProcType
    <2>2. QED
      BY <1>1, <1>4, <2>1 DEF Unplug, LeaveSupervisor
  <1>5. QED
    BY <1>1, <1>2, <1>3, <1>4 DEF Erase, AdminFails

LEMMA OnboardingWalk ==
  ASSUME ProcInv, NEW r \in Requests, OnboardingStep(r)
  PROVE  \/ Leaves(r)
         \/ Goes(r, "insert") /\ Register(r)
         \/ Goes(r, "begin") /\ (InsertAccount(r) \/ StartAgain(r))
         \/ Goes(r, "store") /\ Submit(r) /\ MayIssue
         \/ Goes(r, "mark") /\ StoreSession(r)
         \/ Goes(r, "finish") /\ MarkAuthorized(r)
  <1>0. r \in Processes
    BY DEF Processes
  <1>1. CASE Return(r) \/ Throw(r)
    BY <1>0, <1>1, SettleLeaves
  <1>2. ASSUME NEW s, GoTo(r, s)
        PROVE  Goes(r, s)
    BY <1>0, <1>2, GoToGoes
  <1>3. QED
    BY <1>1, <1>2 DEF OnboardingStep, Register, InsertAccount, StartAgain,
       BeginAuthorization, Submit, StoreSession, MarkAuthorized, FinishOnboarding,
       OnboardingFails, FailOnboarding

LEMMA CreateWalk ==
  ASSUME ProcInv, NEW r \in Requests, PutCredentials(r) \/ UpsertAccount(r)
  PROVE  Leaves(r) \/ Goes(r, "upsert")
  <1>0. r \in Processes
    BY DEF Processes
  <1>1. QED
    BY <1>0, GoToGoes, SettleLeaves DEF PutCredentials, UpsertAccount

LEMMA AskWalk ==
  ASSUME ProcInv, NEW r \in Requests, NEW o \in Operations, NEW a \in Accounts,
         Ask(r, o, a)
  PROVE  /\ Rest(r) /\ op'[r] = o /\ on'[r] = a
         /\ step'[r] \in {"put", "awaitSup", "awaitOnb"}
         /\ step'[r] = "put" <=> o = "create"
         /\ step'[r] = "awaitSup" <=> o = "reconnect"
  BY DEF Ask, Rest, Processes, ProcInv, ProcType

LEMMA PickWalk ==
  ASSUME ProcInv, NEW a \in Accounts, PickAccount(a)
  PROVE  /\ Rest(Supervisor) /\ on'[Supervisor] = a
         /\ op'[Supervisor] = op[Supervisor] /\ step'[Supervisor] = "awaitSup"
  BY DEF PickAccount, Rest, Processes, ProcInv, ProcType

LEMMA LoopWalk ==
  ASSUME ProcInv, ListEnabled \/ PassEnds \/ ListFails \/ Restart
  PROVE  /\ Rest(Supervisor) /\ step'[Supervisor] \in Away
         /\ on'[Supervisor] \in {NoAccount, on[Supervisor]}
  <1>0. Supervisor \in Processes
    BY DEF Processes
  <1>1. QED
    BY <1>0, GoToGoes, SettleLeaves
    DEF ListEnabled, PassEnds, ListFails, Restart, Goes, Leaves, Away

-----------------------------------------------------------------------------
(***************************************************************************)
(* The types of the data.  clients is known to be a number of clients only   *)
(* by OneClientPerAccount, issued to stay under the bound by IssuedOK.       *)
(***************************************************************************)
DataType ==
  /\ row \in [Accounts -> RowStates]
  /\ secret \in [Accounts -> Sessions \cup {NoSession, Unauthorized}]
  /\ issued \in Nat
  /\ revoked \subseteq Sessions
  /\ known \subseteq Accounts
  /\ adapter \in [Accounts -> Sessions \cup {NoSession}]
  /\ online \in [Accounts -> BOOLEAN]
  /\ clients \in [Accounts -> Int]
  /\ pending \in [Accounts -> {"none", "code", "password"}]
  /\ backoff \in [Accounts -> BOOLEAN]
  /\ todo \subseteq Accounts
  /\ serving \in BOOLEAN
  /\ mishaps \in [MishapKinds -> Nat]
  /\ stopped \subseteq Accounts
  /\ erased \subseteq Accounts

Storing == {r \in Requests : step[r] = "store"}
IssuedOK == issued + Cardinality(Storing) <= MaxSessions

BaseInv == ProcInv /\ DataType /\ IssuedOK

LEMMA MishapCounts ==
  ASSUME DataType, NEW kind \in MishapKinds, Mishap(kind)
  PROVE  /\ mishaps' \in [MishapKinds -> Nat]
         /\ mishaps'[kind] = mishaps[kind] + 1
         /\ \A k \in MishapKinds : mishaps'[k] >= mishaps[k]
  <1>1. mishaps' = [mishaps EXCEPT ![kind] = @ + 1]
    BY MishapStep
  <1>2. mishaps \in [MishapKinds -> Nat]
    BY DEF DataType
  <1> HIDE DEF MishapKinds
  <1>3. QED
    BY <1>1, <1>2

LEMMA StoringFinite ==
  IsFiniteSet(Storing) /\ Cardinality(Storing) \in Nat
  <1>1. Storing \subseteq Requests
    BY DEF Storing
  <1>2. QED
    BY <1>1, LifecycleAssumption, FS_Subset, FS_CardinalityType

\* There is room for the session that is stored, and for that of create().
LEMMA Room ==
  ASSUME BaseInv, NEW r \in Requests, step[r] = "store" \/ MayIssue
  PROVE  issued + 1 \in Sessions
  <1>1. issued \in Nat /\ MaxSessions \in Nat /\ Cardinality(Storing) \in Nat
    BY LifecycleAssumption, StoringFinite DEF BaseInv, DataType
  <1>2. CASE step[r] = "store"
    <2>1. r \in Storing
      BY <1>2 DEF Storing
    <2>2. Cardinality(Storing) # 0
      BY <2>1, StoringFinite, FS_EmptySet
    <2>3. QED
      BY <1>1, <2>2 DEF BaseInv, IssuedOK, Sessions
  <1>3. CASE MayIssue
    BY <1>1, <1>3 DEF MayIssue, Storing, Sessions
  <1>4. QED
    BY <1>2, <1>3

LEMMA SetStateType ==
  ASSUME DataType, NEW a, NEW s \in RowStates, SetState(a, s)
  PROVE  row' \in [Accounts -> RowStates]
  BY DEF DataType, SetState

LEMMA EnsureData ==
  ASSUME BaseInv, NEW p \in Processes, EnsureStep(p) \/ EnsureFails(p)
  PROVE  DataType'
  <1>0. DataType /\ ProcInv
    BY DEF BaseInv
  <1>1. "connecting" \in RowStates /\ "connected" \in RowStates
    BY DEF RowStates
  <1>2. step[p] = "failed" => seen[p] \in RowStates
    BY <1>0, ProcCases DEF Place, RowStates
  <1>3. {"outage", "statement"} \subseteq MishapKinds
    BY DEF MishapKinds
  <1>4. CASE EnsureRead(p)
    BY <1>0, <1>4 DEF EnsureRead, DataType, tables, telegram
  <1>5. CASE EnsureDecide(p)
    <2>1. row' \in [Accounts -> RowStates]
      BY <1>0, <1>1, <1>5, SetStateType DEF EnsureDecide, DataType
    <2>2. backoff' \in [Accounts -> BOOLEAN]
      BY <1>0, <1>5 DEF EnsureDecide, DataType
    <2>3. QED
      BY <1>0, <1>5, <2>1, <2>2 DEF EnsureDecide, DataType, telegram, history
  <1>6. CASE EnsureCreate(p)
    <2>1. adapter' \in [Accounts -> Sessions \cup {NoSession}]
      BY <1>0, <1>6 DEF EnsureCreate, DataType, runtime
    <2>2. online' \in [Accounts -> BOOLEAN]
      BY <1>0, <1>6 DEF EnsureCreate, DataType, runtime
    <2>3. clients' \in [Accounts -> Int]
      BY <1>0, <1>6 DEF EnsureCreate, DataType, runtime
    <2>4. backoff' = backoff
      BY <1>6 DEF EnsureCreate, runtime
    <2>5. QED
      BY <1>0, <1>6, <2>1, <2>2, <2>3, <2>4
      DEF EnsureCreate, DataType, tables, telegram, history
  <1>7. CASE EnsureDial(p)
    <2>1. mishaps' \in [MishapKinds -> Nat]
      BY <1>0, <1>3, <1>7, MishapCounts DEF EnsureDial, DataType
    <2>2. online' \in [Accounts -> BOOLEAN]
      BY <1>0, <1>7 DEF EnsureDial, DataType
    <2>3. QED
      BY <1>0, <1>7, <2>1, <2>2 DEF EnsureDial, DataType, tables, telegram, history
  <1>8. CASE EnsureConnected(p)
    <2>1. row' \in [Accounts -> RowStates]
      BY <1>0, <1>1, <1>8, SetStateType DEF EnsureConnected
    <2>2. QED
      BY <1>0, <1>8, <2>1 DEF EnsureConnected, DataType, telegram, history
  <1>9. CASE EnsureFailed(p)
    <2>1. row' \in [Accounts -> RowStates]
      BY <1>0, <1>2, <1>9, SetStateType DEF EnsureFailed
    <2>2. QED
      BY <1>0, <1>9, <2>1 DEF EnsureFailed, DataType, telegram, history
  <1>10. CASE EnsureFails(p)
    <2>1. mishaps' \in [MishapKinds -> Nat]
      BY <1>0, <1>3, <1>10, MishapCounts DEF EnsureFails, DataType
    <2>2. row' \in [Accounts -> RowStates]
      BY <1>0, <1>1, <1>2, <1>10, SetStateType DEF EnsureFails, DataType
    <2>3. QED
      BY <1>0, <1>10, <2>1, <2>2 DEF EnsureFails, DataType, telegram, runtime, history
  <1>11. QED
    BY <1>4, <1>5, <1>6, <1>7, <1>8, <1>9, <1>10 DEF EnsureStep

LEMMA LoopData ==
  ASSUME BaseInv,
         \/ ListEnabled \/ PassEnds \/ ListFails \/ Restart
         \/ \E a \in Accounts : PickAccount(a)
         \/ \E r \in Requests, o \in Operations, a \in Accounts : Ask(r, o, a)
  PROVE  DataType'
  <1>0. DataType
    BY DEF BaseInv
  <1>1. ListFails => mishaps' \in [MishapKinds -> Nat]
    BY <1>0, MishapCounts DEF ListFails, MishapKinds
  <1> USE <1>0 DEF DataType, tables, telegram, runtime, history
  <1>2. CASE ListEnabled \/ PassEnds
    BY <1>2 DEF ListEnabled, PassEnds
  <1>3. CASE ListFails \/ Restart
    BY <1>1, <1>3 DEF ListFails, Restart
  <1>4. ASSUME NEW a \in Accounts, PickAccount(a)
        PROVE  DataType'
    BY <1>4 DEF PickAccount
  <1>5. ASSUME NEW r, NEW o, NEW a \in Accounts, Ask(r, o, a)
        PROVE  DataType'
    BY <1>5 DEF Ask
  <1>6. QED
    BY <1>2, <1>3, <1>4, <1>5

LEMMA StoppingData ==
  ASSUME BaseInv, NEW r \in Requests,
         CancelOnboarding(r) \/ StopAccount(r) \/ Unplug(r) \/ Erase(r) \/ AdminFails(r)
  PROVE  DataType'
  <1>0. DataType
    BY DEF BaseInv
  <1>1. /\ on[r] \in Accounts \/ on[r] = NoAccount
        /\ "disconnected" \in RowStates /\ "absent" \in RowStates
        /\ {"hangup", "statement"} \subseteq MishapKinds
    BY DEF BaseInv, ProcInv, ProcType, Processes, RowStates, MishapKinds
  <1>2. CASE CancelOnboarding(r)
    <2>1. mishaps' \in [MishapKinds -> Nat]
      BY <1>0, <1>1, <1>2, MishapCounts DEF CancelOnboarding, DataType
    <2>2. QED
      BY <1>0, <1>2, <2>1 DEF CancelOnboarding, DataType, tables, telegram, runtime, history
  <1>3. CASE StopAccount(r)
    <2>1. row' \in [Accounts -> RowStates]
      BY <1>0, <1>1, <1>3, SetStateType DEF StopAccount, DataType
    <2>2. QED
      BY <1>0, <1>3, <2>1 DEF StopAccount, DataType, telegram, history
  <1>4. CASE Unplug(r)
    <2>1. mishaps' \in [MishapKinds -> Nat]
      BY <1>0, <1>1, <1>4, MishapCounts DEF Unplug, DataType
    <2>2. clients' \in [Accounts -> Int]
      BY <1>0, <1>4 DEF Unplug, DataType
    <2>3. on[r] \in Accounts
      BY <1>4, ProcCases DEF Unplug, Away, BaseInv, Processes
    <2>4. QED
      BY <1>0, <1>4, <2>1, <2>2, <2>3 DEF Unplug, DataType, tables, telegram
  <1>5. CASE Erase(r)
    <2>1. on[r] \in Accounts
      BY <1>5, ProcCases DEF Erase, Away, BaseInv, Processes
    <2>2. QED
      BY <1>0, <1>1, <1>5, <2>1 DEF Erase, DeleteAccount, DataType, telegram, runtime
  <1>6. CASE AdminFails(r)
    <2>1. mishaps' \in [MishapKinds -> Nat]
      BY <1>0, <1>1, <1>6, MishapCounts DEF AdminFails
    <2>2. step[r] = "erase" => on[r] \in Accounts
      BY ProcCases DEF Away, BaseInv, Processes
    <2>3. row' \in [Accounts -> RowStates]
      BY <1>0, <1>1, <1>6, SetStateType DEF AdminFails, DeleteAccount, DataType, tables
    <2>4. secret' \in [Accounts -> Sessions \cup {NoSession, Unauthorized}]
      BY <1>0, <1>6 DEF AdminFails, DeleteAccount, DataType, tables
    <2>5. erased' \subseteq Accounts
      BY <1>0, <1>6, <2>2 DEF AdminFails, DeleteAccount, DataType
    <2>6. QED
      BY <1>0, <1>6, <2>1, <2>3, <2>4, <2>5 DEF AdminFails, DataType, telegram, runtime
  <1>7. QED
    BY <1>2, <1>3, <1>4, <1>5, <1>6

LEMMA OnboardingData ==
  ASSUME BaseInv, NEW r \in Requests,
         OnboardingStep(r) \/ PutCredentials(r) \/ UpsertAccount(r)
  PROVE  DataType'
  <1>0. DataType
    BY DEF BaseInv
  <1>1. /\ {"disconnected", "connecting", "reconnect_required"} \subseteq RowStates
        /\ {"hangup", "statement"} \subseteq MishapKinds
    BY DEF RowStates, MishapKinds
  <1>2. ASSUME NEW a, NewSession(a), step[r] = "store" \/ MayIssue
        PROVE  /\ secret' \in [Accounts -> Sessions \cup {NoSession, Unauthorized}]
               /\ issued' \in Nat
    <2>1. issued' = issued + 1 /\ issued' \in Sessions
      BY <1>2, Room DEF NewSession
    <2>2. secret' = [secret EXCEPT ![a] = issued']
      BY <1>2 DEF NewSession
    <2>3. issued' \in Nat
      BY <1>0, <2>1 DEF DataType
    <2>4. QED
      BY <1>0, <2>1, <2>2, <2>3 DEF DataType
  <1>3. ASSUME FailOnboarding(r)
        PROVE  /\ pending' \in [Accounts -> {"none", "code", "password"}]
               /\ row' \in [Accounts -> RowStates]
    BY <1>0, <1>1, <1>3, SetStateType DEF FailOnboarding, DataType
  <1>4. row' \in [Accounts -> RowStates]
    <2>1. ASSUME NEW s \in {"disconnected", "connecting", "reconnect_required"},
                 SetState(on[r], s)
          PROVE  row' \in [Accounts -> RowStates]
      BY <1>0, <1>1, <2>1, SetStateType
    <2>2. ASSUME NEW s \in {"disconnected", "connecting"}, row' = [row EXCEPT ![on[r]] = s]
          PROVE  row' \in [Accounts -> RowStates]
      BY <1>0, <1>1, <2>2 DEF DataType
    <2>3. QED
      BY <1>0, <1>3, <2>1, <2>2 DEF DataType, OnboardingStep, Register, InsertAccount,
         StartAgain, BeginAuthorization, Submit, StoreSession, MarkAuthorized,
         FinishOnboarding, OnboardingFails, PutCredentials, UpsertAccount
  <1>5. pending' \in [Accounts -> {"none", "code", "password"}]
    BY <1>0, <1>3 DEF DataType, OnboardingStep, Register, InsertAccount, StartAgain,
       BeginAuthorization, Submit, StoreSession, MarkAuthorized, FinishOnboarding,
       OnboardingFails, PutCredentials, UpsertAccount
  <1>6. /\ secret' \in [Accounts -> Sessions \cup {NoSession, Unauthorized}]
        /\ issued' \in Nat
    BY <1>0, <1>2 DEF DataType, OnboardingStep, Register, InsertAccount, StartAgain,
       BeginAuthorization, Submit, StoreSession, MarkAuthorized, FinishOnboarding,
       OnboardingFails, PutCredentials, UpsertAccount, telegram
  <1>7. mishaps' \in [MishapKinds -> Nat]
    BY <1>0, <1>1, MishapCounts DEF DataType, OnboardingStep, Register, InsertAccount,
       StartAgain, BeginAuthorization, Submit, StoreSession, MarkAuthorized,
       FinishOnboarding, OnboardingFails, PutCredentials, UpsertAccount
  <1>8. erased' \subseteq erased
    BY DEF OnboardingStep, Register, InsertAccount,
       StartAgain, BeginAuthorization, Submit, StoreSession, MarkAuthorized,
       FinishOnboarding, OnboardingFails, PutCredentials, UpsertAccount, history
  <1>9. UNCHANGED <<revoked, known, runtime, todo, serving, stopped>>
    BY DEF OnboardingStep, Register, InsertAccount,
       StartAgain, BeginAuthorization, Submit, StoreSession, MarkAuthorized,
       FinishOnboarding, OnboardingFails, PutCredentials, UpsertAccount, history, telegram
  <1>10. QED
    BY <1>0, <1>4, <1>5, <1>6, <1>7, <1>8, <1>9 DEF DataType, runtime

LEMMA SurroundingsData ==
  ASSUME BaseInv,
         \/ Crash
         \/ \E a \in Accounts : BackoffEnds(a) \/ Drop(a)
         \/ \E s \in Sessions : Revoke(s)
  PROVE  DataType'
  <1>0. DataType
    BY DEF BaseInv
  <1>1. mishaps' \in [MishapKinds -> Nat]
    BY <1>0, MishapCounts DEF Crash, BackoffEnds, Drop, Revoke, DataType, MishapKinds
  <1>2. CASE Crash
    <2>1. /\ adapter' \in [Accounts -> Sessions \cup {NoSession}]
          /\ clients' \in [Accounts -> Int]
          /\ pending' \in [Accounts -> {"none", "code", "password"}]
          /\ todo' \subseteq Accounts
      <3>1. /\ adapter' = [a \in Accounts |-> NoSession]
            /\ clients' = [a \in Accounts |-> 0]
            /\ pending' = [a \in Accounts |-> "none"]
            /\ todo' = {}
        BY <1>2 DEF Crash
      <3>2. QED
        BY <3>1
    <2>3. online' \in [Accounts -> BOOLEAN] /\ backoff' \in [Accounts -> BOOLEAN]
      BY <1>2 DEF Crash
    <2>4. serving' \in BOOLEAN
      BY <1>2 DEF Crash
    <2>2. UNCHANGED <<row, secret, issued, revoked, known, stopped, erased>>
      BY <1>2 DEF Crash, tables, telegram, history
    <2>5. QED
      BY <1>0, <1>1, <2>1, <2>2, <2>3, <2>4 DEF DataType
  <1>3. ASSUME NEW a \in Accounts, BackoffEnds(a)
        PROVE  DataType'
    BY <1>0, <1>3 DEF BackoffEnds, DataType, tables, telegram, history
  <1>4. ASSUME NEW a \in Accounts, Drop(a)
        PROVE  DataType'
    BY <1>0, <1>1, <1>4 DEF Drop, DataType, tables, telegram, history
  <1>5. ASSUME NEW s \in Sessions, Revoke(s)
        PROVE  DataType'
    BY <1>0, <1>1, <1>5 DEF Revoke, DataType, tables, runtime, history
  <1>6. QED
    BY <1>2, <1>3, <1>4, <1>5

LEMMA DataStep ==
  ASSUME BaseInv, [LifecycleNext]_vars
  PROVE  DataType'
  <1>1. CASE UNCHANGED vars
    BY <1>1 DEF vars, BaseInv, DataType, tables, telegram, runtime, history
  <1>2. CASE LifecycleNext
    BY <1>2, NextCases, EnsureData, LoopData, StoppingData, OnboardingData,
       SurroundingsData
  <1>3. QED
    BY <1>1, <1>2

-----------------------------------------------------------------------------
(***************************************************************************)
(* Sessions stay under their bound, with those that are about to be stored.  *)
(***************************************************************************)
LEMMA StoringShrinks ==
  ASSUME BaseInv, Storing' \subseteq Storing, issued' = issued
  PROVE  IssuedOK'
  <1>1. Cardinality(Storing') <= Cardinality(Storing) /\ Cardinality(Storing') \in Nat
    BY StoringFinite, FS_Subset, FS_CardinalityType
  <1>2. issued \in Nat /\ MaxSessions \in Nat /\ Cardinality(Storing) \in Nat
    BY LifecycleAssumption, StoringFinite DEF BaseInv, DataType
  <1>3. issued + Cardinality(Storing) <= MaxSessions
    BY DEF BaseInv, IssuedOK
  <1>4. Cardinality(Storing)' = Cardinality(Storing')
    OBVIOUS
  <1>5. QED
    BY <1>1, <1>2, <1>3, <1>4 DEF IssuedOK

LEMMA StoringMoves ==
  ASSUME BaseInv, NEW p \in Processes, Rest(p), step'[p] # "store"
  PROVE  Storing' = Storing \ {p}
  BY DEF Storing, Rest, Processes

LEMMA IssuedStep ==
  ASSUME BaseInv, [LifecycleNext]_vars
  PROVE  IssuedOK'
  <1>0. /\ ProcInv /\ DataType /\ issued \in Nat /\ MaxSessions \in Nat
        /\ Cardinality(Storing) \in Nat /\ IsFiniteSet(Storing)
        /\ issued + Cardinality(Storing) <= MaxSessions
        /\ Requests \subseteq Processes
    BY LifecycleAssumption, StoringFinite DEF BaseInv, DataType, IssuedOK, Processes
  <1>1. ASSUME NEW p \in Processes, Rest(p), step'[p] # "store", issued' = issued
        PROVE  IssuedOK'
    BY <1>1, StoringMoves, StoringShrinks
  <1>2. ASSUME UNCHANGED step, issued' = issued
        PROVE  IssuedOK'
    BY <1>2, StoringShrinks DEF Storing
  <1>3. ASSUME NEW r \in Requests, step[r] = "store", Rest(r), step'[r] # "store",
               issued' = issued + 1
        PROVE  IssuedOK'
    <2>1. r \in Storing
      BY <1>3 DEF Storing
    <2>2. Storing' = Storing \ {r}
      BY <1>0, <1>3, StoringMoves
    <2>3. Cardinality(Storing') = Cardinality(Storing) - 1
      BY <1>0, <2>1, <2>2, FS_RemoveElement
    <2>4. Cardinality(Storing)' = Cardinality(Storing')
      OBVIOUS
    <2>5. QED
      BY <1>0, <1>3, <2>3, <2>4 DEF IssuedOK
  <1>4. ASSUME NEW r \in Requests, step[r] # "store", Rest(r), step'[r] # "store", MayIssue,
               issued' = issued + 1
        PROVE  IssuedOK'
    <2>1. Storing' = Storing
      BY <1>0, <1>4, StoringMoves DEF Storing
    <2>2. issued + Cardinality(Storing) < MaxSessions
      BY <1>4 DEF MayIssue, Storing
    <2>3. Cardinality(Storing)' = Cardinality(Storing')
      OBVIOUS
    <2>4. QED
      BY <1>0, <1>4, <2>1, <2>2, <2>3 DEF IssuedOK
  <1>5. ASSUME NEW r \in Requests, Goes(r, "store"), MayIssue, issued' = issued
        PROVE  IssuedOK'
    <2>1. Storing' = Storing \cup {r}
      BY <1>5, <1>0 DEF Storing, Goes, Rest
    <2>2. Cardinality(Storing') <= Cardinality(Storing) + 1 /\ Cardinality(Storing') \in Nat
      <3>1. Cardinality(Storing \cup {r}) = IF r \in Storing THEN Cardinality(Storing)
                                                        ELSE Cardinality(Storing) + 1
        BY <1>0, FS_AddElement
      <3>2. QED
        BY <1>0, <2>1, <3>1
    <2>3. issued + Cardinality(Storing) < MaxSessions
      BY <1>5 DEF MayIssue, Storing
    <2>4. Cardinality(Storing)' = Cardinality(Storing')
      OBVIOUS
    <2>5. QED
      BY <1>0, <1>5, <2>2, <2>3, <2>4 DEF IssuedOK
  <1>6. CASE UNCHANGED vars
    BY <1>2, <1>6 DEF vars, procs, telegram
  <1>7. ASSUME NEW p \in Processes, EnsureStep(p) \/ EnsureFails(p)
        PROVE  IssuedOK'
    <2>1. Rest(p) /\ step'[p] # "store"
      BY <1>0, <1>7, EnsureWalk DEF Leaves, Goes, Ensuring, Away
    <2>2. issued' = issued
      BY <1>7 DEF EnsureStep, EnsureRead, EnsureDecide, EnsureCreate, EnsureDial,
         EnsureConnected, EnsureFailed, EnsureFails, telegram
    <2>3. QED
      BY <1>1, <2>1, <2>2
  <1>8. CASE ListEnabled \/ PassEnds \/ ListFails \/ Restart
    <2>1. issued' = issued
      BY <1>8 DEF ListEnabled, PassEnds, ListFails, Restart, telegram
    <2>2. QED
      BY <1>0, <1>1, <1>8, <2>1, LoopWalk DEF Away, Processes
  <1>9. ASSUME NEW a \in Accounts, PickAccount(a)
        PROVE  IssuedOK'
    BY <1>0, <1>1, <1>9, PickWalk DEF PickAccount, telegram, Processes
  <1>10. ASSUME NEW r \in Requests, NEW o \in Operations, NEW a \in Accounts, Ask(r, o, a)
         PROVE  IssuedOK'
    BY <1>0, <1>1, <1>10, AskWalk DEF Ask, telegram
  <1>11. ASSUME NEW r \in Requests,
                \/ CancelOnboarding(r) \/ StopAccount(r) \/ Unplug(r) \/ Erase(r)
                \/ AdminFails(r)
         PROVE  IssuedOK'
    <2>1. Rest(r) /\ step'[r] # "store"
      BY <1>0, <1>11, StoppingWalk DEF Leaves, Goes, Away
    <2>2. issued' = issued
      BY <1>11 DEF CancelOnboarding, StopAccount, Unplug, Erase, AdminFails, telegram
    <2>3. QED
      BY <1>0, <1>1, <2>1, <2>2
  <1>12. ASSUME NEW r \in Requests, OnboardingStep(r)
         PROVE  IssuedOK'
    <2>1. /\ Rest(r)
          /\ \/ step'[r] # "store"
             \/ Goes(r, "store") /\ Submit(r) /\ MayIssue
      BY <1>0, <1>12, OnboardingWalk DEF Leaves, Goes, Away
    <2>2. \/ issued' = issued
          \/ step[r] = "store" /\ ~Submit(r) /\ issued' = issued + 1
      BY <1>12 DEF OnboardingStep, Register, InsertAccount, StartAgain,
         BeginAuthorization, Submit, Submits, Onboarding, StoreSession, MarkAuthorized,
         FinishOnboarding, OnboardingFails, NewSession, telegram
    <2>3. QED
      BY <1>0, <1>1, <1>3, <1>5, <2>1, <2>2
  <1>13. ASSUME NEW r \in Requests, PutCredentials(r) \/ UpsertAccount(r)
         PROVE  IssuedOK'
    <2>1. Rest(r) /\ step'[r] # "store"
      BY <1>0, <1>13, CreateWalk DEF Leaves, Goes, Away
    <2>2. \/ issued' = issued
          \/ step[r] # "store" /\ MayIssue /\ issued' = issued + 1
      BY <1>13 DEF PutCredentials, UpsertAccount, NewSession, telegram
    <2>3. QED
      BY <1>0, <1>1, <1>4, <2>1, <2>2
  <1>14. CASE Crash
    BY <1>14, StoringShrinks, LifecycleAssumption DEF Crash, Storing, Processes, telegram
  <1>15. ASSUME NEW a \in Accounts, BackoffEnds(a) \/ Drop(a)
         PROVE  IssuedOK'
    BY <1>2, <1>15 DEF BackoffEnds, Drop, telegram, procs
  <1>16. ASSUME NEW s \in Sessions, Revoke(s)
         PROVE  IssuedOK'
    BY <1>2, <1>16 DEF Revoke, procs
  <1>17. QED
    BY <1>6, <1>7, <1>8, <1>9, <1>10, <1>11, <1>12, <1>13, <1>14, <1>15, <1>16, NextCases

LEMMA BaseInit ==
  ASSUME LifecycleInit
  PROVE  BaseInv
  <1> USE DEF LifecycleInit
  <1>1. DataType
    <2>1. /\ row \in [Accounts -> RowStates]
          /\ secret \in [Accounts -> Sessions \cup {NoSession, Unauthorized}]
          /\ adapter \in [Accounts -> Sessions \cup {NoSession}]
          /\ clients \in [Accounts -> Int]
          /\ pending \in [Accounts -> {"none", "code", "password"}]
      BY DEF RowStates
    <2>2. online \in [Accounts -> BOOLEAN] /\ backoff \in [Accounts -> BOOLEAN]
      OBVIOUS
    <2>3. /\ issued \in Nat /\ revoked \subseteq Sessions /\ known \subseteq Accounts
          /\ todo \subseteq Accounts /\ stopped \subseteq Accounts /\ erased \subseteq Accounts
      OBVIOUS
    <2>4. mishaps \in [MishapKinds -> Nat]
      OBVIOUS
    <2>5. serving \in BOOLEAN
      OBVIOUS
    <2>6. QED
      BY <2>1, <2>2, <2>3, <2>4, <2>5 DEF DataType
  <1>2. Storing = {}
    BY LifecycleAssumption DEF LifecycleInit, Storing, Processes
  <1>3. IssuedOK
    BY <1>2, FS_EmptySet, LifecycleAssumption DEF IssuedOK, LifecycleInit
  <1>4. QED
    BY <1>1, <1>3, ProcInit DEF BaseInv

LEMMA BaseStep ==
  ASSUME BaseInv, [LifecycleNext]_vars
  PROVE  BaseInv'
  BY ProcStep, DataStep, IssuedStep DEF BaseInv

\* The positions, queues and types below are invariants, and there is always room for
\* the sessions that are about to be stored.
THEOREM BaseInvariant == LifecycleSpec => []BaseInv
  BY BaseInit, BaseStep, PTL DEF LifecycleSpec

-----------------------------------------------------------------------------
(***************************************************************************)
(* Stopped accounts.  Nobody is inside ensure() for one, and disconnecting    *)
(* finds the account marked, as ensure() cannot run in between.              *)
(***************************************************************************)
Calm == {"absent", "disconnected", "connecting", "reconnect_required"}
Ensured(a) == \E p \in Processes : on[p] = a /\ step[p] \in Ensuring

StopInv ==
  /\ StoppedStaysStopped
  /\ \A p \in Processes :
       /\ on[p] \in stopped => step[p] \notin Ensuring
       /\ step[p] = "unplug" => row[on[p]] \in Calm

LEMMA StopFrame ==
  ASSUME BaseInv, StopInv,
         \A a \in Accounts : row'[a] = row[a] \/ row'[a] \in Calm \/ Ensured(a),
         \A a \in Accounts : adapter'[a] \in {adapter[a], NoSession} \/ Ensured(a),
         stopped' \subseteq stopped,
         \A p \in Processes : step'[p] \in Ensuring =>
           on'[p] \notin stopped' \/ (on'[p] = on[p] /\ step[p] \in Ensuring),
         \A p \in Processes : step'[p] = "unplug" =>
           row'[on'[p]] \in Calm \/ (on'[p] = on[p] /\ step[p] = "unplug")
  PROVE  StopInv'
  <1>1. StoppedStaysStopped'
    <2>1. ASSUME NEW a \in stopped'
          PROVE  adapter'[a] = NoSession /\ row'[a] \notin {"connected", "error"}
      <3>1. ~Ensured(a) /\ a \in Accounts
        BY <2>1 DEF Ensured, StopInv, BaseInv, DataType
      <3>2. adapter[a] = NoSession /\ row[a] \notin {"connected", "error"}
        BY <2>1 DEF StopInv, StoppedStaysStopped
      <3>3. QED
        BY <3>1, <3>2 DEF Calm
    <2>2. QED
      BY <2>1 DEF StoppedStaysStopped
  <1>2. ASSUME NEW p \in Processes, on'[p] \in stopped'
        PROVE  step'[p] \notin Ensuring
    BY <1>2 DEF StopInv
  <1>3. ASSUME NEW p \in Processes, step'[p] = "unplug"
        PROVE  row'[on'[p]] \in Calm
    <2>1. CASE on'[p] = on[p] /\ step[p] = "unplug"
      <3>1. on[p] \in Accounts /\ row[on[p]] \in Calm
        BY <2>1, ProcCases DEF StopInv, BaseInv, Away
      <3>2. ~Ensured(on[p])
        BY <2>1, OneInside DEF Ensured, BaseInv, InSup, Ensuring
      <3>3. QED
        BY <2>1, <3>1, <3>2
    <2>2. QED
      BY <1>3, <2>1
  <1>4. QED
    BY <1>1, <1>2, <1>3 DEF StopInv

\* A step that touches none of what StopInv is about.
LEMMA StopStill ==
  ASSUME StopInv, UNCHANGED <<row, adapter, stopped>>, UNCHANGED procs
  PROVE  StopInv'
  BY DEF StopInv, StoppedStaysStopped, procs

\* A process that leaves, or goes on outside ensure().
LEMMA StopQuiet ==
  ASSUME BaseInv, StopInv, NEW p \in Processes,
         Leaves(p) \/ (Rest(p) /\ step'[p] \notin Ensuring \cup {"unplug"}),
         \A a \in Accounts : row'[a] = row[a] \/ row'[a] \in Calm \/ Ensured(a),
         \A a \in Accounts : adapter'[a] \in {adapter[a], NoSession} \/ Ensured(a),
         stopped' \subseteq stopped
  PROVE  StopInv'
  <1>1. Rest(p) /\ step'[p] \notin Ensuring \cup {"unplug"}
    BY DEF Leaves, Away, Ensuring
  <1>2. \A x \in Processes : step'[x] \in Ensuring =>
          on'[x] \notin stopped' \/ (on'[x] = on[x] /\ step[x] \in Ensuring)
    BY <1>1 DEF Rest
  <1>3. \A x \in Processes : step'[x] = "unplug" =>
          row'[on'[x]] \in Calm \/ (on'[x] = on[x] /\ step[x] = "unplug")
    BY <1>1 DEF Rest
  <1>4. QED
    BY <1>2, <1>3, StopFrame

LEMMA SetStateWhere ==
  ASSUME DataType, NEW a, NEW s, SetState(a, s)
  PROVE  \A b \in Accounts : row'[b] = row[b] \/ (b = a /\ row'[b] = s /\ row[b] # "absent")
  BY DEF DataType, SetState

LEMMA StopEnsure ==
  ASSUME BaseInv, StopInv, NEW p \in Processes, EnsureStep(p) \/ EnsureFails(p)
  PROVE  StopInv'
  <1>0. ProcInv /\ DataType
    BY DEF BaseInv
  <1>1. /\ \A a \in Accounts : row'[a] = row[a] \/ row'[a] \in Calm \/ Ensured(a)
        /\ \A a \in Accounts : adapter'[a] \in {adapter[a], NoSession} \/ Ensured(a)
    <2>1. CASE step[p] \in Ensuring
      <3>1. Ensured(on[p])
        BY <2>1 DEF Ensured
      <3>2. \A a \in Accounts : row'[a] = row[a] \/ a = on[p]
        <4>1. ASSUME NEW s, SetState(on[p], s)
              PROVE  \A a \in Accounts : row'[a] = row[a] \/ a = on[p]
          BY <1>0, <4>1, SetStateWhere
        <4>2. QED
          BY <4>1, <2>1 DEF EnsureStep, EnsureRead, EnsureDecide, EnsureCreate, EnsureDial,
             EnsureConnected, EnsureFailed, EnsureFails, tables
      <3>3. \A a \in Accounts : adapter'[a] = adapter[a] \/ a = on[p]
        BY <1>0, <2>1 DEF EnsureStep, EnsureRead, EnsureDecide, EnsureCreate, EnsureDial,
           EnsureConnected, EnsureFailed, EnsureFails, runtime, DataType
      <3>4. QED
        BY <3>1, <3>2, <3>3
    <2>2. CASE step[p] \notin Ensuring
      BY <2>2 DEF EnsureStep, EnsureRead, EnsureDecide, EnsureCreate, EnsureDial,
         EnsureConnected, EnsureFailed, EnsureFails, tables, runtime, Ensuring
    <2>3. QED
      BY <2>1, <2>2
  <1>2. stopped' \subseteq stopped
    BY DEF EnsureStep, EnsureRead, EnsureDecide, EnsureCreate, EnsureDial,
       EnsureConnected, EnsureFailed, EnsureFails, history
  <1>3. CASE Leaves(p)
    BY <1>1, <1>2, <1>3, StopQuiet
  <1>4. ASSUME NEW s \in Ensuring, Goes(p, s), on[p] \notin stopped' \/ step[p] \in Ensuring
        PROVE  StopInv'
    <2>1. \A x \in Processes : step'[x] \in Ensuring =>
            on'[x] \notin stopped' \/ (on'[x] = on[x] /\ step[x] \in Ensuring)
      BY <1>4 DEF Goes, Rest
    <2>2. \A x \in Processes : step'[x] = "unplug" =>
            row'[on'[x]] \in Calm \/ (on'[x] = on[x] /\ step[x] = "unplug")
      BY <1>4 DEF Goes, Rest, Ensuring
    <2>3. QED
      BY <1>1, <1>2, <2>1, <2>2, StopFrame
  <1>5. ASSUME EnsureRead(p), Goes(p, "decide")
        PROVE  on[p] \notin stopped'
    <2>1. step'[p] = "decide" /\ Turn(supQueue, p)
      BY <1>5 DEF Goes, EnsureRead
    <2>2. ~Return(p)
      BY <1>0, <2>1, SettleLeaves DEF Leaves, Away
    <2>3. on[p] \in Accounts
      BY <2>1 DEF Turn
    <2>4. /\ row[on[p]] # "absent" /\ (~Forced(p) => row[on[p]] \notin Resting)
          /\ stopped' = IF Forced(p) THEN stopped \ {on[p]} ELSE stopped
      BY <1>5, <2>2 DEF EnsureRead
    <2>5. row[on[p]] \in RowStates
      BY <1>0, <2>3 DEF DataType
    <2>6. QED
      BY <2>4, <2>5 DEF StopInv, StoppedStaysStopped, Resting, RowStates
  <1>6. QED
    BY <1>0, <1>3, <1>4, <1>5, EnsureWalk DEF Ensuring

LEMMA StoppingRows ==
  ASSUME BaseInv, NEW r \in Requests,
         CancelOnboarding(r) \/ StopAccount(r) \/ Unplug(r) \/ Erase(r) \/ AdminFails(r)
  PROVE  \A a \in Accounts : row'[a] = row[a] \/ row'[a] \in Calm
  <1>0. DataType
    BY DEF BaseInv
  <1>1. SetState(on[r], "disconnected") =>
          \A a \in Accounts : row'[a] = row[a] \/ row'[a] \in Calm
    BY <1>0, SetStateWhere DEF Calm
  <1>2. DeleteAccount(on[r]) => \A a \in Accounts : row'[a] = row[a] \/ row'[a] \in Calm
    BY <1>0 DEF DeleteAccount, Calm, DataType
  <1>3. QED
    BY <1>1, <1>2 DEF CancelOnboarding, StopAccount, Unplug, Erase, AdminFails, tables

LEMMA OnboardingRows ==
  ASSUME BaseInv, NEW r \in Requests,
         OnboardingStep(r) \/ PutCredentials(r) \/ UpsertAccount(r)
  PROVE  \A a \in Accounts : row'[a] = row[a] \/ row'[a] \in Calm
  <1>0. DataType
    BY DEF BaseInv
  <1>1. ASSUME NEW s \in {"disconnected", "connecting", "reconnect_required"},
               SetState(on[r], s) \/ row' = [row EXCEPT ![on[r]] = s]
        PROVE  \A a \in Accounts : row'[a] = row[a] \/ row'[a] \in Calm
    BY <1>0, <1>1, SetStateWhere DEF Calm, DataType
  <1>2. QED
    BY <1>1 DEF OnboardingStep, Register, InsertAccount, StartAgain, BeginAuthorization,
       Submit, StoreSession, MarkAuthorized, FinishOnboarding, OnboardingFails,
       FailOnboarding, PutCredentials, UpsertAccount

LEMMA StopStopping ==
  ASSUME BaseInv, StopInv, NEW r \in Requests,
         CancelOnboarding(r) \/ StopAccount(r) \/ Unplug(r) \/ Erase(r) \/ AdminFails(r)
  PROVE  StopInv'
  <1>0. ProcInv /\ DataType /\ r \in Processes
    BY DEF BaseInv, Processes
  <1>1. \A a \in Accounts : row'[a] = row[a] \/ row'[a] \in Calm
    BY StoppingRows
  <1>2. \A a \in Accounts : adapter'[a] \in {adapter[a], NoSession}
    BY <1>0 DEF CancelOnboarding, StopAccount, Unplug, Erase, AdminFails, runtime, DataType
  <1>3. CASE ~Unplug(r) /\ ~Goes(r, "unplug")
    <2>1. stopped' = stopped
      BY <1>3 DEF CancelOnboarding, StopAccount, Erase, AdminFails, history
    <2>2. Rest(r) /\ step'[r] \notin Ensuring \cup {"unplug"}
      BY <1>0, <1>3, StoppingWalk DEF Leaves, Goes, Away, Ensuring
    <2>3. QED
      BY <1>0, <1>1, <1>2, <2>1, <2>2, StopQuiet
  <1>4. CASE StopAccount(r) /\ row[on[r]] # "absent" /\ Goes(r, "unplug")
    <2>1. stopped' = stopped
      BY <1>4 DEF StopAccount, history
    <2>2. on[r] \in Accounts
      BY <1>4 DEF StopAccount, Stopping, Turn
    <2>3. row'[on[r]] = "disconnected"
      <3>1. SetState(on[r], "disconnected")
        BY <1>4 DEF StopAccount
      <3>2. QED
        BY <1>0, <1>4, <2>2, <3>1 DEF SetState, DataType
    <2>4. \A x \in Processes : step'[x] \in Ensuring =>
            on'[x] \notin stopped' \/ (on'[x] = on[x] /\ step[x] \in Ensuring)
      BY <1>4 DEF Goes, Rest, Ensuring
    <2>5. \A x \in Processes : step'[x] = "unplug" =>
            row'[on'[x]] \in Calm \/ (on'[x] = on[x] /\ step[x] = "unplug")
      BY <1>4, <2>3 DEF Goes, Rest, Calm
    <2>6. QED
      BY <1>1, <1>2, <2>1, <2>4, <2>5, StopFrame
  <1>5. CASE Unplug(r)
    <2>1. /\ step[r] = "unplug" /\ on[r] \in Accounts /\ row[on[r]] \in Calm
          /\ row' = row /\ stopped' = stopped \cup {on[r]}
      BY <1>0, <1>5, ProcCases DEF Unplug, StopInv, Away, tables
    <2>2. adapter'[on[r]] = NoSession
      BY <1>0, <1>5, <2>1 DEF Unplug, DataType
    <2>3. Rest(r) /\ step'[r] \notin Ensuring \cup {"unplug"}
      BY <1>0, <1>5, <2>1, StoppingWalk DEF Leaves, Goes, Away, Ensuring, CancelOnboarding,
         StopAccount, Stopping, Onboarding
    <2>4. ASSUME NEW p \in Processes, on'[p] \in stopped', step'[p] \in Ensuring
          PROVE  FALSE
      <3>1. p # r /\ on[p] \in stopped' /\ step[p] \in Ensuring
        BY <2>3, <2>4 DEF Rest
      <3>2. on[p] # on[r]
        BY <1>0, <2>1, <3>1, OneInside DEF InSup
      <3>3. QED
        BY <2>1, <3>1, <3>2 DEF StopInv
    <2>5. ASSUME NEW p \in Processes, step'[p] = "unplug"
          PROVE  row'[on'[p]] \in Calm
      BY <2>1, <2>3, <2>5 DEF Rest, StopInv
    <2>6. StoppedStaysStopped'
      BY <1>2, <2>1, <2>2 DEF StoppedStaysStopped, StopInv, Calm, BaseInv, DataType
    <2>7. QED
      BY <2>4, <2>5, <2>6 DEF StopInv
  <1>6. CASE Goes(r, "unplug") /\ ~Unplug(r)
    BY <1>0, <1>4, <1>6, StoppingWalk DEF Goes, Leaves, Away
  <1>7. QED
    BY <1>3, <1>5, <1>6

LEMMA StopOnboarding ==
  ASSUME BaseInv, StopInv, NEW r \in Requests,
         OnboardingStep(r) \/ PutCredentials(r) \/ UpsertAccount(r)
  PROVE  StopInv'
  <1>0. ProcInv /\ DataType /\ r \in Processes
    BY DEF BaseInv, Processes
  <1>1. \A a \in Accounts : row'[a] = row[a] \/ row'[a] \in Calm
    BY OnboardingRows
  <1>2. adapter' = adapter /\ stopped' = stopped
    BY DEF OnboardingStep, Register, InsertAccount, StartAgain, BeginAuthorization,
       Submit, StoreSession, MarkAuthorized, FinishOnboarding, OnboardingFails,
       PutCredentials, UpsertAccount, runtime, history
  <1>3. Rest(r) /\ step'[r] \notin Ensuring \cup {"unplug"}
    BY <1>0, OnboardingWalk, CreateWalk DEF Leaves, Goes, Away, Ensuring
  <1>4. QED
    BY <1>0, <1>1, <1>2, <1>3, StopQuiet

LEMMA StopStep ==
  ASSUME BaseInv, StopInv, [LifecycleNext]_vars
  PROVE  StopInv'
  <1>0. ProcInv /\ Supervisor \in Processes /\ Requests \subseteq Processes
    BY DEF BaseInv, Processes
  <1>1. CASE UNCHANGED vars
    BY <1>1, StopStill DEF vars, tables, runtime, history
  <1>2. ASSUME NEW p \in Processes, Rest(p), step'[p] \notin Ensuring \cup {"unplug"},
               UNCHANGED <<row, adapter, stopped>>
        PROVE  StopInv'
    BY <1>2, StopQuiet
  <1>3. CASE ListEnabled \/ PassEnds \/ ListFails \/ Restart
    <2>1. Rest(Supervisor) /\ step'[Supervisor] \notin Ensuring \cup {"unplug"}
      BY <1>0, <1>3, LoopWalk DEF Away, Ensuring
    <2>2. QED
      BY <1>0, <1>2, <1>3, <2>1
      DEF ListEnabled, PassEnds, ListFails, Restart, tables, runtime, history
  <1>4. ASSUME NEW a \in Accounts, PickAccount(a)
        PROVE  StopInv'
    <2>1. Rest(Supervisor) /\ step'[Supervisor] \notin Ensuring \cup {"unplug"}
      BY <1>0, <1>4, PickWalk DEF Ensuring
    <2>2. QED
      BY <1>0, <1>2, <1>4, <2>1 DEF PickAccount, tables, runtime, history
  <1>5. ASSUME NEW r \in Requests, NEW o \in Operations, NEW a \in Accounts, Ask(r, o, a)
        PROVE  StopInv'
    <2>1. Rest(r) /\ step'[r] \notin Ensuring \cup {"unplug"}
      BY <1>0, <1>5, AskWalk DEF Ensuring
    <2>2. QED
      BY <1>0, <1>2, <1>5, <2>1 DEF Ask, tables, runtime, history
  <1>6. CASE Crash
    <2>1. /\ row' = row /\ stopped' = stopped /\ \A a \in Accounts : adapter'[a] = NoSession
          /\ \A p \in Processes : step'[p] \notin Ensuring \cup {"unplug"}
      BY <1>6 DEF Crash, tables, history, Ensuring
    <2>2. QED
      BY <2>1, StopFrame
  <1>7. ASSUME NEW a \in Accounts, BackoffEnds(a) \/ Drop(a)
        PROVE  StopInv'
    BY <1>7, StopStill DEF BackoffEnds, Drop, tables, history
  <1>8. ASSUME NEW s \in Sessions, Revoke(s)
        PROVE  StopInv'
    BY <1>8, StopStill DEF Revoke, tables, runtime, history
  <1>9. QED
    BY <1>1, <1>3, <1>4, <1>5, <1>6, <1>7, <1>8, NextCases, StopEnsure, StopStopping,
       StopOnboarding

\* An account that was disconnected on request has no adapter and is not taken up
\* by a pass of the supervisor, for any accounts, requests and mishaps.
THEOREM StoppedAccountsStayStopped == LifecycleSpec => []StoppedStaysStopped
  <1>1. LifecycleInit => StopInv
    BY DEF LifecycleInit, StopInv, StoppedStaysStopped, Ensuring
  <1>2. StopInv => StoppedStaysStopped
    BY DEF StopInv
  <1>3. QED
    BY <1>1, <1>2, BaseInvariant, StopStep, PTL DEF LifecycleSpec

-----------------------------------------------------------------------------
(***************************************************************************)
(* Clients.  ensure() creates one only where no adapter is registered, and   *)
(* a disconnect that fails is the only way to forget one.                    *)
(***************************************************************************)
LEMMA MishapsGrow ==
  ASSUME DataType, [LifecycleNext]_vars
  PROVE  \A k \in MishapKinds : mishaps'[k] >= mishaps[k]
  <1>1. ASSUME UNCHANGED mishaps
        PROVE  \A k \in MishapKinds : mishaps'[k] >= mishaps[k]
    <2>1. mishaps \in [MishapKinds -> Nat]
      BY DEF DataType
    <2> HIDE DEF MishapKinds
    <2>2. QED
      BY <1>1, <2>1
  <1>2. UNCHANGED mishaps \/ \E k \in MishapKinds : Mishap(k)
    <2>1. CASE UNCHANGED vars
      BY <2>1 DEF vars
    <2>2. ASSUME NEW p \in Processes, EnsureStep(p) \/ EnsureFails(p)
          PROVE  UNCHANGED mishaps \/ \E k \in MishapKinds : Mishap(k)
      BY <2>2 DEF EnsureStep, EnsureRead, EnsureDecide, EnsureCreate, EnsureDial,
         EnsureConnected, EnsureFailed, EnsureFails, MishapKinds
    <2>3. ASSUME NEW r \in Requests,
                 \/ CancelOnboarding(r) \/ StopAccount(r) \/ Unplug(r) \/ Erase(r)
                 \/ AdminFails(r)
          PROVE  UNCHANGED mishaps \/ \E k \in MishapKinds : Mishap(k)
      BY <2>3 DEF CancelOnboarding, StopAccount, Unplug, Erase, AdminFails, MishapKinds
    <2>4. ASSUME NEW r \in Requests,
                 OnboardingStep(r) \/ PutCredentials(r) \/ UpsertAccount(r)
          PROVE  UNCHANGED mishaps \/ \E k \in MishapKinds : Mishap(k)
      BY <2>4 DEF OnboardingStep, Register, InsertAccount, StartAgain, BeginAuthorization,
         Submit, StoreSession, MarkAuthorized, FinishOnboarding, OnboardingFails,
         PutCredentials, UpsertAccount, MishapKinds
    <2>5. QED
      BY <2>1, <2>2, <2>3, <2>4, NextCases
      DEF ListEnabled, PassEnds, ListFails, Restart, PickAccount, Ask, Crash,
          BackoffEnds, Drop, Revoke, MishapKinds
  <1>3. QED
    BY <1>1, <1>2, MishapCounts

Dialing == {"create", "dial", "connected"}
DialOK(p) ==
  /\ step[p] = "create" => (seen[p] = "missing" <=> adapter[on[p]] = NoSession)
  /\ step[p] \in {"dial", "connected"} => adapter[on[p]] # NoSession

ClientOK(a) ==
  /\ clients[a] >= 0 /\ (adapter[a] # NoSession => clients[a] >= 1)
  /\ clients[a] <= (IF adapter[a] = NoSession THEN 0 ELSE 1) + mishaps["hangup"]

OnlineOK(a) == online[a] => adapter[a] # NoSession

ClientInv ==
  /\ \A a \in Accounts : ClientOK(a) /\ OnlineOK(a)
  /\ \A p \in Processes : DialOK(p)

LEMMA Hangups ==
  ASSUME BaseInv, [LifecycleNext]_vars
  PROVE  /\ mishaps["hangup"] \in Nat /\ mishaps'["hangup"] \in Nat
         /\ mishaps'["hangup"] >= mishaps["hangup"]
  BY MishapsGrow, DataStep DEF BaseInv, DataType, MishapKinds

LEMMA ClientCounts ==
  ASSUME BaseInv, ClientInv, [LifecycleNext]_vars, NEW a \in Accounts,
         \/ adapter'[a] = adapter[a] /\ clients'[a] = clients[a]
         \/ /\ adapter[a] = NoSession /\ adapter'[a] # NoSession
            /\ clients'[a] = clients[a] + 1
         \/ /\ adapter'[a] = NoSession
            /\ clients'[a] = IF adapter[a] = NoSession THEN clients[a] ELSE clients[a] - 1
         \/ /\ adapter'[a] = NoSession /\ clients'[a] = clients[a]
            /\ mishaps'["hangup"] = mishaps["hangup"] + 1
         \/ adapter'[a] = NoSession /\ clients'[a] = 0
  PROVE  ClientOK(a)'
  <1>1. clients[a] \in Int
    BY DEF BaseInv, DataType
  <1>2. ClientOK(a)
    BY DEF ClientInv
  <1>3. QED
    BY <1>1, <1>2, Hangups DEF ClientOK

\* A step that leaves the adapters alone, of a process that does not go on to dial.
LEMMA ClientQuiet ==
  ASSUME BaseInv, ClientInv, [LifecycleNext]_vars, NEW p \in Processes,
         Rest(p), step'[p] \notin Dialing,
         UNCHANGED <<adapter, clients>>,
         \A a \in Accounts : online'[a] => online[a]
  PROVE  ClientInv'
  <1>1. \A a \in Accounts : ClientOK(a)'
    BY ClientCounts
  <1>2. \A a \in Accounts : OnlineOK(a)'
    BY DEF OnlineOK, ClientInv
  <1>3. \A x \in Processes : DialOK(x)'
    BY DEF DialOK, Dialing, ClientInv, Rest
  <1>4. QED
    BY <1>1, <1>2, <1>3 DEF ClientInv

\* A process inside ensure() or disconnectAccount() changes the adapter of its own
\* account, and goes on to step'[p].
LEMMA ClientMoves ==
  ASSUME BaseInv, ClientInv, NEW p \in Processes, Rest(p), InSup(step[p]),
         \A a \in Accounts \ {on[p]} :
           adapter'[a] = adapter[a] /\ (online'[a] => online[a]),
         \A a \in Accounts : ClientOK(a)' /\ (a = on[p] => OnlineOK(a)'),
         DialOK(p)'
  PROVE  ClientInv'
  <1>1. ASSUME NEW x \in Processes \ {p}
        PROVE  DialOK(x)'
    <2>1. CASE step[x] \in Dialing
      <3>1. on[x] # on[p] /\ on[x] \in Accounts
        BY <2>1, OneInside, ProcCases DEF BaseInv, InSup, Ensuring, Dialing, Away
      <3>2. DialOK(x)
        BY DEF ClientInv
      <3>3. QED
        BY <3>1, <3>2 DEF DialOK, Rest
    <2>2. CASE step[x] \notin Dialing
      BY <2>2 DEF DialOK, Rest, Dialing
    <2>3. QED
      BY <2>1, <2>2
  <1>2. ASSUME NEW a \in Accounts
        PROVE  OnlineOK(a)'
    <2>1. CASE a = on[p]
      BY <2>1
    <2>2. CASE a # on[p]
      <3>1. OnlineOK(a)
        BY DEF ClientInv
      <3>2. adapter'[a] = adapter[a] /\ (online'[a] => online[a])
        BY <2>2
      <3>3. QED
        BY <3>1, <3>2 DEF OnlineOK
    <2>3. QED
      BY <2>1, <2>2
  <1>3. DialOK(p)'
    OBVIOUS
  <1>4. QED
    BY <1>1, <1>2, <1>3 DEF ClientInv

LEMMA ClientEnsure ==
  ASSUME BaseInv, ClientInv, [LifecycleNext]_vars, NEW p \in Processes,
         EnsureStep(p) \/ EnsureFails(p)
  PROVE  ClientInv'
  <1>0. ProcInv /\ DataType
    BY DEF BaseInv
  <1>1. ASSUME step[p] \in Ensuring
        PROVE  on[p] \in Accounts /\ InSup(step[p])
    BY <1>0, <1>1, ProcCases DEF InSup, Ensuring, Away
  <1>2. DialOK(p) /\ (on[p] \in Accounts => OnlineOK(on[p]))
    BY DEF ClientInv
  <1>3. ASSUME UNCHANGED <<adapter, online, clients>>, Rest(p), step'[p] \notin Dialing
        PROVE  ClientInv'
    BY <1>3, ClientQuiet
  <1>4. ASSUME Return(p) \/ Throw(p)
        PROVE  Rest(p) /\ step'[p] \notin Dialing
    BY <1>0, <1>4, SettleLeaves DEF Leaves, Away, Dialing
  <1>5. ASSUME NEW s, Catch(p, s)
        PROVE  Rest(p) /\ step'[p] \notin Dialing
    BY <1>0, <1>5, CatchGoes DEF Goes, Dialing
  <1>6. CASE EnsureRead(p)
    <2>1. Rest(p) /\ step'[p] \notin Dialing
      BY <1>0, <1>4, <1>6, GoToGoes DEF EnsureRead, Goes, Dialing
    <2>2. QED
      BY <1>3, <1>6, <2>1 DEF EnsureRead
  <1>7. CASE EnsureDecide(p)
    <2>1. UNCHANGED <<adapter, online, clients>>
      BY <1>7 DEF EnsureDecide
    <2>2. CASE Return(p)
      BY <1>3, <1>4, <2>1, <2>2
    <2>3. CASE Attempts(p)
      <3>1. /\ Rest(p) /\ step'[p] = "create" /\ on'[p] = on[p]
            /\ seen'[p] = IF adapter[on[p]] = NoSession THEN "missing" ELSE "existing"
        BY <1>0, <1>7, <2>3 DEF EnsureDecide, Rest, ProcInv, ProcType
      <3>2. DialOK(p)'
        BY <2>1, <3>1 DEF DialOK
      <3>3. \A a \in Accounts : ClientOK(a)'
        BY <2>1, ClientCounts
      <3>4. step[p] \in Ensuring
        BY <1>7 DEF EnsureDecide, Ensuring
      <3>5. \A a \in Accounts : OnlineOK(a)'
        BY <1>2, <2>1 DEF OnlineOK, ClientInv
      <3>6. QED
        BY <1>1, <2>1, <3>1, <3>2, <3>3, <3>4, <3>5, ClientMoves
    <2>4. QED
      BY <1>7, <2>2, <2>3 DEF EnsureDecide
  <1>8. CASE EnsureCreate(p)
    <2>0. step[p] = "create" /\ step[p] \in Ensuring /\ on[p] \in Accounts
      BY <1>1, <1>8 DEF EnsureCreate, Ensuring
    <2>1. ASSUME NEW s, Catch(p, s), UNCHANGED runtime
          PROVE  ClientInv'
      BY <1>3, <1>5, <2>1 DEF runtime
    <2>2. CASE seen[p] = "existing" /\ GoTo(p, "dial") /\ UNCHANGED runtime
      <3>1. Rest(p) /\ step'[p] = "dial" /\ on'[p] = on[p]
        BY <1>0, <2>2, GoToGoes DEF Goes
      <3>2. UNCHANGED <<adapter, online, clients>>
        BY <2>2 DEF runtime
      <3>3. DialOK(p)'
        BY <1>2, <2>0, <2>2, <3>1, <3>2 DEF DialOK
      <3>4. \A a \in Accounts : ClientOK(a)'
        BY <3>2, ClientCounts
      <3>5. \A a \in Accounts : OnlineOK(a)'
        BY <1>2, <3>2 DEF OnlineOK, ClientInv
      <3>6. QED
        BY <1>1, <2>0, <3>1, <3>2, <3>3, <3>4, <3>5, ClientMoves
    <2>3. CASE /\ seen[p] = "missing" /\ secret[on[p]] \in Sessions
               /\ adapter' = [adapter EXCEPT ![on[p]] = secret[on[p]]]
               /\ online' = [online EXCEPT ![on[p]] = FALSE]
               /\ clients' = [clients EXCEPT ![on[p]] = @ + 1]
               /\ GoTo(p, "dial")
      <3>1. Rest(p) /\ step'[p] = "dial" /\ on'[p] = on[p]
        BY <1>0, <2>3, GoToGoes DEF Goes
      <3>2. NoSession \notin Sessions
        BY DEF NoSession, Sessions
      <3>3. /\ adapter[on[p]] = NoSession /\ adapter'[on[p]] # NoSession
            /\ clients'[on[p]] = clients[on[p]] + 1
        BY <1>0, <1>2, <2>0, <2>3, <3>2 DEF DialOK, DataType
      <3>4. \A a \in Accounts \ {on[p]} :
              adapter'[a] = adapter[a] /\ online'[a] = online[a] /\ clients'[a] = clients[a]
        BY <1>0, <2>0, <2>3 DEF DataType
      <3>5. \A a \in Accounts : ClientOK(a)'
        BY <3>3, <3>4, ClientCounts
      <3>6. DialOK(p)' /\ \A a \in Accounts : a = on[p] => OnlineOK(a)'
        BY <3>1, <3>3 DEF DialOK, OnlineOK
      <3>7. QED
        BY <1>1, <2>0, <3>1, <3>4, <3>5, <3>6, ClientMoves
    <2>4. QED
      BY <1>8, <2>1, <2>2, <2>3 DEF EnsureCreate
  <1>9. CASE EnsureDial(p)
    <2>0. /\ step[p] = "dial" /\ step[p] \in Ensuring /\ on[p] \in Accounts
          /\ adapter[on[p]] # NoSession
      BY <1>1, <1>2, <1>9 DEF EnsureDial, Ensuring, DialOK
    <2>1. UNCHANGED <<adapter, clients>>
      BY <1>9 DEF EnsureDial
    <2>2. /\ Rest(p) /\ step'[p] \in {"connected", "failed"} /\ on'[p] = on[p]
      BY <1>0, <1>9, GoToGoes, CatchGoes DEF EnsureDial, Goes
    <2>3. \A a \in Accounts \ {on[p]} : online'[a] = online[a]
      BY <1>0, <1>9, <2>0 DEF EnsureDial, DataType
    <2>4. \A a \in Accounts : ClientOK(a)'
      BY <2>1, ClientCounts
    <2>5. DialOK(p)' /\ \A a \in Accounts : a = on[p] => OnlineOK(a)'
      BY <2>0, <2>1, <2>2 DEF DialOK, OnlineOK
    <2>6. QED
      BY <1>1, <2>0, <2>1, <2>2, <2>3, <2>4, <2>5, ClientMoves
  <1>10. CASE EnsureConnected(p) \/ EnsureFailed(p)
    BY <1>3, <1>4, <1>10 DEF EnsureConnected, EnsureFailed
  <1>11. CASE EnsureFails(p)
    BY <1>3, <1>4, <1>5, <1>11 DEF EnsureFails, runtime
  <1>12. QED
    BY <1>6, <1>7, <1>8, <1>9, <1>10, <1>11 DEF EnsureStep

LEMMA ClientStopping ==
  ASSUME BaseInv, ClientInv, [LifecycleNext]_vars, NEW r \in Requests,
         CancelOnboarding(r) \/ StopAccount(r) \/ Unplug(r) \/ Erase(r) \/ AdminFails(r)
  PROVE  ClientInv'
  <1>0. ProcInv /\ DataType /\ r \in Processes
    BY DEF BaseInv, Processes
  <1>1. Rest(r) /\ step'[r] \notin Dialing
    BY <1>0, StoppingWalk DEF Leaves, Goes, Away, Dialing
  <1>2. CASE Unplug(r)
    <2>1. step[r] = "unplug" /\ on[r] \in Accounts /\ InSup(step[r])
      BY <1>0, <1>2, ProcCases DEF Unplug, Away, InSup
    <2>2. /\ adapter'[on[r]] = NoSession /\ ~online'[on[r]]
          /\ \A a \in Accounts \ {on[r]} :
               adapter'[a] = adapter[a] /\ online'[a] = online[a] /\ clients'[a] = clients[a]
      BY <1>0, <1>2, <2>1 DEF Unplug, DataType
    <2>3. Mishap("hangup") => mishaps'["hangup"] = mishaps["hangup"] + 1
      BY <1>0, MishapCounts DEF MishapKinds
    <2>4. \/ clients'[on[r]] = IF adapter[on[r]] = NoSession THEN clients[on[r]]
                                                          ELSE clients[on[r]] - 1
          \/ /\ clients'[on[r]] = clients[on[r]]
             /\ mishaps'["hangup"] = mishaps["hangup"] + 1
      BY <1>0, <1>2, <2>1, <2>3 DEF Unplug, DataType
    <2>5. \A a \in Accounts : ClientOK(a)'
      BY <2>1, <2>2, <2>4, ClientCounts
    <2>6. DialOK(r)' /\ \A a \in Accounts : a = on[r] => OnlineOK(a)'
      BY <1>1, <2>2 DEF DialOK, Dialing, OnlineOK
    <2>7. QED
      BY <1>0, <1>1, <2>1, <2>2, <2>5, <2>6, ClientMoves
  <1>3. CASE ~Unplug(r)
    <2>1. UNCHANGED <<adapter, online, clients>>
      BY <1>3 DEF CancelOnboarding, StopAccount, Erase, AdminFails, runtime
    <2>2. QED
      BY <1>0, <1>1, <2>1, ClientQuiet
  <1>4. QED
    BY <1>2, <1>3

LEMMA ClientStep ==
  ASSUME BaseInv, ClientInv, [LifecycleNext]_vars
  PROVE  ClientInv'
  <1>0. ProcInv /\ Supervisor \in Processes /\ Requests \subseteq Processes
    BY DEF BaseInv, Processes
  <1>1. ASSUME NEW p \in Processes, Rest(p), step'[p] \notin Dialing,
               UNCHANGED <<adapter, online, clients>>
        PROVE  ClientInv'
    BY <1>1, ClientQuiet
  <1>2. ASSUME UNCHANGED procs, UNCHANGED <<adapter, clients>>,
               \A a \in Accounts : online'[a] => online[a]
        PROVE  ClientInv'
    <2>1. \A a \in Accounts : ClientOK(a)'
      BY <1>2, ClientCounts
    <2>2. \A a \in Accounts : OnlineOK(a)'
      BY <1>2 DEF OnlineOK, ClientInv
    <2>3. \A x \in Processes : DialOK(x)'
      BY <1>2 DEF DialOK, ClientInv, procs
    <2>4. QED
      BY <2>1, <2>2, <2>3 DEF ClientInv
  <1>3. CASE UNCHANGED vars
    BY <1>2, <1>3 DEF vars, runtime
  <1>4. CASE ListEnabled \/ PassEnds \/ ListFails \/ Restart
    <2>1. Rest(Supervisor) /\ step'[Supervisor] \notin Dialing
      BY <1>0, <1>4, LoopWalk DEF Away, Dialing
    <2>2. QED
      BY <1>0, <1>1, <1>4, <2>1 DEF ListEnabled, PassEnds, ListFails, Restart, runtime
  <1>5. ASSUME NEW a \in Accounts, PickAccount(a)
        PROVE  ClientInv'
    <2>1. Rest(Supervisor) /\ step'[Supervisor] \notin Dialing
      BY <1>0, <1>5, PickWalk DEF Dialing
    <2>2. QED
      BY <1>0, <1>1, <1>5, <2>1 DEF PickAccount, runtime
  <1>6. ASSUME NEW r \in Requests, NEW o \in Operations, NEW a \in Accounts, Ask(r, o, a)
        PROVE  ClientInv'
    <2>1. Rest(r) /\ step'[r] \notin Dialing
      BY <1>0, <1>6, AskWalk DEF Dialing
    <2>2. QED
      BY <1>0, <1>1, <1>6, <2>1 DEF Ask, runtime
  <1>7. ASSUME NEW r \in Requests,
               OnboardingStep(r) \/ PutCredentials(r) \/ UpsertAccount(r)
        PROVE  ClientInv'
    <2>1. Rest(r) /\ step'[r] \notin Dialing
      BY <1>0, <1>7, OnboardingWalk, CreateWalk DEF Leaves, Goes, Away, Dialing
    <2>2. UNCHANGED <<adapter, online, clients>>
      BY <1>7 DEF OnboardingStep, Register, InsertAccount, StartAgain, BeginAuthorization,
         Submit, StoreSession, MarkAuthorized, FinishOnboarding, OnboardingFails,
         PutCredentials, UpsertAccount, runtime
    <2>3. QED
      BY <1>0, <1>1, <2>1, <2>2
  <1>8. CASE Crash
    <2>1. \A a \in Accounts : adapter'[a] = NoSession /\ clients'[a] = 0 /\ ~online'[a]
      BY <1>8 DEF Crash
    <2>2. \A p \in Processes : step'[p] \notin Dialing
      BY <1>8 DEF Crash, Dialing
    <2>3. \A a \in Accounts : ClientOK(a)'
      BY <2>1, ClientCounts
    <2>4. QED
      BY <2>1, <2>2, <2>3 DEF ClientInv, OnlineOK, DialOK, Dialing
  <1>9. ASSUME NEW a \in Accounts, BackoffEnds(a)
        PROVE  ClientInv'
    BY <1>2, <1>9 DEF BackoffEnds
  <1>10. ASSUME NEW a \in Accounts, Drop(a)
         PROVE  ClientInv'
    <2>1. \A b \in Accounts : online'[b] => online[b]
      BY <1>10 DEF Drop, BaseInv, DataType
    <2>2. QED
      BY <1>2, <1>10, <2>1 DEF Drop
  <1>11. ASSUME NEW s \in Sessions, Revoke(s)
         PROVE  ClientInv'
    BY <1>2, <1>11 DEF Revoke, runtime
  <1>12. QED
    BY <1>3, <1>4, <1>5, <1>6, <1>7, <1>8, <1>9, <1>10, <1>11, NextCases, ClientEnsure,
       ClientStopping

LEMMA ClientInit ==
  ASSUME LifecycleInit
  PROVE  ClientInv
  <1>1. mishaps["hangup"] = 0
    BY DEF LifecycleInit, MishapKinds
  <1>2. \A a \in Accounts : clients[a] = 0 /\ adapter[a] = NoSession /\ ~online[a]
    BY DEF LifecycleInit
  <1>3. \A p \in Processes : step[p] \in {"sleeping", "idle"}
    BY DEF LifecycleInit
  <1>4. QED
    BY <1>1, <1>2, <1>3 DEF ClientInv, ClientOK, OnlineOK, DialOK

LEMMA ClientsOfAccount ==
  ASSUME BaseInv, ClientInv
  PROVE  OneClientPerAccount
  <1>1. mishaps["hangup"] \in Nat
    BY DEF BaseInv, DataType, MishapKinds
  <1>2. ASSUME NEW a \in Accounts
        PROVE  clients[a] <= 1 + mishaps["hangup"]
    <2>1. clients[a] \in Int /\ ClientOK(a)
      BY DEF BaseInv, DataType, ClientInv
    <2>2. QED
      BY <1>1, <2>1 DEF ClientOK
  <1>3. QED
    BY <1>2 DEF OneClientPerAccount

\* Two tasks never both create a client for an account, for any number of requests
\* and passes.
THEOREM AccountsHaveOneClient == LifecycleSpec => []OneClientPerAccount
  BY BaseInvariant, ClientInit, ClientStep, ClientsOfAccount, PTL DEF LifecycleSpec

-----------------------------------------------------------------------------
(***************************************************************************)
(* Connected accounts.  After a crash the table still calls accounts         *)
(* connected: the first pass reaches every one of them before HTTP opens.    *)
(***************************************************************************)
Lost(a) == row[a] = "connected" /\ adapter[a] = NoSession
Visited(a) ==
  \/ step[Supervisor] \in {"sleeping", "down"}
  \/ a \in todo
  \/ on[Supervisor] = a /\ step[Supervisor] \in {"awaitSup", "decide"}

ConnectedInv ==
  /\ \A a \in Accounts : Lost(a) => ~serving /\ ~backoff[a] /\ Visited(a)
  /\ ~serving => step[Supervisor] # "stopped" /\ \A r \in Requests : step[r] = "idle"

LEMMA ConnectedServing ==
  ASSUME ConnectedInv, serving, serving', \A a \in Accounts : Lost(a)' => Lost(a)
  PROVE  ConnectedInv'
  BY DEF ConnectedInv

LEMMA LostEnsure ==
  ASSUME BaseInv, ClientInv, NEW p \in Processes, EnsureStep(p) \/ EnsureFails(p),
         NEW a \in Accounts, Lost(a)'
  PROVE  Lost(a)
  <1>0. ProcInv /\ DataType
    BY DEF BaseInv
  <1>1. step[p] = "failed" => seen[p] \in {"error", "reconnect_required"}
    BY <1>0, ProcCases DEF Place
  <1>2. step[p] = "connected" => adapter[on[p]] # NoSession
    BY DEF ClientInv, DialOK
  <1>3. adapter[a] = NoSession
    <2>1. adapter'[a] = NoSession /\ NoSession \notin Sessions
      BY DEF Lost, NoSession, Sessions
    <2>2. QED
      BY <1>0, <2>1 DEF EnsureStep, EnsureRead, EnsureDecide, EnsureCreate, EnsureDial,
         EnsureConnected, EnsureFailed, EnsureFails, runtime, DataType
  <1>4. row[a] = "connected"
    <2>1. row'[a] = "connected" /\ (step[p] = "connected" => a # on[p])
      BY <1>2, <1>3 DEF Lost
    <2>2. ASSUME NEW s, SetState(on[p], s), s # "connected" \/ step[p] = "connected"
          PROVE  row[a] = "connected"
      BY <1>0, <2>1, <2>2, SetStateWhere
    <2>3. QED
      BY <1>1, <2>1, <2>2 DEF EnsureStep, EnsureRead, EnsureDecide, EnsureCreate,
         EnsureDial, EnsureConnected, EnsureFailed, EnsureFails, tables
  <1>5. QED
    BY <1>3, <1>4 DEF Lost

\* The first pass: the supervisor alone is at work.
LEMMA ConnectedFirstPass ==
  ASSUME BaseInv, ClientInv, ConnectedInv, ~serving, EnsureStep(Supervisor)
  PROVE  ConnectedInv'
  <1> DEFINE p == Supervisor
             b == on[Supervisor]
  <1>0. ProcInv /\ DataType /\ p \in Processes
    BY DEF BaseInv, Processes
  <1>1. serving' = serving
    BY DEF EnsureStep, EnsureRead, EnsureDecide, EnsureCreate, EnsureDial,
       EnsureConnected, EnsureFailed
  <1>2. Rest(p) /\ step'[p] # "stopped"
    <2>1. Return(p) => Rest(p) /\ step'[p] # "stopped"
      BY <1>0 DEF Return, Settle, ProcInv, ProcType, Rest
    <2>2. ASSUME NEW s \in Ensuring, Goes(p, s)
          PROVE  Rest(p) /\ step'[p] # "stopped"
      BY <2>2 DEF Goes, Ensuring
    <2>3. ~Return(p) => ~Leaves(p)
      <3>1. ASSUME NEW s \in Ensuring, GoTo(p, s)
            PROVE  ~Leaves(p)
        BY <1>0, <3>1, GoToGoes DEF Goes, Leaves, Ensuring, Away
      <3>2. ASSUME NEW s, Catch(p, s)
            PROVE  ~Leaves(p)
        BY <1>0, <3>2, CatchGoes DEF Goes, Leaves, Away
      <3>3. step' = [step EXCEPT ![p] = "create"] => ~Leaves(p)
        BY <1>0 DEF Leaves, Away, ProcInv, ProcType
      <3>4. QED
        BY <3>1, <3>2, <3>3 DEF EnsureStep, EnsureRead, EnsureDecide, EnsureCreate,
           EnsureDial, EnsureConnected, EnsureFailed, Ensuring
    <2>4. QED
      BY <1>0, <2>1, <2>2, <2>3, EnsureWalk DEF Ensuring
  <1>3. \A r \in Requests : step'[r] = "idle"
    BY <1>2, LifecycleAssumption DEF ConnectedInv, Rest, Processes
  <1>4. ASSUME NEW a \in Accounts, Lost(a)'
        PROVE  ~backoff'[a] /\ Visited(a)'
    <2>1. /\ Lost(a) /\ backoff[a] = FALSE /\ Visited(a)
          /\ row[a] = "connected" /\ adapter[a] = NoSession /\ row'[a] = "connected"
      BY <1>0, <1>4, LostEnsure DEF ConnectedInv, Lost, DataType
    <2>2. todo' = todo
      BY DEF EnsureStep, EnsureRead, EnsureDecide, EnsureCreate, EnsureDial,
         EnsureConnected, EnsureFailed
    <2>3. step[p] \notin {"sleeping", "down"}
      BY DEF EnsureStep, EnsureRead, EnsureDecide, EnsureCreate, EnsureDial,
         EnsureConnected, EnsureFailed
    <2>4. EnsureFailed(p) => a # b
      <3>1. ASSUME EnsureFailed(p), a = b
            PROVE  FALSE
        <4>1. seen[p] \in {"error", "reconnect_required"} /\ SetState(b, seen[p])
          BY <1>0, <3>1, ProcCases DEF EnsureFailed, Place
        <4>2. row'[a] = seen[p]
          BY <1>0, <2>1, <3>1, <4>1 DEF SetState, DataType
        <4>3. QED
          BY <2>1, <4>1, <4>2
      <3>2. QED
        BY <3>1
    <2>5. ~backoff'[a]
      <3>1. CASE EnsureFailed(p)
        BY <1>0, <2>1, <2>4, <3>1 DEF EnsureFailed, DataType
      <3>2. CASE ~EnsureFailed(p)
        BY <1>0, <2>1, <3>2 DEF EnsureStep, EnsureRead, EnsureDecide, EnsureCreate,
           EnsureDial, EnsureConnected, runtime, DataType
      <3>3. QED
        BY <3>1, <3>2
    <2>6. a \in todo \/ (b = a /\ step[p] \in {"awaitSup", "decide"})
      BY <2>1, <2>3 DEF Visited
    <2>7. CASE EnsureRead(p) /\ b = a
      <3>1. step'[p] = "decide" /\ on'[p] = on[p]
        <4>1. GoTo(p, "decide")
          BY <2>1, <2>7 DEF EnsureRead, Resting
        <4>2. QED
          BY <1>0, <4>1, GoToGoes DEF Goes
      <3>2. QED
        BY <2>5, <2>7, <3>1 DEF Visited
    <2>8. CASE EnsureDecide(p) /\ b = a
      <3>1. ~online[a]
        BY <2>1 DEF ClientInv, OnlineOK
      <3>2. Attempts(p)
        BY <2>1, <2>8, <3>1 DEF Attempts
      <3>3. SetState(b, "connecting")
        BY <2>8, <3>2 DEF EnsureDecide
      <3>4. row'[a] = "connecting"
        BY <1>0, <2>1, <2>8, <3>3 DEF SetState, DataType
      <3>5. QED
        BY <2>1, <3>4
    <2>9. QED
      BY <2>2, <2>5, <2>6, <2>7, <2>8 DEF Visited, EnsureStep, EnsureCreate, EnsureDial,
         EnsureConnected, EnsureFailed
  <1>5. QED
    BY <1>1, <1>2, <1>3, <1>4 DEF ConnectedInv

LEMMA ConnectedStep ==
  ASSUME BaseInv, StopInv, ClientInv, ConnectedInv, [LifecycleNext]_vars
  PROVE  ConnectedInv'
  <1>0. ProcInv /\ DataType /\ Supervisor \in Processes /\ Requests \subseteq Processes
    BY DEF BaseInv, Processes
  <1>1. ASSUME NEW r \in Requests, step[r] # "idle"
        PROVE  serving
    BY <1>1 DEF ConnectedInv
  <1>2. CASE UNCHANGED vars
    BY <1>2 DEF vars, tables, runtime, procs, ConnectedInv, Lost, Visited
  <1>3. ASSUME NEW p \in Processes, EnsureStep(p) \/ EnsureFails(p)
        PROVE  ConnectedInv'
    <2>1. serving' = serving
      BY <1>3 DEF EnsureStep, EnsureRead, EnsureDecide, EnsureCreate, EnsureDial,
         EnsureConnected, EnsureFailed, EnsureFails
    <2>2. CASE serving
      BY <1>3, <2>1, <2>2, LostEnsure, ConnectedServing
    <2>3. CASE ~serving
      <3>1. step[p] # "idle"
        BY <1>3 DEF EnsureStep, EnsureRead, EnsureDecide, EnsureCreate, EnsureDial,
           EnsureConnected, EnsureFailed, EnsureFails
      <3>2. p = Supervisor /\ ~EnsureFails(p)
        BY <1>1, <2>3, <3>1 DEF Processes, EnsureFails
      <3>3. QED
        BY <1>3, <2>3, <3>2, ConnectedFirstPass
    <2>4. QED
      BY <2>2, <2>3
  <1>4. ASSUME NEW r \in Requests,
               \/ CancelOnboarding(r) \/ StopAccount(r) \/ Unplug(r) \/ Erase(r)
               \/ AdminFails(r)
        PROVE  ConnectedInv'
    <2>1. serving /\ serving'
      <3>1. step[r] # "idle"
        BY <1>4 DEF CancelOnboarding, Onboarding, StopAccount, Stopping, Unplug, Erase,
           AdminFails
      <3>2. serving' = serving
        BY <1>4 DEF CancelOnboarding, StopAccount, Unplug, Erase, AdminFails
      <3>3. QED
        BY <1>1, <3>1, <3>2
    <2>2. ASSUME NEW a \in Accounts, Lost(a)'
          PROVE  Lost(a)
      <3>1. row[a] = "connected"
        BY <1>4, <2>2, StoppingRows DEF Lost, Calm
      <3>2. CASE Unplug(r)
        <4>1. a # on[r]
          BY <1>0, <3>1, <3>2 DEF Unplug, StopInv, Calm
        <4>2. adapter'[a] = adapter[a]
          BY <1>0, <3>2, <4>1 DEF Unplug, DataType
        <4>3. QED
          BY <2>2, <3>1, <4>2 DEF Lost
      <3>3. CASE ~Unplug(r)
        <4>1. adapter' = adapter
          BY <1>4, <3>3 DEF CancelOnboarding, StopAccount, Erase, AdminFails, runtime
        <4>2. QED
          BY <2>2, <3>1, <4>1 DEF Lost
      <3>4. QED
        BY <3>2, <3>3
    <2>3. QED
      BY <2>1, <2>2, ConnectedServing
  <1>5. ASSUME NEW r \in Requests,
               OnboardingStep(r) \/ PutCredentials(r) \/ UpsertAccount(r)
        PROVE  ConnectedInv'
    <2>1. serving /\ serving'
      <3>1. step[r] # "idle"
        BY <1>5 DEF OnboardingStep, Register, InsertAccount, StartAgain,
           BeginAuthorization, Submit, Submits, Onboarding, StoreSession, MarkAuthorized,
           FinishOnboarding, OnboardingFails, PutCredentials, UpsertAccount
      <3>2. serving' = serving
        BY <1>5 DEF OnboardingStep, Register, InsertAccount, StartAgain,
           BeginAuthorization, Submit, StoreSession, MarkAuthorized, FinishOnboarding,
           OnboardingFails, PutCredentials, UpsertAccount
      <3>3. QED
        BY <1>1, <3>1, <3>2
    <2>2. adapter' = adapter
      BY <1>5 DEF OnboardingStep, Register, InsertAccount, StartAgain,
         BeginAuthorization, Submit, StoreSession, MarkAuthorized, FinishOnboarding,
         OnboardingFails, PutCredentials, UpsertAccount, runtime
    <2>3. \A a \in Accounts : Lost(a)' => Lost(a)
      BY <1>5, <2>2, OnboardingRows DEF Lost, Calm
    <2>4. QED
      BY <2>1, <2>3, ConnectedServing
  <1>6. CASE ListEnabled
    <2>1. /\ UNCHANGED <<row, adapter, backoff, serving>>
          /\ todo' = {a \in Accounts : row[a] \in {"connected", "error"}}
          /\ step'[Supervisor] = "next" /\ Rest(Supervisor)
      BY <1>0, <1>6, GoToGoes DEF ListEnabled, tables, runtime, Goes
    <2>2. \A r \in Requests : step'[r] = step[r]
      BY <2>1, LifecycleAssumption DEF Rest, Processes
    <2>3. QED
      BY <2>1, <2>2 DEF ConnectedInv, Lost, Visited
  <1>7. CASE PassEnds
    <2>1. /\ UNCHANGED <<row, adapter>> /\ serving' /\ todo = {}
          /\ step[Supervisor] = "next"
      BY <1>7 DEF PassEnds, tables, runtime
    <2>2. \A a \in Accounts : ~Lost(a)
      BY <2>1 DEF ConnectedInv, Visited
    <2>3. QED
      BY <2>1, <2>2 DEF ConnectedInv, Lost
  <1>8. CASE ListFails
    BY <1>8, ConnectedServing DEF ListFails, tables, runtime, Lost
  <1>9. CASE Restart
    <2>1. /\ UNCHANGED <<row, adapter, backoff, serving, todo>>
          /\ step'[Supervisor] = "sleeping" /\ Rest(Supervisor)
      BY <1>0, <1>9, GoToGoes DEF Restart, tables, runtime, Goes
    <2>2. \A r \in Requests : step'[r] = step[r]
      BY <2>1, LifecycleAssumption DEF Rest, Processes
    <2>3. QED
      BY <2>1, <2>2 DEF ConnectedInv, Lost, Visited
  <1>10. ASSUME NEW a \in Accounts, PickAccount(a)
         PROVE  ConnectedInv'
    <2>1. /\ UNCHANGED <<row, adapter, backoff, serving>> /\ todo' = todo \ {a}
          /\ step[Supervisor] = "next" /\ step'[Supervisor] = "awaitSup"
          /\ on'[Supervisor] = a /\ Rest(Supervisor)
      BY <1>0, <1>10, PickWalk DEF PickAccount, tables, runtime
    <2>2. \A r \in Requests : step'[r] = step[r]
      BY <2>1, LifecycleAssumption DEF Rest, Processes
    <2>3. QED
      BY <2>1, <2>2 DEF ConnectedInv, Lost, Visited
  <1>11. ASSUME NEW r \in Requests, NEW o \in Operations, NEW a \in Accounts, Ask(r, o, a)
         PROVE  ConnectedInv'
    BY <1>11, ConnectedServing DEF Ask, tables, runtime, Lost
  <1>12. CASE Crash
    <2>1. /\ ~serving' /\ step'[Supervisor] = "down"
          /\ \A a \in Accounts : ~backoff'[a]
      BY <1>0, <1>12 DEF Crash
    <2>2. \A r \in Requests : step'[r] = "idle"
      BY <1>12, LifecycleAssumption DEF Crash, Processes
    <2>3. QED
      BY <2>1, <2>2 DEF ConnectedInv, Visited
  <1>13. ASSUME NEW a \in Accounts, BackoffEnds(a)
         PROVE  ConnectedInv'
    <2>1. \A b \in Accounts : backoff'[b] => backoff[b]
      BY <1>0, <1>13 DEF BackoffEnds, DataType
    <2>2. UNCHANGED <<row, adapter, serving, todo, step, on>>
      BY <1>13 DEF BackoffEnds, tables, procs
    <2>3. QED
      BY <2>1, <2>2 DEF ConnectedInv, Lost, Visited
  <1>14. ASSUME NEW a \in Accounts, Drop(a)
         PROVE  ConnectedInv'
    BY <1>14 DEF Drop, tables, procs, ConnectedInv, Lost, Visited
  <1>15. ASSUME NEW s \in Sessions, Revoke(s)
         PROVE  ConnectedInv'
    BY <1>15 DEF Revoke, tables, runtime, procs, ConnectedInv, Lost, Visited
  <1>16. QED
    BY <1>2, <1>3, <1>4, <1>5, <1>6, <1>7, <1>8, <1>9, <1>10, <1>11, <1>12, <1>13, <1>14,
       <1>15, NextCases

\* The initial predicate and a step of all the invariants so far.
SafetyInv == BaseInv /\ StopInv /\ ClientInv /\ ConnectedInv

LEMMA SafetyInit ==
  ASSUME LifecycleInit
  PROVE  SafetyInv
  <1>1. StopInv
    BY DEF LifecycleInit, StopInv, StoppedStaysStopped, Ensuring
  <1>2. ConnectedInv
    BY LifecycleAssumption DEF LifecycleInit, ConnectedInv, Lost, Processes
  <1>3. QED
    BY <1>1, <1>2, BaseInit, ClientInit DEF SafetyInv

LEMMA SafetyStep ==
  ASSUME SafetyInv, [LifecycleNext]_vars
  PROVE  SafetyInv'
  BY BaseStep, StopStep, ClientStep, ConnectedStep DEF SafetyInv

\* While the server answers requests, every account that the table calls connected
\* has an adapter: the first pass after a start misses none.
THEOREM ConnectedAccountsHaveAdapters == LifecycleSpec => []ConnectedHasAdapter
  <1>1. SafetyInv => ConnectedHasAdapter
    BY DEF SafetyInv, ConnectedInv, ConnectedHasAdapter, Lost
  <1>2. QED
    BY <1>1, SafetyInit, SafetyStep, PTL DEF LifecycleSpec

-----------------------------------------------------------------------------
(***************************************************************************)
(* Deleted accounts.  The onboarding service's executor keeps an operation   *)
(* that could write the row or the secret apart from a deletion; a task that *)
(* registers a new account is the first to be queued under its id.           *)
(***************************************************************************)
AccountOK(a) ==
  /\ a \in erased => /\ secret[a] = NoSession /\ row[a] = "absent"
                     /\ pending[a] = "none" /\ a \in known
  /\ pending[a] # "none" => row[a] # "absent"
  /\ a \notin known => onbQueue[a] = <<>>

RequestOK(r) ==
  /\ step[r] # "idle" => on[r] \in known
  /\ step[r] \in {"insert", "begin", "store", "mark", "finish"} => on[r] \notin erased
  /\ (step[r] = "awaitOnb" /\ op[r] = "register") =>
       First(onbQueue, on[r], r) /\ on[r] \notin erased
  /\ (op[r] = "delete" /\ step[r] \in {"awaitSup", "unplug", "erase"}) =>
       pending[on[r]] = "none"

DeletedInv ==
  /\ \A a \in Accounts : AccountOK(a)
  /\ \A r \in Requests : RequestOK(r)

LEMMA DeletedMoves ==
  ASSUME BaseInv, DeletedInv, NEW p \in Processes, Rest(p), NEW oq, onbQueue' = oq,
         Changed(onbQueue, oq, p, Requests),
         known \subseteq known',
         \/ erased' \subseteq erased
         \/ erased' \subseteq erased \cup {on[p]} /\ First(onbQueue, on[p], p),
         \A a \in Accounts : \/ pending'[a] \in {pending[a], "none"}
                             \/ a = on[p] /\ First(onbQueue, on[p], p),
         \A a \in Accounts : AccountOK(a)',
         p \in Requests => RequestOK(p)'
  PROVE  DeletedInv'
  <1>0. ProcInv /\ DataType /\ Requests \subseteq Processes
    BY DEF BaseInv, Processes
  <1>1. ASSUME NEW x \in Requests \ {p}
        PROVE  RequestOK(x)'
    <2>1. step'[x] = step[x] /\ op'[x] = op[x] /\ on'[x] = on[x]
      BY <1>0 DEF Rest
    <2>2. RequestOK(x)
      BY DEF DeletedInv
    <2>3. InOnb(step[x], op[x]) => First(onbQueue, on[x], x)
      BY <1>0, ProcCases
    <2>4. ASSUME First(onbQueue, on[x], x)
          PROVE  /\ First(oq, on[x], x) /\ on[x] \in Accounts
                 /\ on[x] \in erased' => on[x] \in erased
                 /\ pending'[on[x]] \in {pending[on[x]], "none"}
      <3>1. onbQueue \in [Accounts -> Seq(Requests)]
        BY <1>0 DEF ProcInv, ProcType
      <3>2. First(oq, on[x], x)
        BY <2>4, <3>1, ChangedKeepsFirst
      <3>3. on[x] = on[p] => ~First(onbQueue, on[p], p)
        BY <2>4 DEF First
      <3>4. QED
        BY <2>4, <3>2, <3>3 DEF First
    <2>5. step[x] # "idle" => on[x] \in known'
      BY <2>2 DEF RequestOK
    <2>6. step[x] \in {"insert", "begin", "store", "mark", "finish"} => on[x] \notin erased'
      BY <2>2, <2>3, <2>4 DEF RequestOK, InOnb
    <2>7. (step[x] = "awaitOnb" /\ op[x] = "register") =>
            First(oq, on[x], x) /\ on[x] \notin erased'
      BY <2>2, <2>4 DEF RequestOK
    <2>8. (op[x] = "delete" /\ step[x] \in {"awaitSup", "unplug", "erase"}) =>
            pending'[on[x]] = "none"
      BY <2>2, <2>3, <2>4 DEF RequestOK, InOnb
    <2>9. QED
      BY <2>1, <2>5, <2>6, <2>7, <2>8 DEF RequestOK
  <1>2. QED
    BY <1>1 DEF DeletedInv

LEMMA LeaveKeepsEmpty ==
  ASSUME ProcInv, NEW p, NEW a \in Accounts, onbQueue[a] = <<>>
  PROVE  Leave(onbQueue, p)[a] = <<>>
  BY DEF Leave, Turn, ProcInv, ProcType

\* The queues of the onboarding service in a step of a task.
OnbWalk(p) == onbQueue' = onbQueue \/ onbQueue' = Leave(onbQueue, p)

LEMMA OnbWalks ==
  ASSUME NEW p
  PROVE  /\ Return(p) \/ Throw(p) => OnbWalk(p)
         /\ \A s : GoTo(p, s) \/ Catch(p, s) => OnbWalk(p)
  BY DEF Return, Throw, Settle, GoTo, Catch, OnbWalk, locks

\* A task that is not a deletion: the accounts of other tasks stay as they were.
LEMMA DeletedTask ==
  ASSUME BaseInv, DeletedInv, NEW p \in Processes, Rest(p), OnbWalk(p),
         known' = known,
         \/ erased' \subseteq erased
         \/ erased' \subseteq erased \cup {on[p]} /\ First(onbQueue, on[p], p),
         \A a \in Accounts : \/ pending'[a] \in {pending[a], "none"}
                             \/ a = on[p] /\ First(onbQueue, on[p], p),
         \A a \in Accounts :
           a \in erased' => /\ secret'[a] = NoSession /\ row'[a] = "absent"
                            /\ pending'[a] = "none" /\ a \in known,
         \A a \in Accounts : pending'[a] # "none" => row'[a] # "absent",
         p \in Requests => RequestOK(p)'
  PROVE  DeletedInv'
  <1>1. Changed(onbQueue, onbQueue', p, Requests)
    BY DEF OnbWalk, Changed
  <1>2. ASSUME NEW a \in Accounts
        PROVE  AccountOK(a)'
    <2>1. a \notin known => onbQueue'[a] = <<>>
      BY LeaveKeepsEmpty DEF OnbWalk, DeletedInv, AccountOK, BaseInv
    <2>2. QED
      BY <2>1 DEF AccountOK
  <1>3. QED
    BY <1>1, <1>2, DeletedMoves

\* A step that deletes nothing, authorizes nothing and leaves rows in place.
LEMMA DeletedQuiet ==
  ASSUME BaseInv, DeletedInv, NEW p \in Processes, Rest(p), OnbWalk(p),
         UNCHANGED <<known, erased, secret>>,
         \A a \in Accounts : pending'[a] \in {pending[a], "none"},
         \A a \in Accounts : row'[a] = "absent" <=> row[a] = "absent",
         p \in Requests => RequestOK(p)'
  PROVE  DeletedInv'
  <1>1. \A a \in Accounts :
          a \in erased' => /\ secret'[a] = NoSession /\ row'[a] = "absent"
                           /\ pending'[a] = "none" /\ a \in known
    BY DEF DeletedInv, AccountOK
  <1>2. \A a \in Accounts : pending'[a] # "none" => row'[a] # "absent"
    BY DEF DeletedInv, AccountOK
  <1>3. QED
    BY <1>1, <1>2, DeletedTask

LEMMA SetStateKeepsRow ==
  ASSUME DataType, NEW a, NEW s, s # "absent", SetState(a, s)
  PROVE  \A b \in Accounts : row'[b] = "absent" <=> row[b] = "absent"
  BY SetStateWhere

\* A request that has left is idle.
LEMMA LeftOK ==
  ASSUME BaseInv, [LifecycleNext]_vars, NEW r \in Requests, Leaves(r)
  PROVE  RequestOK(r)' /\ step'[r] = "idle"
  <1>1. ProcInv' /\ r \in Processes /\ r # Supervisor
    BY BaseStep, LifecycleAssumption DEF BaseInv, Processes
  <1>2. step'[r] = "idle"
    BY <1>1 DEF ProcInv, ProcOK, Place, Leaves, Away
  <1>3. QED
    BY <1>2 DEF RequestOK

LEMMA DeletedEnsure ==
  ASSUME BaseInv, DeletedInv, [LifecycleNext]_vars, NEW p \in Processes,
         EnsureStep(p) \/ EnsureFails(p)
  PROVE  DeletedInv'
  <1>0. ProcInv /\ DataType
    BY DEF BaseInv
  <1>1. \A a \in Accounts : row'[a] = "absent" <=> row[a] = "absent"
    <2>1. ASSUME NEW s, s # "absent", SetState(on[p], s)
          PROVE  \A a \in Accounts : row'[a] = "absent" <=> row[a] = "absent"
      BY <1>0, <2>1, SetStateKeepsRow
    <2>2. step[p] = "failed" => seen[p] # "absent"
      BY <1>0, ProcCases DEF Place
    <2>3. QED
      BY <2>1, <2>2 DEF EnsureStep, EnsureRead, EnsureDecide, EnsureCreate, EnsureDial,
         EnsureConnected, EnsureFailed, EnsureFails, tables
  <1>2. UNCHANGED <<known, erased, secret, pending>>
    BY DEF EnsureStep, EnsureRead, EnsureDecide, EnsureCreate, EnsureDial,
       EnsureConnected, EnsureFailed, EnsureFails, tables, history
  <1>3. OnbWalk(p)
    <2>1. EnsureDecide(p) => OnbWalk(p)
      BY OnbWalks DEF EnsureDecide, OnbWalk, locks
    <2>2. QED
      BY <2>1, OnbWalks DEF EnsureStep, EnsureRead, EnsureCreate, EnsureDial,
         EnsureConnected, EnsureFailed, EnsureFails
  <1>4. Rest(p)
    BY <1>0, EnsureWalk DEF Leaves, Goes
  <1>5. ASSUME p \in Requests
        PROVE  RequestOK(p)'
    <2>1. CASE Leaves(p)
      BY <1>5, <2>1, LeftOK
    <2>2. ASSUME NEW s \in Ensuring, Goes(p, s)
          PROVE  RequestOK(p)'
      <3>1. step[p] # "idle"
        BY DEF EnsureStep, EnsureRead, EnsureDecide, EnsureCreate, EnsureDial,
           EnsureConnected, EnsureFailed, EnsureFails
      <3>2. on[p] \in known
        BY <1>5, <3>1 DEF DeletedInv, RequestOK
      <3>3. step'[p] \in Ensuring /\ on'[p] = on[p]
        BY <2>2 DEF Goes
      <3>4. QED
        BY <1>2, <3>2, <3>3 DEF RequestOK, Ensuring
    <2>3. QED
      BY <1>0, <2>1, <2>2, EnsureWalk DEF Ensuring
  <1>6. QED
    BY <1>1, <1>2, <1>3, <1>4, <1>5, DeletedQuiet

LEMMA DeletedStopping ==
  ASSUME BaseInv, DeletedInv, [LifecycleNext]_vars, NEW r \in Requests,
         CancelOnboarding(r) \/ StopAccount(r) \/ Unplug(r) \/ Erase(r) \/ AdminFails(r)
  PROVE  DeletedInv'
  <1>0. ProcInv /\ DataType /\ r \in Processes
    BY DEF BaseInv, Processes
  <1>1. known' = known
    BY DEF CancelOnboarding, StopAccount, Unplug, Erase, AdminFails
  <1>2. Rest(r)
    BY <1>0, StoppingWalk DEF Leaves, Goes
  <1>3. OnbWalk(r)
    BY OnbWalks DEF CancelOnboarding, StopAccount, Unplug, LeaveSupervisor, Erase,
       AdminFails, OnbWalk
  <1>4. \A a \in Accounts : pending'[a] \in {pending[a], "none"}
    BY <1>0 DEF CancelOnboarding, StopAccount, Unplug, Erase, AdminFails, DataType
  <1>5. RequestOK(r)'
    <2>1. step[r] # "idle"
      BY DEF CancelOnboarding, Onboarding, StopAccount, Stopping, Unplug, Erase, AdminFails
    <2>2. on[r] \in known /\ on[r] \in Accounts
      BY <1>0, <2>1 DEF DeletedInv, RequestOK, DataType
    <2>3. CASE /\ Goes(r, "awaitSup")
               /\ pending' = [pending EXCEPT ![on[r]] = "none"]
      <3>1. pending'[on[r]] = "none"
        BY <1>0, <2>2, <2>3 DEF DataType
      <3>2. QED
        BY <1>1, <2>2, <2>3, <3>1 DEF RequestOK, Goes
    <2>4. ASSUME NEW s \in {"unplug", "erase"}, Goes(r, s), StopAccount(r) \/ Unplug(r)
          PROVE  RequestOK(r)'
      <3>1. op[r] = "delete" => pending[on[r]] = "none"
        BY <2>4 DEF DeletedInv, RequestOK, StopAccount, Stopping, Unplug
      <3>2. pending' = pending
        BY <2>4 DEF StopAccount, Unplug
      <3>3. step'[r] = s /\ on'[r] = on[r] /\ op'[r] = op[r]
        BY <2>4 DEF Goes
      <3>4. QED
        BY <1>1, <2>2, <2>4, <3>1, <3>2, <3>3 DEF RequestOK
    <2>5. QED
      BY <1>0, <2>3, <2>4, StoppingWalk, LeftOK
  <1>6. ASSUME UNCHANGED <<erased, secret>>, row' = row \/ SetState(on[r], "disconnected")
        PROVE  DeletedInv'
    <2>1. \A a \in Accounts : row'[a] = "absent" <=> row[a] = "absent"
      BY <1>0, <1>6, SetStateKeepsRow
    <2>2. QED
      BY <1>0, <1>1, <1>2, <1>3, <1>4, <1>5, <1>6, <2>1, DeletedQuiet
  <1>7. ASSUME step[r] = "erase", DeleteAccount(on[r]), pending' = pending
        PROVE  DeletedInv'
    <2>1. /\ op[r] = "delete" /\ First(onbQueue, on[r], r) /\ on[r] \in Accounts
          /\ on[r] \in known /\ pending[on[r]] = "none"
      <3>1. op[r] = "delete"
        BY <1>0, <1>7, ProcCases, LifecycleAssumption DEF Place
      <3>2. First(onbQueue, on[r], r)
        BY <1>0, <1>7, ProcCases DEF InOnb
      <3>3. QED
        BY <1>7, <3>1, <3>2 DEF DeletedInv, RequestOK, First
    <2>2. /\ erased' = erased \cup {on[r]}
          /\ secret'[on[r]] = NoSession /\ row'[on[r]] = "absent"
          /\ \A a \in Accounts \ {on[r]} : secret'[a] = secret[a] /\ row'[a] = row[a]
      BY <1>0, <1>7, <2>1 DEF DeleteAccount, DataType
    <2>3. \A a \in Accounts :
            a \in erased' => /\ secret'[a] = NoSession /\ row'[a] = "absent"
                             /\ pending'[a] = "none" /\ a \in known
      BY <1>7, <2>1, <2>2 DEF DeletedInv, AccountOK
    <2>4. \A a \in Accounts : pending'[a] # "none" => row'[a] # "absent"
      BY <1>7, <2>1, <2>2 DEF DeletedInv, AccountOK
    <2>5. QED
      BY <1>0, <1>1, <1>2, <1>3, <1>4, <1>5, <2>1, <2>2, <2>3, <2>4, DeletedTask
  <1>8. QED
    BY <1>6, <1>7 DEF CancelOnboarding, StopAccount, Unplug, Erase, AdminFails, tables,
       history

LEMMA DeletedOnboarding ==
  ASSUME BaseInv, DeletedInv, [LifecycleNext]_vars, NEW r \in Requests, OnboardingStep(r)
  PROVE  DeletedInv'
  <1> DEFINE a == on[r]
  <1> USE DEF OnboardingStep, Register, InsertAccount, StartAgain, BeginAuthorization,
        Submit, StoreSession, MarkAuthorized, FinishOnboarding, OnboardingFails
  <1>0. ProcInv /\ DataType /\ r \in Processes
    BY DEF BaseInv, Processes
  <1>1. known' = known /\ erased' = erased
    BY DEF history
  <1>2. Rest(r)
    BY <1>0, OnboardingWalk DEF Leaves, Goes
  <1>3. OnbWalk(r)
    BY OnbWalks DEF FailOnboarding
  <1>4. First(onbQueue, a, r) /\ a \in Accounts
    BY <1>0, ProcCases DEF Onboarding, Submits, InOnb, First
  <1>5. /\ step[r] \in {"insert", "begin", "store", "mark", "finish"} => a \notin erased
        /\ Onboarding(r, "register") => a \notin erased
        /\ row[a] # "absent" => a \notin erased
        /\ pending[a] # "none" => row[a] # "absent" /\ a \notin erased
        /\ a \in known
    <2>1. step[r] # "idle"
      BY DEF Onboarding, Submits
    <2>2. QED
      BY <1>4, <2>1 DEF DeletedInv, RequestOK, AccountOK, Onboarding
  <1>6. \A b \in Accounts : secret'[b] = secret[b] \/ (b = a /\ a \notin erased)
    BY <1>0, <1>5 DEF NewSession, DataType, tables
  <1>7. \A b \in Accounts :
          \/ row'[b] = "absent" <=> row[b] = "absent"
          \/ b = a /\ a \notin erased /\ row'[b] # "absent"
    <2>1. ASSUME NEW s \in {"disconnected", "connecting", "reconnect_required"},
                 SetState(a, s)
          PROVE  \A b \in Accounts : row'[b] = "absent" <=> row[b] = "absent"
      BY <1>0, <2>1, SetStateKeepsRow
    <2>2. ASSUME step[r] = "insert", row' = [row EXCEPT ![a] = "connecting"]
          PROVE  \A b \in Accounts :
                   \/ row'[b] = "absent" <=> row[b] = "absent"
                   \/ b = a /\ a \notin erased /\ row'[b] # "absent"
      BY <1>0, <1>5, <2>2 DEF DataType
    <2>3. QED
      BY <2>1, <2>2 DEF FailOnboarding
  <1>8. \A b \in Accounts :
          \/ pending'[b] \in {pending[b], "none"}
          \/ b = a /\ row[a] # "absent" /\ row'[a] # "absent"
    BY <1>0, <1>5 DEF FailOnboarding, DataType, Submits
  <1>9. \A b \in Accounts :
          b \in erased' => /\ secret'[b] = NoSession /\ row'[b] = "absent"
                           /\ pending'[b] = "none" /\ b \in known
    BY <1>1, <1>5, <1>6, <1>7, <1>8 DEF DeletedInv, AccountOK
  <1>10. \A b \in Accounts : pending'[b] # "none" => row'[b] # "absent"
    BY <1>7, <1>8 DEF DeletedInv, AccountOK
  <1>11. RequestOK(r)'
    <2>1. ASSUME NEW s \in {"insert", "begin", "store", "mark", "finish"}, Goes(r, s),
                 a \notin erased
          PROVE  RequestOK(r)'
      BY <1>1, <1>5, <2>1 DEF RequestOK, Goes
    <2>2. Register(r) => a \notin erased
      BY <1>5
    <2>3. InsertAccount(r) \/ StoreSession(r) \/ MarkAuthorized(r) => a \notin erased
      BY <1>5
    <2>4. StartAgain(r) /\ Goes(r, "begin") => a \notin erased
      <3>1. Goes(r, "begin") => ~Throw(r)
        BY <1>0, SettleLeaves DEF Goes, Leaves, Away
      <3>2. QED
        BY <1>5, <3>1
    <2>5. Submit(r) /\ Goes(r, "store") => a \notin erased
      <3>1. Goes(r, "store") => ~Throw(r) /\ ~Return(r)
        BY <1>0, SettleLeaves DEF Goes, Leaves, Away
      <3>2. QED
        BY <1>5, <3>1 DEF Submits, FailOnboarding
    <2>6. QED
      BY <1>0, <2>1, <2>2, <2>3, <2>4, <2>5, OnboardingWalk, LeftOK
  <1>12. \A b \in Accounts : \/ pending'[b] \in {pending[b], "none"}
                             \/ b = on[r] /\ First(onbQueue, on[r], r)
    BY <1>4, <1>8
  <1>13. QED
    BY <1>0, <1>1, <1>2, <1>3, <1>9, <1>10, <1>11, <1>12, DeletedTask

LEMMA DeletedCreate ==
  ASSUME BaseInv, DeletedInv, [LifecycleNext]_vars, NEW r \in Requests,
         PutCredentials(r) \/ UpsertAccount(r)
  PROVE  DeletedInv'
  <1> DEFINE a == on[r]
  <1> USE DEF PutCredentials, UpsertAccount
  <1>0. ProcInv /\ DataType /\ r \in Processes
    BY DEF BaseInv, Processes
  <1>1. /\ known' = known /\ erased' \subseteq erased /\ pending' = pending
        /\ \A b \in Accounts : row'[b] # "absent" \/ row'[b] = row[b]
    BY <1>0 DEF history, DataType
  <1>2. Rest(r)
    BY <1>0, CreateWalk DEF Leaves, Goes
  <1>3. OnbWalk(r)
    BY OnbWalks
  <1>4. \A b \in Accounts :
          b \in erased' => secret'[b] = secret[b] /\ row'[b] = row[b]
    <2>1. CASE PutCredentials(r)
      <3>1. /\ erased' = erased \ {a} /\ row' = row
            /\ \A b \in Accounts : b # a => secret'[b] = secret[b]
        BY <1>0, <2>1 DEF NewSession, DataType
      <3>2. QED
        BY <3>1
    <2>2. CASE UpsertAccount(r)
      <3>1. secret' = secret /\ erased' = erased
        BY <2>2 DEF history
      <3>2. \A b \in Accounts : row'[b] = row[b] \/ (b = a /\ secret[a] # NoSession)
        BY <1>0, <2>2 DEF DataType
      <3>3. QED
        BY <3>1, <3>2 DEF DeletedInv, AccountOK
    <2>3. QED
      BY <2>1, <2>2
  <1>5. \A b \in Accounts :
          b \in erased' => /\ secret'[b] = NoSession /\ row'[b] = "absent"
                           /\ pending'[b] = "none" /\ b \in known
    BY <1>1, <1>4 DEF DeletedInv, AccountOK
  <1>6. \A b \in Accounts : pending'[b] # "none" => row'[b] # "absent"
    BY <1>1 DEF DeletedInv, AccountOK
  <1>7. RequestOK(r)'
    <2>1. CASE Goes(r, "upsert")
      BY <1>1, <2>1 DEF DeletedInv, RequestOK, Goes
    <2>2. QED
      BY <1>0, <2>1, CreateWalk, LeftOK
  <1>8. QED
    BY <1>0, <1>1, <1>2, <1>3, <1>5, <1>6, <1>7, DeletedTask

LEMMA DeletedAsk ==
  ASSUME BaseInv, DeletedInv, NEW r \in Requests, NEW o \in Operations, NEW a \in Accounts,
         Ask(r, o, a)
  PROVE  DeletedInv'
  <1>0. ProcInv /\ DataType /\ r \in Processes
    BY DEF BaseInv, Processes
  <1>1. /\ Rest(r) /\ op'[r] = o /\ on'[r] = a
        /\ step'[r] \in {"put", "awaitSup", "awaitOnb"}
        /\ step'[r] = "awaitSup" <=> o = "reconnect"
    BY <1>0, AskWalk
  <1>2. /\ known' = known \cup {a} /\ UNCHANGED <<row, secret, pending, erased>>
        /\ MayName(o, a)
    BY DEF Ask, tables, history
  <1>3. onbQueue' = onbQueue \/ onbQueue' = Join(onbQueue, a, r)
    BY DEF Ask, locks
  <1>4. ASSUME o = "register"
        PROVE  a \notin known /\ First(onbQueue', a, r) /\ a \notin erased
    <2>1. a \notin known /\ onbQueue' = Join(onbQueue, a, r)
      BY <1>2, <1>4 DEF MayName, Ask
    <2>2. onbQueue[a] = <<>> /\ a \notin erased
      BY <2>1 DEF DeletedInv, AccountOK
    <2>3. onbQueue'[a] = <<r>>
      BY <1>0, <2>1, <2>2 DEF Join, ProcInv, ProcType
    <2>4. QED
      BY <2>1, <2>2, <2>3 DEF First
  <1>5. RequestOK(r)'
    BY <1>1, <1>2, <1>4 DEF RequestOK
  <1>6. ASSUME NEW b \in Accounts
        PROVE  AccountOK(b)'
    <2>1. b \notin known' => onbQueue'[b] = onbQueue[b]
      BY <1>0, <1>2, <1>3 DEF Join, ProcInv, ProcType
    <2>2. QED
      BY <1>2, <2>1 DEF DeletedInv, AccountOK
  <1>7. Changed(onbQueue, onbQueue', r, Requests)
    BY <1>3 DEF Changed
  <1>8. QED
    BY <1>0, <1>1, <1>2, <1>5, <1>6, <1>7, DeletedMoves

LEMMA DeletedStep ==
  ASSUME BaseInv, DeletedInv, [LifecycleNext]_vars
  PROVE  DeletedInv'
  <1>0. ProcInv /\ DataType /\ Supervisor \in Processes /\ Supervisor \notin Requests
    BY LifecycleAssumption DEF BaseInv, Processes
  <1>1. ASSUME UNCHANGED <<tables, known, pending, locks, erased>>, UNCHANGED procs
        PROVE  DeletedInv'
    BY <1>1 DEF tables, locks, procs, DeletedInv, AccountOK, RequestOK
  <1>2. CASE UNCHANGED vars
    BY <1>1, <1>2 DEF vars, history
  <1>3. ASSUME Rest(Supervisor), OnbWalk(Supervisor),
               UNCHANGED <<tables, known, pending, erased>>
        PROVE  DeletedInv'
    BY <1>0, <1>3, DeletedQuiet DEF tables
  <1>4. CASE ListEnabled \/ PassEnds \/ ListFails \/ Restart
    <2>1. OnbWalk(Supervisor)
      BY <1>4, OnbWalks DEF ListEnabled, PassEnds, ListFails, Restart
    <2>2. UNCHANGED <<tables, known, pending, erased>>
      BY <1>4 DEF ListEnabled, PassEnds, ListFails, Restart, history
    <2>3. QED
      BY <1>0, <1>3, <1>4, <2>1, <2>2, LoopWalk
  <1>5. ASSUME NEW a \in Accounts, PickAccount(a)
        PROVE  DeletedInv'
    BY <1>0, <1>3, <1>5, PickWalk DEF PickAccount, OnbWalk, history
  <1>6. CASE Crash
    <2>1. /\ \A r \in Requests : step'[r] = "idle"
          /\ \A a \in Accounts : onbQueue'[a] = <<>> /\ pending'[a] = "none"
          /\ UNCHANGED <<row, secret, known, erased>>
      BY <1>0, <1>6 DEF Crash, Processes, tables, history
    <2>2. QED
      BY <2>1 DEF DeletedInv, AccountOK, RequestOK
  <1>7. ASSUME NEW a \in Accounts, BackoffEnds(a) \/ Drop(a)
        PROVE  DeletedInv'
    BY <1>1, <1>7 DEF BackoffEnds, Drop, history
  <1>8. ASSUME NEW s \in Sessions, Revoke(s)
        PROVE  DeletedInv'
    BY <1>1, <1>8 DEF Revoke, history
  <1>9. QED
    BY <1>2, <1>4, <1>5, <1>6, <1>7, <1>8, NextCases, DeletedEnsure, DeletedStopping,
       DeletedOnboarding, DeletedCreate, DeletedAsk

\* A deleted account keeps neither its secret nor an authorization that could still
\* store one, whatever else was asked for it at the same time.
THEOREM DeletedAccountsLeaveNothing == LifecycleSpec => []DeletedLeavesNothing
  <1>1. LifecycleInit => DeletedInv
    BY LifecycleAssumption
    DEF LifecycleInit, DeletedInv, AccountOK, RequestOK, Processes
  <1>2. DeletedInv => DeletedLeavesNothing
    BY DEF DeletedInv, AccountOK, DeletedLeavesNothing
  <1>3. QED
    BY <1>1, <1>2, BaseInvariant, DeletedStep, PTL DEF LifecycleSpec

-----------------------------------------------------------------------------
(***************************************************************************)
(* Accounts in "connecting".  Whoever wrote it is still at work, or has left  *)
(* an authorization behind that nobody is completing.                        *)
(***************************************************************************)
Troubles == {"crash", "statement", "hangup"}
Busy(s, o) ==
  \/ s \in {"create", "dial", "connected", "failed", "begin"}
  \/ s = "awaitSup" /\ o \in {"disconnect", "delete"}
Worker(a) == \E p \in Processes : on[p] = a /\ Busy(step[p], op[p])
Waits(a) ==
  pending[a] # "none" /\ \A p \in Processes : ~(on[p] = a /\ step[p] = "finish")

ConnectingInv ==
  \A a \in Accounts :
    (row[a] = "connecting" /\ Untroubled(Troubles)) => Worker(a) \/ Waits(a)

LEMMA UntroubledBefore ==
  ASSUME BaseInv, [LifecycleNext]_vars, Untroubled(Troubles)'
  PROVE  Untroubled(Troubles) /\ \A k \in Troubles : ~Mishap(k)
  <1>1. ASSUME NEW k \in Troubles
        PROVE  mishaps[k] = 0 /\ ~Mishap(k)
    <2>1. k \in MishapKinds
      BY <1>1 DEF Troubles, MishapKinds
    <2>2. mishaps[k] \in Nat /\ mishaps'[k] >= mishaps[k] /\ mishaps'[k] = 0
      BY <1>1, <2>1, MishapsGrow DEF BaseInv, DataType, Untroubled
    <2>3. Mishap(k) => mishaps'[k] = mishaps[k] + 1
      BY <2>1, MishapCounts DEF BaseInv
    <2>4. QED
      BY <2>2, <2>3
  <1>2. QED
    BY <1>1 DEF Untroubled

\* Process p works on account a after the step; or it was not the one to work on
\* it; or it completes the authorization; or it leaves one.
Passes(p, a) ==
  \/ on'[p] = a /\ Busy(step'[p], op'[p])
  \/ /\ row[a] = "connecting" /\ ~(on[p] = a /\ Busy(step[p], op[p]))
     /\ ~(on'[p] = a /\ step'[p] = "finish")
     /\ pending[a] # "none" => pending'[a] # "none"
  \/ row[a] = "connecting" /\ on[p] = a /\ step[p] = "finish"
  \/ Waits(a)'

LEMMA ConnectingMoves ==
  ASSUME BaseInv, ConnectingInv, [LifecycleNext]_vars, NEW p \in Processes, Rest(p),
         \A a \in Accounts :
           (row'[a] = "connecting" /\ Untroubled(Troubles)') => Passes(p, a)
  PROVE  ConnectingInv'
  <1>1. ASSUME NEW a \in Accounts, row'[a] = "connecting", Untroubled(Troubles)'
        PROVE  Worker(a)' \/ Waits(a)'
    <2>1. Passes(p, a) /\ (row[a] = "connecting" => Worker(a) \/ Waits(a))
      BY <1>1, UntroubledBefore DEF ConnectingInv
    <2>2. CASE on'[p] = a /\ Busy(step'[p], op'[p])
      BY <2>2 DEF Worker
    <2>3. ASSUME Worker(a), ~(on[p] = a /\ Busy(step[p], op[p]))
          PROVE  Worker(a)'
      <3>1. PICK x \in Processes : on[x] = a /\ Busy(step[x], op[x])
        BY <2>3 DEF Worker
      <3>2. on'[x] = a /\ step'[x] = step[x] /\ op'[x] = op[x]
        BY <2>3, <3>1 DEF Rest
      <3>3. QED
        BY <3>1, <3>2 DEF Worker
    <2>4. CASE /\ row[a] = "connecting" /\ ~(on[p] = a /\ Busy(step[p], op[p]))
               /\ ~(on'[p] = a /\ step'[p] = "finish")
               /\ pending[a] # "none" => pending'[a] # "none"
      <3>1. Waits(a) => Waits(a)'
        BY <2>4 DEF Waits, Rest
      <3>2. QED
        BY <2>1, <2>3, <2>4, <3>1
    <2>5. CASE row[a] = "connecting" /\ on[p] = a /\ step[p] = "finish"
      <3>1. ~Waits(a) /\ ~Busy(step[p], op[p])
        BY <2>5 DEF Waits, Busy
      <3>2. QED
        BY <2>1, <2>3, <2>5, <3>1
    <2>6. QED
      BY <2>1, <2>2, <2>4, <2>5 DEF Passes
  <1>2. QED
    BY <1>1 DEF ConnectingInv

\* The accounts that process p is not on.
LEMMA PassesElsewhere ==
  ASSUME ProcInv, NEW p \in Processes, Leaves(p) \/ (\E s : Goes(p, s)),
         NEW a \in Accounts, a # on[p], row'[a] = row[a], pending'[a] = pending[a],
         row'[a] = "connecting"
  PROVE  Passes(p, a)
  BY LifecycleAssumption DEF Passes, Leaves, Goes

\* p leaves the account's row and authorization as they are.
LEMMA PassesOver ==
  ASSUME ProcInv, NEW p \in Processes, ~Busy(step[p], op[p]), step'[p] # "finish",
         NEW a \in Accounts, row[a] = "connecting",
         pending[a] # "none" => pending'[a] # "none"
  PROVE  Passes(p, a)
  BY DEF Passes

LEMMA ConnectingEnsure ==
  ASSUME BaseInv, ConnectingInv, [LifecycleNext]_vars, NEW p \in Processes,
         EnsureStep(p) \/ EnsureFails(p)
  PROVE  ConnectingInv'
  <1>0. ProcInv /\ DataType
    BY DEF BaseInv
  <1>1. Leaves(p) \/ \E s \in Ensuring : Goes(p, s)
    BY <1>0, EnsureWalk DEF Ensuring
  <1>2. pending' = pending
    BY DEF EnsureStep, EnsureRead, EnsureDecide, EnsureCreate, EnsureDial,
       EnsureConnected, EnsureFailed, EnsureFails
  <1>3. \A b \in Accounts : row'[b] = row[b] \/ b = on[p]
    <2>1. ASSUME NEW s, SetState(on[p], s)
          PROVE  \A b \in Accounts : row'[b] = row[b] \/ b = on[p]
      BY <1>0, <2>1, SetStateWhere
    <2>2. QED
      BY <2>1 DEF EnsureStep, EnsureRead, EnsureDecide, EnsureCreate, EnsureDial,
         EnsureConnected, EnsureFailed, EnsureFails, tables
  <1>4. ASSUME NEW a \in Accounts, row'[a] = "connecting", Untroubled(Troubles)'
        PROVE  Passes(p, a)
    <2>1. ~EnsureFails(p)
      BY <1>4, UntroubledBefore DEF EnsureFails, Troubles
    <2>2. CASE a # on[p]
      BY <1>0, <1>1, <1>2, <1>3, <1>4, <2>2, PassesElsewhere
    <2>3. ASSUME a = on[p], NEW s, SetState(a, s), s # "connecting"
          PROVE  FALSE
      BY <1>0, <1>4, <2>3 DEF SetState, DataType
    <2>4. CASE a = on[p] /\ EnsureRead(p)
      <3>1. row' = row /\ ~Busy(step[p], op[p])
        BY <2>4 DEF EnsureRead, Busy, tables
      <3>2. step'[p] # "finish"
        BY <1>1 DEF Leaves, Goes, Away, Ensuring
      <3>3. QED
        BY <1>0, <1>2, <1>4, <3>1, <3>2, PassesOver
    <2>5. CASE a = on[p] /\ EnsureDecide(p)
      <3>1. CASE Attempts(p)
        <4>1. step'[p] = "create" /\ on'[p] = on[p]
          BY <1>0, <2>5, <3>1 DEF EnsureDecide, ProcInv, ProcType
        <4>2. QED
          BY <2>5, <4>1 DEF Passes, Busy
      <3>2. CASE ~Attempts(p)
        <4>1. row' = row /\ ~Busy(step[p], op[p])
          BY <2>5, <3>2 DEF EnsureDecide, Busy
        <4>2. step'[p] # "finish"
          BY <1>1 DEF Leaves, Goes, Away, Ensuring
        <4>3. QED
          BY <1>0, <1>2, <1>4, <4>1, <4>2, PassesOver
      <3>3. QED
        BY <3>1, <3>2
    <2>6. CASE a = on[p] /\ (EnsureCreate(p) \/ EnsureDial(p))
      <3>1. step'[p] \in {"dial", "failed", "connected"} /\ on'[p] = on[p]
        BY <1>0, <2>6, GoToGoes, CatchGoes DEF EnsureCreate, EnsureDial, Goes
      <3>2. QED
        BY <2>6, <3>1 DEF Passes, Busy
    <2>7. CASE a = on[p] /\ EnsureConnected(p)
      BY <2>3, <2>7 DEF EnsureConnected
    <2>8. CASE a = on[p] /\ EnsureFailed(p)
      <3>1. seen[p] # "connecting"
        BY <1>0, <2>8, ProcCases DEF EnsureFailed, Place
      <3>2. QED
        BY <2>3, <2>8, <3>1 DEF EnsureFailed
    <2>9. QED
      BY <2>1, <2>2, <2>4, <2>5, <2>6, <2>7, <2>8 DEF EnsureStep
  <1>5. QED
    BY <1>0, <1>1, <1>4, ConnectingMoves DEF Leaves, Goes

LEMMA ConnectingStopping ==
  ASSUME BaseInv, ConnectingInv, [LifecycleNext]_vars, NEW r \in Requests,
         CancelOnboarding(r) \/ StopAccount(r) \/ Unplug(r) \/ Erase(r) \/ AdminFails(r)
  PROVE  ConnectingInv'
  <1>0. ProcInv /\ DataType /\ r \in Processes
    BY DEF BaseInv, Processes
  <1>1. Leaves(r) \/ \E s \in {"awaitSup", "unplug", "erase"} : Goes(r, s)
    BY <1>0, StoppingWalk
  <1>2. step'[r] # "finish"
    BY <1>1 DEF Leaves, Goes, Away
  <1>3. \A b \in Accounts :
          b # on[r] => row'[b] = row[b] /\ pending'[b] = pending[b]
    <2>1. ASSUME NEW s, SetState(on[r], s)
          PROVE  \A b \in Accounts : b # on[r] => row'[b] = row[b]
      BY <1>0, <2>1, SetStateWhere
    <2>2. \A b \in Accounts : b # on[r] => row'[b] = row[b]
      BY <1>0, <2>1 DEF CancelOnboarding, StopAccount, Unplug, Erase, AdminFails,
         DeleteAccount, tables, DataType
    <2>3. \A b \in Accounts : b # on[r] => pending'[b] = pending[b]
      BY <1>0 DEF CancelOnboarding, StopAccount, Unplug, Erase, AdminFails, DataType
    <2>4. QED
      BY <2>2, <2>3
  <1>4. ASSUME NEW a \in Accounts, row'[a] = "connecting", Untroubled(Troubles)'
        PROVE  Passes(r, a)
    <2>1. ~AdminFails(r) /\ ~Mishap("hangup")
      BY <1>4, UntroubledBefore DEF AdminFails, Troubles
    <2>2. CASE a # on[r]
      BY <1>0, <1>1, <1>3, <1>4, <2>2, PassesElsewhere
    <2>3. CASE a = on[r] /\ CancelOnboarding(r)
      <3>1. row' = row
        BY <2>3 DEF CancelOnboarding, tables
      <3>2. step'[r] = "awaitSup" /\ on'[r] = a /\ op'[r] = op[r]
        BY <1>0, <1>4, <2>1, <2>3, <3>1 DEF CancelOnboarding, ProcInv, ProcType
      <3>3. op[r] \in {"disconnect", "delete"}
        BY <2>3 DEF CancelOnboarding, Onboarding
      <3>4. QED
        BY <3>2, <3>3 DEF Passes, Busy
    <2>4. CASE a = on[r] /\ StopAccount(r)
      BY <1>0, <1>4, <2>4 DEF StopAccount, SetState, DataType
    <2>5. CASE a = on[r] /\ Unplug(r)
      <3>1. row' = row /\ pending' = pending /\ ~Busy(step[r], op[r])
        BY <2>5 DEF Unplug, tables, Busy
      <3>2. QED
        BY <1>0, <1>2, <1>4, <3>1, PassesOver
    <2>6. CASE a = on[r] /\ Erase(r)
      BY <1>0, <1>4, <2>6 DEF Erase, DeleteAccount, DataType
    <2>7. QED
      BY <2>1, <2>2, <2>3, <2>4, <2>5, <2>6
  <1>5. QED
    BY <1>0, <1>1, <1>4, ConnectingMoves DEF Leaves, Goes

LEMMA ConnectingOnboarding ==
  ASSUME BaseInv, ConnectingInv, [LifecycleNext]_vars, NEW r \in Requests,
         OnboardingStep(r) \/ PutCredentials(r) \/ UpsertAccount(r)
  PROVE  ConnectingInv'
  <1>0. ProcInv /\ DataType /\ r \in Processes
    BY DEF BaseInv, Processes
  <1>1. Leaves(r) \/ \E s : Goes(r, s)
    BY <1>0, OnboardingWalk, CreateWalk
  <1>2. \A b \in Accounts :
          b # on[r] => row'[b] = row[b] /\ pending'[b] = pending[b]
    <2>1. ASSUME NEW s, SetState(on[r], s)
          PROVE  \A b \in Accounts : b # on[r] => row'[b] = row[b]
      BY <1>0, <2>1, SetStateWhere
    <2>2. \A b \in Accounts : b # on[r] => row'[b] = row[b]
      BY <1>0, <2>1 DEF OnboardingStep, Register, InsertAccount, StartAgain,
         BeginAuthorization, Submit, StoreSession, MarkAuthorized, FinishOnboarding,
         OnboardingFails, FailOnboarding, PutCredentials, UpsertAccount, DataType
    <2>3. \A b \in Accounts : b # on[r] => pending'[b] = pending[b]
      BY <1>0 DEF OnboardingStep, Register, InsertAccount, StartAgain,
         BeginAuthorization, Submit, StoreSession, MarkAuthorized, FinishOnboarding,
         OnboardingFails, FailOnboarding, PutCredentials, UpsertAccount, DataType
    <2>4. QED
      BY <2>2, <2>3
  <1>3. ASSUME NEW a \in Accounts, row'[a] = "connecting", Untroubled(Troubles)'
        PROVE  Passes(r, a)
    <2>1. ~OnboardingFails(r) /\ ~Mishap("hangup")
      BY <1>3, UntroubledBefore DEF OnboardingFails, Troubles
    <2>2. CASE a # on[r]
      BY <1>0, <1>1, <1>2, <1>3, <2>2, PassesElsewhere
    <2>3. ASSUME a = on[r], NEW s, SetState(a, s), s # "connecting"
          PROVE  FALSE
      BY <1>0, <1>3, <2>3 DEF SetState, DataType
    <2>4. ~(a = on[r] /\ FailOnboarding(r))
      BY <2>3 DEF FailOnboarding
    <2>5. ASSUME ~Busy(step[r], op[r]), row' = row, step'[r] # "finish",
                 pending[a] # "none" => pending'[a] # "none"
          PROVE  Passes(r, a)
      BY <1>0, <1>3, <2>5, PassesOver
    <2>6. ASSUME NEW s, GoTo(r, s) \/ (Leaves(r) /\ s = "idle"), s # "finish"
          PROVE  step'[r] # "finish"
      BY <1>0, <2>6, GoToGoes DEF Goes, Leaves, Away
    <2>7. Return(r) \/ Throw(r) => step'[r] # "finish"
      BY <1>0, SettleLeaves DEF Leaves, Away
    <2>8. CASE Register(r)
      BY <2>5, <2>6, <2>8 DEF Register, Onboarding, Busy
    <2>9. CASE a = on[r] /\ (InsertAccount(r) \/ StartAgain(r))
      <3>1. CASE GoTo(r, "begin")
        BY <1>0, <2>9, <3>1, GoToGoes DEF Passes, Busy, Goes
      <3>2. CASE Throw(r) /\ row' = row
        BY <2>5, <2>7, <2>9, <3>2 DEF InsertAccount, StartAgain, Onboarding, Busy
      <3>3. QED
        BY <2>9, <3>1, <3>2 DEF InsertAccount, StartAgain
    <2>10. CASE a = on[r] /\ BeginAuthorization(r)
      <3>1. pending' = [pending EXCEPT ![a] = "code"] /\ Return(r)
        BY <2>4, <2>10 DEF BeginAuthorization
      <3>2. pending'[a] = "code" /\ Leaves(r)
        BY <1>0, <3>1, SettleLeaves DEF DataType
      <3>3. ASSUME NEW q \in Processes, on'[q] = a, step'[q] = "finish"
            PROVE  FALSE
        <4>1. q # r /\ on[q] = on[r] /\ step[q] = "finish"
          BY <2>10, <3>2, <3>3 DEF Leaves, Rest, Away
        <4>2. step[r] = "begin"
          BY <2>10 DEF BeginAuthorization
        <4>3. QED
          BY <1>0, <4>1, <4>2, OneInside DEF InOnb
      <3>4. QED
        BY <3>2, <3>3 DEF Passes, Waits
    <2>11. CASE a = on[r] /\ Submit(r)
      <3>1. /\ row' = row /\ step[r] = "awaitOnb"
            /\ pending' = pending \/ pending' = [pending EXCEPT ![a] = "password"]
            /\ GoTo(r, "store") \/ Return(r) \/ Throw(r)
        BY <2>4, <2>11 DEF Submit, Submits, Onboarding
      <3>2. pending[a] # "none" => pending'[a] # "none"
        BY <1>0, <3>1 DEF DataType
      <3>3. QED
        BY <2>5, <2>6, <2>7, <3>1, <3>2 DEF Busy
    <2>12. CASE a = on[r] /\ StoreSession(r)
      BY <2>5, <2>6, <2>12 DEF StoreSession, Busy
    <2>13. CASE a = on[r] /\ MarkAuthorized(r)
      BY <2>3, <2>13 DEF MarkAuthorized
    <2>14. CASE a = on[r] /\ FinishOnboarding(r)
      <3>1. row' = row /\ step[r] = "finish"
        BY <2>1, <2>14 DEF FinishOnboarding
      <3>2. QED
        BY <1>3, <2>14, <3>1 DEF Passes
    <2>15. CASE a = on[r] /\ PutCredentials(r)
      BY <2>5, <2>6, <2>15 DEF PutCredentials, Busy
    <2>16. CASE a = on[r] /\ UpsertAccount(r)
      <3>1. CASE row' = [row EXCEPT ![a] = "disconnected"]
        BY <1>0, <1>3, <3>1 DEF DataType
      <3>2. CASE row' = row
        BY <2>5, <2>7, <2>16, <3>2 DEF UpsertAccount, Busy
      <3>3. QED
        BY <2>16, <3>1, <3>2 DEF UpsertAccount
    <2>17. QED
      BY <2>1, <2>2, <2>8, <2>9, <2>10, <2>11, <2>12, <2>13, <2>14, <2>15, <2>16
      DEF OnboardingStep
  <1>4. QED
    BY <1>0, <1>1, <1>3, ConnectingMoves DEF Leaves, Goes

LEMMA ConnectingStep ==
  ASSUME BaseInv, ConnectingInv, [LifecycleNext]_vars
  PROVE  ConnectingInv'
  <1>0. ProcInv /\ DataType /\ Supervisor \in Processes /\ Requests \subseteq Processes
    BY DEF BaseInv, Processes
  <1>1. ASSUME UNCHANGED <<row, pending>>, UNCHANGED procs
        PROVE  ConnectingInv'
    <2>1. \A a \in Accounts : (Worker(a) \/ Waits(a)) => Worker(a)' \/ Waits(a)'
      BY <1>1 DEF Worker, Waits, procs
    <2>2. QED
      BY <1>1, <2>1, UntroubledBefore DEF ConnectingInv
  <1>2. CASE UNCHANGED vars
    BY <1>1, <1>2 DEF vars, tables
  <1>3. ASSUME NEW p \in Processes, Rest(p), UNCHANGED <<row, pending>>,
               ~Busy(step[p], op[p]), step'[p] # "finish"
        PROVE  ConnectingInv'
    <2>1. \A a \in Accounts : row'[a] = "connecting" => Passes(p, a)
      BY <1>0, <1>3, PassesOver
    <2>2. QED
      BY <1>3, <2>1, ConnectingMoves
  <1>4. CASE ListEnabled \/ PassEnds \/ ListFails \/ Restart
    <2>1. Rest(Supervisor) /\ step'[Supervisor] # "finish"
      BY <1>0, <1>4, LoopWalk DEF Away
    <2>2. UNCHANGED <<row, pending>> /\ ~Busy(step[Supervisor], op[Supervisor])
      BY <1>4 DEF ListEnabled, PassEnds, ListFails, Restart, tables, Busy
    <2>3. QED
      BY <1>0, <1>3, <2>1, <2>2
  <1>5. ASSUME NEW a \in Accounts, PickAccount(a)
        PROVE  ConnectingInv'
    <2>1. UNCHANGED <<row, pending>> /\ ~Busy(step[Supervisor], op[Supervisor])
      BY <1>5 DEF PickAccount, tables, Busy
    <2>2. QED
      BY <1>0, <1>3, <1>5, <2>1, PickWalk
  <1>6. ASSUME NEW r \in Requests, NEW o \in Operations, NEW a \in Accounts, Ask(r, o, a)
        PROVE  ConnectingInv'
    <2>1. UNCHANGED <<row, pending>> /\ ~Busy(step[r], op[r])
      BY <1>6 DEF Ask, tables, Busy
    <2>2. step'[r] # "finish" /\ Rest(r)
      BY <1>0, <1>6, AskWalk
    <2>3. QED
      BY <1>0, <1>3, <2>1, <2>2
  <1>7. CASE Crash
    <2>1. ~Untroubled(Troubles)'
      BY <1>7, UntroubledBefore DEF Crash, Troubles
    <2>2. QED
      BY <2>1 DEF ConnectingInv
  <1>8. ASSUME NEW a \in Accounts, BackoffEnds(a) \/ Drop(a)
        PROVE  ConnectingInv'
    BY <1>1, <1>8 DEF BackoffEnds, Drop, tables
  <1>9. ASSUME NEW s \in Sessions, Revoke(s)
        PROVE  ConnectingInv'
    BY <1>1, <1>9 DEF Revoke, tables
  <1>10. QED
    BY <1>2, <1>4, <1>5, <1>6, <1>7, <1>8, <1>9, NextCases, ConnectingEnsure,
       ConnectingStopping, ConnectingOnboarding

\* "connecting" is left again: unless a crash, a failing statement or a failing
\* disconnect came between, a task of the account's executors is at work on it or
\* its authorization waits.
THEOREM ConnectingIsLeftAgain == LifecycleSpec => []ConnectingIsPassing
  <1>1. LifecycleInit => ConnectingInv
    BY DEF LifecycleInit, ConnectingInv
  <1>2. BaseInv /\ ConnectingInv => ConnectingIsPassing
    <2>1. ASSUME BaseInv, NEW p \in Processes, Busy(step[p], op[p])
          PROVE  Turn(supQueue, p) \/ Turn(onbQueue, p)
      <3>1. InSup(step[p]) \/ InOnb(step[p], op[p])
        BY <2>1 DEF Busy, InSup, InOnb, Ensuring
      <3>2. QED
        BY <2>1, <3>1, ProcCases DEF First, Turn, BaseInv
    <2>2. QED
      BY <2>1 DEF ConnectingInv, ConnectingIsPassing, WorkedOn, Worker, Waits, Troubles
  <1>3. QED
    BY <1>1, <1>2, BaseInvariant, ConnectingStep, PTL DEF LifecycleSpec

\* The variables keep their types: fewer sessions are issued than MaxSessions allows,
\* and no account counts a negative number of clients.
THEOREM LifecycleTypesHold == LifecycleSpec => []LifecycleTypeOK
  <1>1. ASSUME SafetyInv
        PROVE  LifecycleTypeOK
    <2>1. ProcType /\ DataType /\ ClientInv /\ IssuedOK
      BY <1>1 DEF SafetyInv, BaseInv, ProcInv
    <2>2. clients \in [Accounts -> Nat]
      <3>1. \A a \in Accounts : clients[a] \in Nat
        BY <2>1 DEF DataType, ClientInv, ClientOK
      <3>2. QED
        BY <2>1, <3>1 DEF DataType
    <2>3. issued \in 0..MaxSessions
      BY <2>1, StoringFinite, LifecycleAssumption DEF DataType, IssuedOK
    <2>4. online \in [Accounts -> BOOLEAN] /\ backoff \in [Accounts -> BOOLEAN]
      BY <2>1 DEF DataType
    <2>5. serving \in BOOLEAN
      BY <2>1 DEF DataType
    <2>6. QED
      BY <2>1, <2>2, <2>3, <2>4, <2>5
      DEF LifecycleTypeOK, ProcType, DataType, Ops, Local
  <1>2. QED
    BY <1>1, SafetyInit, SafetyStep, PTL DEF LifecycleSpec
-----------------------------------------------------------------------------
(***************************************************************************)
(* The executors advance.  A queue holds each task of its account that has  *)
(* not ended, once: what waits and what is inside the executor.             *)
(***************************************************************************)
SupTask(p) == step[p] = "awaitSup" \/ InSup(step[p])
OnbTask(p) == step[p] = "awaitOnb" \/ InOnb(step[p], op[p])
SupTasks(a) == {p \in Processes : on[p] = a /\ SupTask(p)}
OnbTasks(a) == {p \in Processes : on[p] = a /\ OnbTask(p)}

Lined(q, T) == IsInjective(q) /\ Range(q) = T

QueuesOK ==
  \A a \in Accounts :
    Lined(supQueue[a], SupTasks(a)) /\ Lined(onbQueue[a], OnbTasks(a))

LEMMA AppendLined ==
  ASSUME NEW S, NEW q \in Seq(S), NEW T, Lined(q, T), NEW p \in S, p \notin T
  PROVE  Lined(Append(q, p), T \cup {p})
  <1> DEFINE n == Append(q, p)
  <1>1. /\ n \in Seq(S) /\ Len(n) = Len(q) + 1 /\ n[Len(q) + 1] = p
        /\ DOMAIN n = 1..(Len(q) + 1) /\ DOMAIN q = 1..Len(q) /\ Len(q) \in Nat
        /\ \A i \in 1..Len(q) : n[i] = q[i]
    OBVIOUS
  <1> HIDE DEF n
  <1>2. Range(n) = Range(q) \cup {p}
    BY <1>1 DEF Range
  <1>3. IsInjective(n)
    BY <1>1 DEF Lined, Range, IsInjective
  <1>4. QED
    BY <1>2, <1>3 DEF Lined, n

LEMMA TailLined ==
  ASSUME NEW S, NEW q \in Seq(S), NEW T, Lined(q, T), q # <<>>
  PROVE  Lined(Tail(q), T \ {Head(q)})
  <1> DEFINE n == Tail(q)
  <1>1. /\ Len(q) \in Nat \ {0} /\ DOMAIN q = 1..Len(q) /\ Head(q) = q[1]
        /\ n \in Seq(S) /\ Len(n) = Len(q) - 1 /\ DOMAIN n = 1..(Len(q) - 1)
        /\ \A i \in 1..(Len(q) - 1) : n[i] = q[i + 1]
    OBVIOUS
  <1> HIDE DEF n
  <1>2. \A i \in 2..Len(q) : q[i] = n[i - 1] /\ i - 1 \in DOMAIN n
    BY <1>1
  <1>3. \A i \in 2..Len(q) : q[i] # q[1]
    BY <1>1 DEF Lined, IsInjective
  <1>4. Range(n) = T \ {Head(q)}
    <2>1. \A x \in Range(n) : x \in T \ {Head(q)}
      BY <1>1, <1>3 DEF Lined, Range
    <2>2. ASSUME NEW x \in T, x # Head(q)
          PROVE  x \in Range(n)
      <3>1. PICK i \in DOMAIN q : q[i] = x
        BY DEF Lined, Range
      <3>2. i \in 2..Len(q)
        BY <1>1, <2>2, <3>1
      <3>3. QED
        BY <1>2, <3>1, <3>2 DEF Range
    <2>3. QED
      BY <2>1, <2>2
  <1>5. IsInjective(n)
    BY <1>1 DEF Lined, IsInjective
  <1>6. QED
    BY <1>4, <1>5 DEF Lined, n

LEMMA JoinLined ==
  ASSUME NEW S, NEW q \in [Accounts -> Seq(S)], NEW b \in Accounts, NEW p \in S,
         NEW a \in Accounts, NEW T, Lined(q[a], T), p \notin T
  PROVE  Lined(Join(q, b, p)[a], IF a = b THEN T \cup {p} ELSE T)
  <1>1. CASE a = b
    <2>1. Join(q, b, p)[a] = Append(q[a], p)
      BY <1>1 DEF Join
    <2>2. q[a] \in Seq(S)
      OBVIOUS
    <2>3. QED
      BY <1>1, <2>1, <2>2, AppendLined
  <1>2. CASE a # b
    BY <1>2 DEF Join
  <1>3. QED
    BY <1>1, <1>2

LEMMA LeaveLined ==
  ASSUME NEW S, NEW q \in [Accounts -> Seq(S)], NEW p, First(q, on[p], p),
         NEW a \in Accounts, NEW T, Lined(q[a], T)
  PROVE  Lined(Leave(q, p)[a], IF a = on[p] THEN T \ {p} ELSE T)
  <1>1. Leave(q, p) = [q EXCEPT ![on[p]] = Tail(@)]
    BY DEF Leave, Turn, First
  <1>2. CASE a = on[p]
    <2>1. Leave(q, p)[a] = Tail(q[a]) /\ Head(q[a]) = p /\ q[a] # <<>>
      BY <1>1, <1>2 DEF First
    <2>2. q[a] \in Seq(S)
      OBVIOUS
    <2>3. QED
      BY <1>2, <2>1, <2>2, TailLined
  <1>3. CASE a # on[p]
    BY <1>1, <1>3
  <1>4. QED
    BY <1>2, <1>3

\* A step of process p keeps its place in a queue, takes one or gives it up; was and
\* is say whether it has a task there.
Queued(q, n, p, was, is) ==
  \/ n = q /\ (is <=> was) /\ (was => on'[p] = on[p])
  \/ ~was /\ is /\ on'[p] \in Accounts /\ n = Join(q, on'[p], p)
  \/ was /\ ~is /\ First(q, on[p], p) /\ n = Leave(q, p)

LEMMA SameSet ==
  ASSUME NEW T, NEW U, \A x : x \in U <=> x \in T
  PROVE  U = T
  OBVIOUS

LEMMA LinedStep ==
  ASSUME NEW S, NEW q \in [Accounts -> Seq(S)], NEW n, NEW p \in S,
         NEW was, NEW is, Queued(q, n, p, was, is),
         NEW a \in Accounts, NEW T, NEW U, Lined(q[a], T),
         \A x : x # p => (x \in U <=> x \in T),
         p \in T <=> (on[p] = a /\ was),
         p \in U <=> (on'[p] = a /\ is)
  PROVE  Lined(n[a], U)
  <1>1. CASE n = q /\ (is <=> was) /\ (was => on'[p] = on[p])
    <2>1. p \in U <=> p \in T
      BY <1>1, Zenon
    <2>2. U = T
      <3>1. \A x : x \in U <=> x \in T
        BY <2>1
      <3>2. QED
        BY <3>1, SameSet, Zenon
    <2>3. QED
      BY <1>1, <2>2
  <1>2. CASE ~was /\ is /\ on'[p] \in Accounts /\ n = Join(q, on'[p], p)
    <2>1. p \notin T /\ (p \in U <=> a = on'[p])
      BY <1>2, Zenon
    <2>2. U = IF a = on'[p] THEN T \cup {p} ELSE T
      <3>1. \A x : x \in U <=> x \in (IF a = on'[p] THEN T \cup {p} ELSE T)
        BY <2>1
      <3>2. QED
        BY <3>1, SameSet, Zenon
    <2>3. on'[p] \in Accounts /\ n = Join(q, on'[p], p)
      BY <1>2, Zenon
    <2>4. QED
      BY <2>1, <2>2, <2>3, JoinLined
  <1>3. CASE was /\ ~is /\ First(q, on[p], p) /\ n = Leave(q, p)
    <2>1. p \notin U /\ (p \in T <=> a = on[p])
      BY <1>3, Zenon
    <2>2. U = IF a = on[p] THEN T \ {p} ELSE T
      <3>1. \A x : x \in U <=> x \in (IF a = on[p] THEN T \ {p} ELSE T)
        BY <2>1
      <3>2. QED
        BY <3>1, SameSet, Zenon
    <2>3. First(q, on[p], p) /\ n = Leave(q, p)
      BY <1>3, Zenon
    <2>4. QED
      BY <2>2, <2>3, LeaveLined
  <1>4. QED
    BY <1>1, <1>2, <1>3 DEF Queued

QueuedAs(p) ==
  /\ Rest(p)
  /\ Queued(supQueue, supQueue', p, SupTask(p), SupTask(p)')
  /\ Queued(onbQueue, onbQueue', p, OnbTask(p), OnbTask(p)')

LEMMA QueuedLined ==
  ASSUME ProcInv, QueuesOK, NEW p \in Processes, QueuedAs(p)
  PROVE  QueuesOK'
  <1> SUFFICES ASSUME NEW a \in Accounts
               PROVE  /\ Lined(supQueue'[a], SupTasks(a)')
                      /\ Lined(onbQueue'[a], OnbTasks(a)')
    BY DEF QueuesOK
  <1>1. \A x \in Processes : x # p =>
          /\ SupTask(x)' <=> SupTask(x)
          /\ OnbTask(x)' <=> OnbTask(x)
          /\ on'[x] = on[x]
    BY DEF QueuedAs, Rest, SupTask, OnbTask
  <1>2. Lined(supQueue'[a], SupTasks(a)')
    <2>1. supQueue \in [Accounts -> Seq(Processes)] /\ Lined(supQueue[a], SupTasks(a))
      BY DEF ProcInv, ProcType, QueuesOK
    <2>2. \A x : x # p => (x \in SupTasks(a)' <=> x \in SupTasks(a))
      BY <1>1 DEF SupTasks
    <2>3. /\ p \in SupTasks(a) <=> (on[p] = a /\ SupTask(p))
          /\ p \in SupTasks(a)' <=> (on'[p] = a /\ SupTask(p)')
      BY Zenon DEF SupTasks
    <2>4. Queued(supQueue, supQueue', p, SupTask(p), SupTask(p)')
      BY DEF QueuedAs
    <2>5. QED
      BY <2>1, <2>2, <2>3, <2>4, LinedStep
  <1>3. Lined(onbQueue'[a], OnbTasks(a)')
    <2>1. onbQueue \in [Accounts -> Seq(Processes)] /\ Lined(onbQueue[a], OnbTasks(a))
      BY DEF ProcInv, ProcType, QueuesOK, Processes
    <2>2. \A x : x # p => (x \in OnbTasks(a)' <=> x \in OnbTasks(a))
      BY <1>1 DEF OnbTasks
    <2>3. /\ p \in OnbTasks(a) <=> (on[p] = a /\ OnbTask(p))
          /\ p \in OnbTasks(a)' <=> (on'[p] = a /\ OnbTask(p)')
      BY Zenon DEF OnbTasks
    <2>4. Queued(onbQueue, onbQueue', p, OnbTask(p), OnbTask(p)')
      BY DEF QueuedAs
    <2>5. QED
      BY <2>1, <2>2, <2>3, <2>4, LinedStep
  <1>4. QED
    BY <1>2, <1>3

LEMMA HeadLined ==
  ASSUME NEW S, NEW q \in Seq(S), q # <<>>, NEW T, Lined(q, T)
  PROVE  Head(q) \in T
  BY DEF Lined, Range

LEMMA TurnIsTask ==
  ASSUME ProcInv, QueuesOK, NEW p \in Processes
  PROVE  /\ Turn(supQueue, p) => SupTask(p)
         /\ Turn(onbQueue, p) => OnbTask(p)
  <1>1. ASSUME Turn(supQueue, p)
        PROVE  SupTask(p)
    <2>1. /\ supQueue[on[p]] \in Seq(Processes) /\ supQueue[on[p]] # <<>>
          /\ Lined(supQueue[on[p]], SupTasks(on[p])) /\ Head(supQueue[on[p]]) = p
      BY <1>1 DEF Turn, ProcInv, ProcType, QueuesOK
    <2>2. p \in SupTasks(on[p])
      BY <2>1, HeadLined
    <2>3. QED
      BY <2>2 DEF SupTasks
  <1>2. ASSUME Turn(onbQueue, p)
        PROVE  OnbTask(p)
    <2>1. /\ onbQueue[on[p]] \in Seq(Requests) /\ onbQueue[on[p]] # <<>>
          /\ Lined(onbQueue[on[p]], OnbTasks(on[p])) /\ Head(onbQueue[on[p]]) = p
      BY <1>2 DEF Turn, ProcInv, ProcType, QueuesOK
    <2>2. p \in OnbTasks(on[p])
      BY <2>1, HeadLined
    <2>3. QED
      BY <2>2 DEF OnbTasks
  <1>3. QED
    BY <1>1, <1>2

\* A task that settles is not one that still waits for its turn.
LEMMA SettledQueued ==
  ASSUME ProcInv, QueuesOK, NEW p \in Processes, Return(p) \/ Throw(p),
         step[p] = "awaitSup" => Turn(supQueue, p),
         step[p] = "awaitOnb" => Turn(onbQueue, p)
  PROVE  QueuedAs(p)
  <1>1. /\ Rest(p) /\ step'[p] \in Away
        /\ supQueue' = Leave(supQueue, p) /\ onbQueue' = Leave(onbQueue, p)
    BY SettleLeaves DEF Leaves, Return, Throw, Settle
  <1>2. ~SupTask(p)' /\ ~OnbTask(p)'
    BY <1>1 DEF SupTask, OnbTask, InSup, InOnb, Away, Ensuring
  <1>3. Queued(supQueue, supQueue', p, SupTask(p), SupTask(p)')
    <2>1. CASE SupTask(p)
      <3>1. First(supQueue, on[p], p)
        BY <2>1, ProcCases DEF SupTask
      <3>2. QED
        BY <1>1, <1>2, <2>1, <3>1 DEF Queued
    <2>2. CASE ~SupTask(p)
      <3>1. Leave(supQueue, p) = supQueue
        BY <2>2, TurnIsTask DEF Leave
      <3>2. QED
        BY <1>1, <1>2, <2>2, <3>1 DEF Queued
    <2>3. QED
      BY <2>1, <2>2
  <1>4. Queued(onbQueue, onbQueue', p, OnbTask(p), OnbTask(p)')
    <2>1. CASE OnbTask(p)
      <3>1. First(onbQueue, on[p], p)
        BY <2>1, ProcCases DEF OnbTask
      <3>2. QED
        BY <1>1, <1>2, <2>1, <3>1 DEF Queued
    <2>2. CASE ~OnbTask(p)
      <3>1. Leave(onbQueue, p) = onbQueue
        BY <2>2, TurnIsTask DEF Leave
      <3>2. QED
        BY <1>1, <1>2, <2>2, <3>1 DEF Queued
    <2>3. QED
      BY <2>1, <2>2
  <1>5. QED
    BY <1>1, <1>3, <1>4 DEF QueuedAs

LEMMA GoesQueued ==
  ASSUME NEW p \in Processes, NEW s, Goes(p, s), UNCHANGED locks,
         (s = "awaitSup" \/ InSup(s)) <=> SupTask(p),
         (s = "awaitOnb" \/ InOnb(s, op[p])) <=> OnbTask(p)
  PROVE  QueuedAs(p)
  <1>1. (SupTask(p)' <=> SupTask(p)) /\ (OnbTask(p)' <=> OnbTask(p))
    BY DEF Goes, SupTask, OnbTask
  <1>2. supQueue' = supQueue /\ onbQueue' = onbQueue /\ on'[p] = on[p] /\ Rest(p)
    BY DEF Goes, locks
  <1>3. QED
    BY <1>1, <1>2 DEF QueuedAs, Queued

LEMMA EnsureQueued ==
  ASSUME ProcInv, QueuesOK, NEW p \in Processes, EnsureStep(p) \/ EnsureFails(p)
  PROVE  QueuedAs(p)
  <1>1. \/ step[p] \in Ensuring
        \/ /\ step[p] = "awaitSup" /\ op[p] \in {"reconcile", "reconnect"}
           /\ Turn(supQueue, p)
    BY DEF EnsureStep, EnsureRead, EnsureDecide, EnsureCreate, EnsureDial,
           EnsureConnected, EnsureFailed, EnsureFails, Ensuring
  <1>2. CASE Return(p) \/ Throw(p)
    BY <1>1, <1>2, SettledQueued DEF Ensuring
  <1>3. ASSUME NEW s \in Ensuring, Goes(p, s), UNCHANGED locks
        PROVE  QueuedAs(p)
    <2>1. SupTask(p) /\ InSup(s) /\ ~OnbTask(p) /\ s # "awaitOnb" /\ ~InOnb(s, op[p])
      BY <1>1 DEF SupTask, OnbTask, InSup, InOnb, Ensuring
    <2>2. QED
      BY <1>3, <2>1, GoesQueued
  <1>4. ASSUME NEW s \in Ensuring, GoTo(p, s)
        PROVE  QueuedAs(p)
    BY <1>3, <1>4, GoToGoes DEF GoTo
  <1>5. ASSUME NEW s, Catch(p, s)
        PROVE  QueuedAs(p)
    BY <1>3, <1>5, CatchGoes DEF Catch, Ensuring
  <1>6. CASE EnsureDecide(p)
    <2>1. ASSUME NEW n, step' = [step EXCEPT ![p] = "create"],
                 seen' = [seen EXCEPT ![p] = n], UNCHANGED <<op, on, locks>>
          PROVE  QueuedAs(p)
      <3>1. Goes(p, "create")
        BY <2>1 DEF Goes, Rest, ProcInv, ProcType
      <3>2. QED
        BY <1>3, <2>1, <3>1 DEF Ensuring, locks
    <2>2. QED
      BY <1>2, <1>6, <2>1 DEF EnsureDecide
  <1>7. CASE EnsureRead(p) \/ EnsureConnected(p) \/ EnsureFailed(p)
    BY <1>2, <1>4, <1>7 DEF EnsureRead, EnsureConnected, EnsureFailed, Ensuring
  <1>8. CASE EnsureCreate(p) \/ EnsureDial(p)
    BY <1>4, <1>5, <1>8 DEF EnsureCreate, EnsureDial, Ensuring
  <1>9. CASE EnsureFails(p)
    BY <1>2, <1>5, <1>9 DEF EnsureFails
  <1>10. QED
    BY <1>6, <1>7, <1>8, <1>9 DEF EnsureStep

LEMMA StoppingQueued ==
  ASSUME ProcInv, QueuesOK, NEW r \in Requests,
         CancelOnboarding(r) \/ StopAccount(r) \/ Unplug(r) \/ Erase(r) \/ AdminFails(r)
  PROVE  QueuedAs(r)
  <1>0. r \in Processes
    BY DEF Processes
  <1>1. /\ step[r] = "awaitSup" => Turn(supQueue, r)
        /\ step[r] = "awaitOnb" => Turn(onbQueue, r)
    BY DEF CancelOnboarding, Onboarding, StopAccount, Stopping, Unplug, Erase, AdminFails
  <1>2. CASE Return(r) \/ Throw(r)
    BY <1>0, <1>1, <1>2, SettledQueued
  <1>3. CASE CancelOnboarding(r)
    <2>1. CASE /\ step' = [step EXCEPT ![r] = "awaitSup"]
               /\ supQueue' = Join(supQueue, on[r], r)
               /\ UNCHANGED <<op, on, seen, onbQueue>>
      <3>1. /\ Goes(r, "awaitSup") /\ step[r] = "awaitOnb"
            /\ op[r] \in {"disconnect", "delete"} /\ on[r] \in Accounts
        BY <1>0, <1>3, <2>1
        DEF Goes, Rest, ProcInv, ProcType, CancelOnboarding, Onboarding, Turn
      <3>2. ~SupTask(r) /\ SupTask(r)' /\ OnbTask(r) /\ OnbTask(r)'
        BY <3>1 DEF Goes, SupTask, OnbTask, InSup, InOnb, Ensuring
      <3>3. QED
        BY <2>1, <3>1, <3>2 DEF QueuedAs, Queued, Goes
    <2>2. QED
      BY <1>2, <1>3, <2>1 DEF CancelOnboarding
  <1>4. CASE StopAccount(r)
    <2>1. CASE GoTo(r, "unplug")
      <3>1. Goes(r, "unplug") /\ UNCHANGED locks
        BY <1>0, <2>1, GoToGoes DEF GoTo
      <3>2. SupTask(r) /\ InSup("unplug") /\ OnbTask(r) /\ InOnb("unplug", op[r])
        BY <1>4 DEF StopAccount, Stopping, SupTask, OnbTask, InSup, InOnb
      <3>3. QED
        BY <1>0, <3>1, <3>2, GoesQueued
    <2>2. QED
      BY <1>2, <1>4, <2>1 DEF StopAccount
  <1>5. CASE Unplug(r)
    <2>1. CASE op[r] = "delete" /\ LeaveSupervisor(r)
      <3>1. /\ Goes(r, "erase") /\ supQueue' = Leave(supQueue, r)
            /\ UNCHANGED <<onbQueue, on>>
        BY <1>0, <1>5, <2>1 DEF LeaveSupervisor, Goes, Rest, ProcInv, ProcType
      <3>2. SupTask(r) /\ ~SupTask(r)' /\ OnbTask(r) /\ OnbTask(r)'
        BY <1>5, <3>1 DEF Unplug, Goes, SupTask, OnbTask, InSup, InOnb, Ensuring
      <3>3. First(supQueue, on[r], r)
        BY <1>0, <1>5, ProcCases DEF Unplug, InSup
      <3>4. QED
        BY <3>1, <3>2, <3>3 DEF QueuedAs, Queued, Goes
    <2>2. QED
      BY <1>2, <1>5, <2>1 DEF Unplug, LeaveSupervisor
  <1>6. QED
    BY <1>2, <1>3, <1>4, <1>5 DEF Erase, AdminFails

LEMMA OnboardingQueued ==
  ASSUME ProcInv, QueuesOK, NEW r \in Requests, OnboardingStep(r)
  PROVE  QueuedAs(r)
  <1>0. r \in Processes
    BY DEF Processes
  <1>1. \/ step[r] = "awaitOnb" /\ Turn(onbQueue, r)
        \/ step[r] \in {"insert", "begin", "store", "mark", "finish"}
    BY DEF OnboardingStep, Register, InsertAccount, StartAgain, BeginAuthorization,
           Submit, Submits, StoreSession, MarkAuthorized, FinishOnboarding,
           OnboardingFails, Onboarding
  <1>2. CASE Return(r) \/ Throw(r)
    BY <1>0, <1>1, <1>2, SettledQueued
  <1>3. ASSUME NEW s \in {"insert", "begin", "store", "mark", "finish"}, GoTo(r, s)
        PROVE  QueuedAs(r)
    <2>1. Goes(r, s) /\ UNCHANGED locks
      BY <1>0, <1>3, GoToGoes DEF GoTo
    <2>2. OnbTask(r) /\ InOnb(s, op[r]) /\ ~SupTask(r) /\ s # "awaitSup" /\ ~InSup(s)
      BY <1>1 DEF SupTask, OnbTask, InSup, InOnb, Ensuring
    <2>3. QED
      BY <1>0, <2>1, <2>2, GoesQueued
  <1>4. QED
    BY <1>2, <1>3 DEF OnboardingStep, Register, InsertAccount, StartAgain,
       BeginAuthorization, Submit, StoreSession, MarkAuthorized, FinishOnboarding,
       OnboardingFails, FailOnboarding

LEMMA CreateQueued ==
  ASSUME ProcInv, QueuesOK, NEW r \in Requests, PutCredentials(r) \/ UpsertAccount(r)
  PROVE  QueuedAs(r)
  <1>0. r \in Processes
    BY DEF Processes
  <1>1. CASE PutCredentials(r)
    <2>1. Goes(r, "upsert") /\ UNCHANGED locks /\ step[r] = "put"
      BY <1>0, <1>1, GoToGoes DEF PutCredentials, GoTo
    <2>2. /\ ~SupTask(r) /\ ~OnbTask(r)
          /\ ~InSup("upsert") /\ ~InOnb("upsert", op[r])
      BY <2>1 DEF SupTask, OnbTask, InSup, InOnb, Ensuring
    <2>3. QED
      BY <1>0, <2>1, <2>2, GoesQueued
  <1>2. CASE UpsertAccount(r)
    BY <1>0, <1>2, SettledQueued DEF UpsertAccount
  <1>3. QED
    BY <1>1, <1>2

LEMMA AskQueued ==
  ASSUME ProcInv, NEW r \in Requests, NEW o \in Operations, NEW a \in Accounts,
         Ask(r, o, a)
  PROVE  QueuedAs(r)
  <1>1. /\ Rest(r) /\ op'[r] = o /\ on'[r] = a /\ step[r] = "idle"
        /\ step'[r] \in {"put", "awaitSup", "awaitOnb"}
        /\ step'[r] = "put" <=> o = "create"
        /\ step'[r] = "awaitSup" <=> o = "reconnect"
    BY AskWalk DEF Ask
  <1>2. ~SupTask(r) /\ ~OnbTask(r)
    BY <1>1 DEF SupTask, OnbTask, InSup, InOnb, Ensuring
  <1>3. /\ SupTask(r)' <=> o = "reconnect"
        /\ OnbTask(r)' <=> o \notin {"create", "reconnect"}
    BY <1>1 DEF SupTask, OnbTask, InSup, InOnb, Ensuring
  <1>4. /\ o = "reconnect" => supQueue' = Join(supQueue, a, r) /\ onbQueue' = onbQueue
        /\ o = "create" => supQueue' = supQueue /\ onbQueue' = onbQueue
        /\ o \notin {"create", "reconnect"} =>
             supQueue' = supQueue /\ onbQueue' = Join(onbQueue, a, r)
    BY DEF Ask, locks
  <1>5. QED
    BY <1>1, <1>2, <1>3, <1>4 DEF QueuedAs, Queued

LEMMA LoopQueued ==
  ASSUME ProcInv, QueuesOK,
         \/ ListEnabled \/ PassEnds \/ ListFails \/ Restart
         \/ \E a \in Accounts : PickAccount(a)
  PROVE  QueuedAs(Supervisor)
  <1>0. Supervisor \in Processes /\ op[Supervisor] = "reconcile"
    BY DEF Processes, ProcInv, ProcOK, Place
  <1>1. step[Supervisor] \in Away
    BY DEF ListEnabled, PassEnds, ListFails, Restart, PickAccount, Away
  <1>2. ~SupTask(Supervisor) /\ ~OnbTask(Supervisor)
    BY <1>1 DEF SupTask, OnbTask, InSup, InOnb, Ensuring, Away
  <1>3. ASSUME NEW s \in {"next", "sleeping"}, GoTo(Supervisor, s)
        PROVE  QueuedAs(Supervisor)
    <2>1. Goes(Supervisor, s) /\ UNCHANGED locks
      BY <1>0, <1>3, GoToGoes DEF GoTo
    <2>2. ~InSup(s) /\ ~InOnb(s, op[Supervisor])
      BY DEF InSup, InOnb, Ensuring
    <2>3. QED
      BY <1>0, <1>2, <2>1, <2>2, GoesQueued
  <1>4. CASE ListFails
    BY <1>0, <1>1, <1>4, SettledQueued DEF ListFails, Away
  <1>5. ASSUME NEW a \in Accounts, PickAccount(a)
        PROVE  QueuedAs(Supervisor)
    <2>1. /\ Rest(Supervisor) /\ on'[Supervisor] = a
          /\ op'[Supervisor] = op[Supervisor] /\ step'[Supervisor] = "awaitSup"
          /\ supQueue' = Join(supQueue, a, Supervisor) /\ onbQueue' = onbQueue
      BY <1>5, PickWalk DEF PickAccount
    <2>2. SupTask(Supervisor)' /\ ~OnbTask(Supervisor)'
      BY <1>0, <2>1 DEF SupTask, OnbTask, InOnb
    <2>3. QED
      BY <1>2, <2>1, <2>2 DEF QueuedAs, Queued
  <1>6. QED
    BY <1>3, <1>4, <1>5 DEF ListEnabled, PassEnds, Restart

LEMMA EmptyLined ==
  ASSUME NEW q, q = <<>>
  PROVE  Lined(q, {})
  BY DEF Lined, IsInjective, Range

LEMMA QueuesInit ==
  ASSUME LifecycleInit
  PROVE  QueuesOK
  <1>1. \A a \in Accounts : SupTasks(a) = {} /\ OnbTasks(a) = {}
    BY DEF LifecycleInit, SupTasks, OnbTasks, SupTask, OnbTask, InSup, InOnb, Ensuring
  <1>2. \A a \in Accounts : supQueue[a] = <<>> /\ onbQueue[a] = <<>>
    BY DEF LifecycleInit
  <1>3. QED
    BY <1>1, <1>2, EmptyLined DEF QueuesOK

LEMMA QueuesStep ==
  ASSUME ProcInv, QueuesOK, [LifecycleNext]_vars
  PROVE  QueuesOK'
  <1>0. Supervisor \in Processes /\ Requests \subseteq Processes
    BY DEF Processes
  <1>1. CASE UNCHANGED procs /\ UNCHANGED locks
    BY <1>1 DEF procs, locks, QueuesOK, SupTasks, OnbTasks, SupTask, OnbTask
  <1>2. ASSUME NEW p \in Processes, QueuedAs(p)
        PROVE  QueuesOK'
    BY <1>2, QueuedLined
  <1>3. CASE Crash
    <2>1. \A a \in Accounts : SupTasks(a)' = {} /\ OnbTasks(a)' = {}
      BY <1>3 DEF Crash, SupTasks, OnbTasks, SupTask, OnbTask, InSup, InOnb, Ensuring
    <2>2. \A a \in Accounts : supQueue'[a] = <<>> /\ onbQueue'[a] = <<>>
      BY <1>3 DEF Crash
    <2>3. QED
      BY <2>1, <2>2, EmptyLined DEF QueuesOK
  <1>4. CASE LifecycleNext
    BY <1>0, <1>1, <1>2, <1>3, <1>4, NextCases, EnsureQueued, StoppingQueued,
       OnboardingQueued, CreateQueued, AskQueued, LoopQueued
    DEF BackoffEnds, Drop, Revoke
  <1>5. QED
    BY <1>1, <1>4 DEF vars

\* For any accounts, requests, failures and crashes every task in an executor is that
\* of somebody who is at work or waits for one who is: the two executors never wait
\* for each other, and a task that failed leaves its place (keyed-serial-executor.ts,
\* adapter-runtime.ts, telegram-onboarding.ts).
THEOREM ExecutorsNeverBlock == LifecycleSpec => []ExecutorsAdvance
  <1>1. LifecycleSpec => []QueuesOK
    BY QueuesInit, QueuesStep, ProcessesHoldTheirLocks, PTL DEF LifecycleSpec
  <1>2. ASSUME ProcInv, QueuesOK
        PROVE  ExecutorsAdvance
    <2>1. ASSUME NEW a \in Accounts, supQueue[a] # <<>>
          PROVE  on[Head(supQueue[a])] = a /\ step[Head(supQueue[a])] \in SupSteps
      <3>1. Head(supQueue[a]) \in SupTasks(a)
        BY <1>2, <2>1, HeadLined DEF ProcInv, ProcType, QueuesOK
      <3>2. QED
        BY <3>1 DEF SupTasks, SupTask, InSup, Ensuring, SupSteps
    <2>2. ASSUME NEW a \in Accounts, onbQueue[a] # <<>>
          PROVE  on[Head(onbQueue[a])] = a /\ step[Head(onbQueue[a])] \in OnbSteps
      <3>1. Head(onbQueue[a]) \in OnbTasks(a)
        BY <1>2, <2>2, HeadLined DEF ProcInv, ProcType, QueuesOK
      <3>2. QED
        BY <3>1 DEF OnbTasks, OnbTask, InOnb, OnbSteps
    <2>3. ASSUME NEW p \in Processes
          PROVE  /\ step[p] = "awaitSup" => p \in Range(supQueue[on[p]])
                 /\ step[p] = "awaitOnb" => p \in Range(onbQueue[on[p]])
      <3>1. step[p] \in {"awaitSup", "awaitOnb"} => on[p] \in Accounts
        BY <1>2, ProcCases DEF Away
      <3>2. QED
        BY <1>2, <3>1 DEF QueuesOK, Lined, SupTasks, OnbTasks, SupTask, OnbTask
    <2>4. QED
      BY <2>1, <2>2, <2>3 DEF ExecutorsAdvance
  <1>3. QED
    BY <1>1, <1>2, ProcessesHoldTheirLocks, PTL
=============================================================================
