--------------------- MODULE ConversationRoutingProofs ---------------------
(***************************************************************************)
(* Proofs about ConversationRouting: what an import leaves behind, when a    *)
(* part is posted again, when an own message comes back as a foreign one,    *)
(* and who may change the link between the two sides.                       *)
(***************************************************************************)
EXTENDS ConversationRouting, TLAPS

\* Every job of the queue is a message of its own that has not returned yet.
JobsInv ==
  /\ done \subseteq seen
  /\ \A i \in 1..Len(queue) : queue[i] \in seen /\ queue[i] \notin done
  /\ \A i, j \in 1..Len(queue) : queue[i] = queue[j] => i = j

\* A part is accepted and then saved.
PostInv ==
  /\ \A p \in AllParts : posted[p] > 0 =>
       p \in imported \/ p \in unsure \/ (step \in {"contact", "save"} /\ p = Part)
  /\ \A p \in imported : posted[p] > 0
  /\ step = "post" => Part \notin imported
  /\ step \in {"contact", "save"} => posted[Part] > 0
  /\ PostedAgainOnlyIfUnsure

\* The row of an own message follows its sender, and is there for good once recorded.
SenderInv ==
  \A m \in Own :
    /\ out[m] \in {"lookup", "link", "peer", "mark"} => marker[m] = "none"
    /\ out[m] \in {"send", "sending", "record"} => marker[m] = "unknown"
    /\ m \in sent => \/ out[m] \in {"sending", "record"}
                     \/ marker[m] = "recorded"
                     \/ m \in gaveUp

\* The parts before the one at work have their rows.
LoopInv ==
  /\ step \in Loop => \A i \in 1..(part - 1) : HasRow(<<Job, i>>)
  /\ step = "upsert" => \A i \in 1..Parts[Job] : HasRow(<<Job, i>>)
  /\ \A m \in done \ dropped : \A p \in PartsOf(m) : HasRow(p)

\* An own message that is about to be imported was too slow or has no answer.
EchoInv ==
  /\ \A m \in Own : m \in seen => m \in sent
  /\ step = "recheck" /\ Job \in Own => Job \in slow \cup gaveUp \/ marker[Job] = "recorded"
  /\ step \in Loop \cup {"read"} /\ Job \in Own => Job \in slow \cup gaveUp
  /\ EchoIsNotImported

\* The chat of the answer is on its way to the row, and copies that are not old
\* agree with it.
LinkInv ==
  /\ row.amo = None /\ ~unlinked =>
       \A p \in imported \ Unnamed :
         step \in Loop /\ p \in PartsOf(Job) /\ copy.amo # None
  /\ step \in {"contact", "save"} /\ Part \notin Unnamed => copy.amo # None
  /\ step \in Loop /\ None \notin stale /\ row.amo # None => copy.amo = row.amo
  /\ \A m \in Own :
       /\ out[m] \in {"link", "peer"} => outCopy[m].amo = ChatOf[m]
       /\ out[m] = "peer" /\ m \notin stale => row.amo = ChatOf[m]

RoutingInv ==
  RoutingTypeOK /\ JobsInv /\ PostInv /\ SenderInv /\ LoopInv /\ EchoInv /\ LinkInv

-----------------------------------------------------------------------------
LEMMA JobFacts ==
  ASSUME RoutingTypeOK, step # "idle" \/ queue # << >>
  PROVE  /\ queue # << >> /\ Len(queue) >= 1
         /\ Job \in Messages /\ Job = queue[1]
         /\ Parts[Job] \in Nat \ {0}
         /\ part \in 1..Parts[Job]
         /\ Part \in PartsOf(Job) /\ Part \in AllParts
  <1> USE RoutingAssumption DEF RoutingTypeOK
  <1>1. queue # << >> /\ queue \in Seq(Messages)
    OBVIOUS
  <1>2. Len(queue) >= 1 /\ Job = queue[1] /\ Job \in Messages
    BY <1>1 DEF Job
  <1>3. Parts[Job] \in Nat \ {0}
    BY <1>2
  <1>4. part \in 1..Parts[Job]
    BY <1>3 DEF Loop
  <1>5. Part \in PartsOf(Job) /\ Part \in AllParts
    BY <1>2, <1>4 DEF Part, PartsOf, AllParts
  <1>6. QED
    BY <1>1, <1>2, <1>3, <1>4, <1>5

LEMMA PartFacts ==
  /\ \A m \in Messages, i \in Nat : <<m, i>> \in PartsOf(m) <=> i \in 1..Parts[m]
  /\ \A m \in Messages : PartsOf(m) \subseteq AllParts
  /\ \A m : \A p \in PartsOf(m) : p[1] = m
  /\ \A m \in Own : PartsOf(m) = {<<m, 1>>} /\ <<m, 1>> \in AllParts
  BY RoutingAssumption DEF PartsOf, AllParts, Messages

\* A job is appended behind the one at work.
LEMMA AppendFacts ==
  ASSUME RoutingTypeOK, NEW m \in Messages
  PROVE  /\ Append(queue, m) \in Seq(Messages) /\ Append(queue, m) # << >>
         /\ Len(Append(queue, m)) = Len(queue) + 1
         /\ \A i \in 1..Len(queue) : Append(queue, m)[i] = queue[i]
         /\ Append(queue, m)[Len(queue) + 1] = m
         /\ queue # << >> => Head(Append(queue, m)) = Head(queue)
  <1>1. queue \in Seq(Messages)
    BY DEF RoutingTypeOK
  <1>2. /\ Append(queue, m) \in Seq(Messages) /\ Append(queue, m) # << >>
        /\ Len(Append(queue, m)) = Len(queue) + 1
        /\ \A i \in 1..Len(queue) : Append(queue, m)[i] = queue[i]
        /\ Append(queue, m)[Len(queue) + 1] = m
    BY <1>1
  <1>3. ASSUME queue # << >>
        PROVE  Head(Append(queue, m)) = Head(queue)
    <2>1. 1 \in 1..Len(queue)
      BY <1>1, <1>3
    <2>2. Append(queue, m)[1] = queue[1]
      BY <1>2, <2>1
    <2>3. QED
      BY <1>1, <1>2, <1>3, <2>2
  <1>4. QED
    BY <1>2, <1>3

LEMMA TailFacts ==
  ASSUME RoutingTypeOK, queue # << >>
  PROVE  /\ Tail(queue) \in Seq(Messages)
         /\ Len(Tail(queue)) = Len(queue) - 1
         /\ \A i \in 1..Len(Tail(queue)) : Tail(queue)[i] = queue[i + 1]
  BY DEF RoutingTypeOK

\* A recorded own message stays recorded, and rows of parts are never removed.
LEMMA RowsStay ==
  RoutingTypeOK /\ SenderInv /\ [RoutingNext]_routingVars =>
    /\ imported \subseteq imported'
    /\ \A m \in Own : marker[m] = "recorded" => marker'[m] = "recorded"
    /\ \A p : HasRow(p) => HasRow(p)'
  <1> SUFFICES ASSUME RoutingTypeOK, SenderInv, [RoutingNext]_routingVars
               PROVE  /\ imported \subseteq imported'
                      /\ \A m \in Own : marker[m] = "recorded" => marker'[m] = "recorded"
    BY DEF HasRow
  <1> USE DEF RoutingTypeOK, SenderInv
  <1>1. ASSUME NEW m \in Messages, Update(m)
        PROVE  UNCHANGED <<imported, marker>>
    BY <1>1 DEF Update
  <1>2. CASE ImportStep
    BY <1>2
    DEF ImportStep, StartImport, Check, WaitOver, Recheck, ReadConversation, FindPart,
        PostPart, FindContact, SavePart, SaveConversation, ImportFails
  <1>3. ASSUME NEW m \in Own, SenderStep(m)
        PROVE  /\ UNCHANGED imported
               /\ \A n \in Own : marker[n] = "recorded" => marker'[n] = "recorded"
    BY <1>3
    DEF SenderStep, StartSender, LookUp, LinkChat, FindPeer, Mark, Send, TelegramAccepts,
        Answer, Record, SetUpFails, SenderFails, ForgetSent
  <1>4. CASE Crash \/ UNCHANGED routingVars
    BY <1>4 DEF Crash, routingVars
  <1>5. QED
    BY <1>1, <1>2, <1>3, <1>4 DEF RoutingNext

\* What the steps of a sender leave alone.
LEMMA SenderFrame ==
  ASSUME NEW m \in Own, SenderStep(m)
  PROVE  UNCHANGED <<imported, importVars, posted, seen, dropped, unsure, unlinked, slow>>
  BY DEF SenderStep, StartSender, LookUp, LinkChat, FindPeer, Mark, Send, TelegramAccepts,
         Answer, Record, SetUpFails, SenderFails, ForgetSent, importVars, adapterVars, history

\* What the steps of an import leave alone.
LEMMA ImportFrame ==
  ImportStep => UNCHANGED <<marker, senderVars, adapterVars, gaveUp>>
  BY DEF ImportStep, StartImport, Check, WaitOver, Recheck, ReadConversation, FindPart,
         PostPart, FindContact, SavePart, SaveConversation, ImportFails, Elsewhere,
         senderVars, adapterVars, history

-----------------------------------------------------------------------------
LEMMA RoutingInvInit == RoutingInit => RoutingInv
  <1> SUFFICES ASSUME RoutingInit
               PROVE  RoutingInv
    OBVIOUS
  <1> USE RoutingAssumption DEF RoutingInit, NoRow
  <1>1. RoutingTypeOK
    BY DEF RoutingTypeOK, Rows, Loop, Marks, OutSteps
  <1>2. JobsInv /\ SenderInv /\ LoopInv /\ EchoInv /\ LinkInv
    BY DEF JobsInv, SenderInv, LoopInv, EchoInv, EchoIsNotImported, LinkInv, Loop
  <1>3. PostInv
    BY DEF PostInv, PostedAgainOnlyIfUnsure
  <1>4. QED
    BY <1>1, <1>2, <1>3 DEF RoutingInv

\* A writer's copy and the row are rows.
LEMMA UpsertFacts ==
  ASSUME row \in Rows, NEW c \in Rows, Upsert(c)
  PROVE  /\ row' \in Rows
         /\ row'.amo = Coalesce(c.amo, row.amo)
         /\ row.amo # None => row'.amo # None
         /\ c.amo # None => row'.amo = c.amo
         /\ row.peer # None => row'.peer # None
  BY RoutingAssumption DEF Upsert, Rows, Coalesce

LEMMA ImportType ==
  ASSUME RoutingTypeOK, ImportStep
  PROVE  RoutingTypeOK'
  <1> USE RoutingAssumption, PartFacts DEF RoutingTypeOK
  <1>a. /\ marker' = marker /\ out' = out /\ outCopy' = outCopy
        /\ recentlySent' = recentlySent /\ sent' = sent /\ seen' = seen /\ gaveUp' = gaveUp
    BY ImportFrame DEF senderVars, adapterVars
  <1>b. /\ copy' \in Rows /\ row' \in Rows
    <2>1. UNCHANGED copy \/ copy' = NoRow \/ ReadConversation \/ PostPart
      BY DEF ImportStep, StartImport, Check, WaitOver, Recheck, FindPart, FindContact,
             SavePart, SaveConversation, ImportFails, GoTo, EndImport
    <2>2. NoRow \in Rows
      BY DEF NoRow, Rows
    <2>3. ASSUME ReadConversation
          PROVE  copy' \in Rows
      BY <2>3 DEF ReadConversation, Rows, Coalesce
    <2>4. ASSUME PostPart
          PROVE  copy' \in Rows
      BY <2>4 DEF PostPart, Rows, Coalesce, NamedChat, Chats
    <2>5. UNCHANGED row \/ Upsert(copy)
      BY DEF ImportStep, StartImport, Check, WaitOver, Recheck, ReadConversation, FindPart,
             PostPart, FindContact, SavePart, SaveConversation, ImportFails
    <2>6. QED
      BY <2>1, <2>2, <2>3, <2>4, <2>5, UpsertFacts
  <1>c. /\ stale' \subseteq Own \cup {None} /\ slow' \subseteq Own
        /\ dropped' \subseteq Messages
    BY JobFacts
    DEF ImportStep, StartImport, Check, WaitOver, Recheck, ReadConversation, FindPart,
        PostPart, FindContact, SavePart, SaveConversation, ImportFails, WrittenBy, history
  <1>d. imported' \subseteq AllParts /\ unsure' \subseteq AllParts
    BY JobFacts
    DEF ImportStep, StartImport, Check, WaitOver, Recheck, ReadConversation, FindPart,
        PostPart, FindContact, SavePart, SaveConversation, ImportFails, Interrupted, history
  <1>e. posted' \in [AllParts -> 0..MaxPosts]
    <2>1. UNCHANGED posted \/ (step # "idle" /\ Accept(Part))
      BY DEF ImportStep, StartImport, Check, WaitOver, Recheck, ReadConversation, FindPart,
             PostPart, FindContact, SavePart, SaveConversation, ImportFails
    <2>2. CASE step # "idle" /\ Accept(Part)
      <3>1. Part \in AllParts /\ posted[Part] \in 0..MaxPosts /\ posted[Part] < MaxPosts
        BY <2>2, JobFacts DEF Accept
      <3>2. posted[Part] + 1 \in 0..MaxPosts
        BY <3>1
      <3>3. QED
        BY <2>2, <3>1, <3>2 DEF Accept
    <2>3. QED
      BY <2>1, <2>2
  <1>f. /\ queue' \in Seq(Messages) /\ done' \subseteq Messages
        /\ step' \in {"idle", "check", "wait", "recheck"} \cup Loop \cup {"read"}
        /\ step' \notin Loop => part' = 1
        /\ step' # "idle" => queue' # << >> /\ part' \in 1..Parts[Head(queue')]
    <2>1. CASE EndImport
      BY <2>1, JobFacts, TailFacts
      DEF EndImport, ImportStep, StartImport, Check, WaitOver, Recheck, ReadConversation,
          FindPart, PostPart, FindContact, SavePart, SaveConversation, ImportFails, GoTo
    <2>2. CASE StartImport /\ ~EndImport
      BY <2>2, JobFacts DEF StartImport, GoTo, Job, Loop
    <2>3. CASE /\ ~EndImport
               /\ Check \/ WaitOver \/ Recheck \/ ReadConversation \/ PostPart \/ FindContact
      BY <2>3, JobFacts
      DEF Check, WaitOver, Recheck, ReadConversation, PostPart, FindContact, GoTo, Loop, Job
    <2>4. CASE FindPart \/ SavePart
      BY <2>4, JobFacts DEF FindPart, SavePart, NextPart, GoTo, Loop, Job
    <2>5. CASE ImportFails
      BY <2>5, JobFacts, TailFacts DEF ImportFails
    <2>6. QED
      BY <2>1, <2>2, <2>3, <2>4, <2>5 DEF ImportStep, SaveConversation
  <1>1. QED
    BY <1>a, <1>b, <1>c, <1>d, <1>e, <1>f DEF Job

LEMMA ExceptType ==
  ASSUME NEW S, NEW T, NEW f \in [S -> T], NEW x \in S, NEW v \in T
  PROVE  [f EXCEPT ![x] = v] \in [S -> T]
  OBVIOUS

LEMMA SenderMoves ==
  ASSUME NEW m \in Own, SenderStep(m), out \in [Own -> OutSteps], marker \in [Own -> Marks]
  PROVE  out' \in [Own -> OutSteps] /\ marker' \in [Own -> Marks]
  <1>1. ASSUME out' = out
        PROVE  out' \in [Own -> OutSteps]
    BY <1>1
  <1>2. ASSUME NEW s \in OutSteps, SenderAt(m, s)
        PROVE  out' \in [Own -> OutSteps]
    BY <1>2, ExceptType DEF SenderAt
  <1>3. out' = out \/ \E s \in OutSteps : SenderAt(m, s)
    BY DEF SenderStep, StartSender, LookUp, LinkChat, FindPeer, Mark, Send, TelegramAccepts,
           Answer, Record, SetUpFails, SenderFails, ForgetSent, senderVars, OutSteps
  <1>4. ASSUME NEW s \in Marks, marker' = [marker EXCEPT ![m] = s]
        PROVE  marker' \in [Own -> Marks]
    BY <1>4, ExceptType
  <1>5. marker' = marker \/ \E s \in Marks : marker' = [marker EXCEPT ![m] = s]
    BY DEF SenderStep, StartSender, LookUp, LinkChat, FindPeer, Mark, Send, TelegramAccepts,
           Answer, Record, SetUpFails, SenderFails, ForgetSent, Marks
  <1>6. QED
    BY <1>1, <1>2, <1>3, <1>4, <1>5

LEMMA LookUpCopies ==
  ASSUME NEW m \in Own, LookUp(m), outCopy \in [Own -> Rows], row \in Rows
  PROVE  outCopy' \in [Own -> Rows]
  <1>1. ASSUME NEW v \in Rows, outCopy' = [outCopy EXCEPT ![m] = v]
        PROVE  outCopy' \in [Own -> Rows]
    BY <1>1, ExceptType
  <1>2. \A peer \in {None, Secret} : [exists |-> TRUE, amo |-> ChatOf[m], peer |-> peer] \in Rows
    BY RoutingAssumption DEF Rows
  <1>3. outCopy' = outCopy \/ \E v \in Rows : outCopy' = [outCopy EXCEPT ![m] = v]
    BY <1>2 DEF LookUp
  <1>4. QED
    BY <1>1, <1>3

LEMMA SenderType ==
  ASSUME RoutingTypeOK, NEW m \in Own, SenderStep(m)
  PROVE  RoutingTypeOK'
  <1> USE RoutingAssumption DEF RoutingTypeOK
  <1>a. UNCHANGED <<imported, importVars, posted, seen, dropped, unsure, unlinked, slow>>
    BY SenderFrame
  <1>b. ASSUME SaveLink(m) \/ SavePeer(m)
        PROVE  row' \in Rows /\ outCopy' \in [Own -> Rows] /\ stale' \subseteq Own \cup {None}
    <2>1. outCopy[m] \in Rows
      OBVIOUS
    <2>2. CASE SaveLink(m)
      BY <2>1, <2>2, UpsertFacts DEF SaveLink, WrittenBy
    <2>3. CASE SavePeer(m) /\ outCopy[m].peer # Secret
      <3>1. [outCopy[m] EXCEPT !.peer = Secret] \in Rows
        BY <2>1 DEF Rows
      <3>2. outCopy' = [outCopy EXCEPT ![m] = [outCopy[m] EXCEPT !.peer = Secret]]
        BY <2>3 DEF SavePeer
      <3>3. outCopy' \in [Own -> Rows] /\ outCopy'[m] \in Rows
        BY <3>1, <3>2
      <3>4. QED
        BY <2>3, <3>3, UpsertFacts DEF SavePeer, WrittenBy
    <2>4. CASE SavePeer(m) /\ outCopy[m].peer = Secret
      BY <2>4 DEF SavePeer
    <2>5. QED
      BY <1>b, <2>2, <2>3, <2>4
  <1>c. /\ row' \in Rows /\ outCopy' \in [Own -> Rows] /\ stale' \subseteq Own \cup {None}
    <2>1. CASE LookUp(m)
      BY <2>1, LookUpCopies DEF LookUp
    <2>2. CASE UNCHANGED <<row, outCopy, stale>> \/ SaveLink(m) \/ SavePeer(m)
      BY <2>2, <1>b
    <2>3. QED
      BY <2>1, <2>2
      DEF SenderStep, StartSender, LinkChat, FindPeer, Mark, Send, TelegramAccepts,
          Answer, Record, SetUpFails, SenderFails, ForgetSent, history, senderVars
  <1>d. out' \in [Own -> OutSteps] /\ marker' \in [Own -> Marks]
    BY SenderMoves
  <1>e. recentlySent' \subseteq Own /\ sent' \subseteq Own /\ gaveUp' \subseteq Own
    BY DEF SenderStep, StartSender, LookUp, LinkChat, FindPeer, Mark, Send, TelegramAccepts,
           Answer, Record, SetUpFails, SenderFails, ForgetSent, adapterVars, history
  <1>1. QED
    BY <1>a, <1>c, <1>d, <1>e DEF importVars, Job

LEMMA TypeNext == RoutingTypeOK /\ [RoutingNext]_routingVars => RoutingTypeOK'
  <1> SUFFICES ASSUME RoutingTypeOK, [RoutingNext]_routingVars
               PROVE  RoutingTypeOK'
    OBVIOUS
  <1>1. ASSUME NEW m \in Messages, Update(m)
        PROVE  RoutingTypeOK'
    BY <1>1, AppendFacts DEF Update, RoutingTypeOK, senderVars, history, Job
  <1>2. CASE Crash
    <2>1. NoRow \in Rows
      BY DEF NoRow, Rows
    <2>2. unsure' \subseteq AllParts
      BY <1>2, JobFacts DEF Crash, Interrupted, RoutingTypeOK
    <2>3. QED
      BY <1>2, <2>1, <2>2 DEF Crash, RoutingTypeOK, Running, OutSteps
  <1>3. CASE UNCHANGED routingVars
    BY <1>3 DEF routingVars, RoutingTypeOK, importVars, senderVars, adapterVars, history, Job
  <1>4. QED
    BY <1>1, <1>2, <1>3, ImportType, SenderType DEF RoutingNext

-----------------------------------------------------------------------------
\* What happens to the queue: nothing, a new job behind it, or its head returns
\* or is given up.
LEMMA QueueSteps ==
  RoutingTypeOK /\ [RoutingNext]_routingVars =>
    \/ UNCHANGED <<queue, done, seen>>
    \/ \E m \in Messages : Update(m)
    \/ queue # << >> /\ queue' = Tail(queue) /\ done' \subseteq done \cup {Job} /\ seen' = seen
  <1> SUFFICES ASSUME RoutingTypeOK, [RoutingNext]_routingVars
               PROVE  \/ UNCHANGED <<queue, done, seen>>
                      \/ \E m \in Messages : Update(m)
                      \/ /\ queue # << >> /\ queue' = Tail(queue)
                         /\ done' \subseteq done \cup {Job} /\ seen' = seen
    OBVIOUS
  <1>1. CASE ImportStep
    <2>1. seen' = seen
      BY <1>1, ImportFrame DEF adapterVars
    <2>2. \/ UNCHANGED <<queue, done>>
          \/ queue # << >> /\ queue' = Tail(queue) /\ done' \subseteq done \cup {Job}
      BY <1>1, JobFacts
      DEF ImportStep, StartImport, Check, WaitOver, Recheck, ReadConversation, FindPart,
          PostPart, FindContact, SavePart, SaveConversation, ImportFails, GoTo, EndImport
    <2>3. QED
      BY <2>1, <2>2
  <1>2. ASSUME NEW m \in Own, SenderStep(m)
        PROVE  UNCHANGED <<queue, done, seen>>
    BY <1>2, SenderFrame DEF importVars
  <1>3. CASE Crash \/ UNCHANGED routingVars
    BY <1>3 DEF Crash, routingVars, importVars, adapterVars
  <1>4. QED
    BY <1>1, <1>2, <1>3 DEF RoutingNext

LEMMA JobsNext ==
  RoutingTypeOK /\ JobsInv /\ [RoutingNext]_routingVars => JobsInv'
  <1> SUFFICES ASSUME RoutingTypeOK, JobsInv, [RoutingNext]_routingVars
               PROVE  JobsInv'
    OBVIOUS
  <1> USE DEF JobsInv
  <1>0. Len(queue) \in Nat
    BY DEF RoutingTypeOK
  <1>1. CASE UNCHANGED <<queue, done, seen>>
    BY <1>1
  <1>2. ASSUME NEW m \in Messages, Update(m)
        PROVE  JobsInv'
    <2>1. queue' = Append(queue, m) /\ seen' = seen \cup {m} /\ m \notin seen /\ done' = done
      BY <1>2 DEF Update
    <2>2. QED
      BY <1>0, <2>1, AppendFacts
  <1>3. CASE /\ queue # << >> /\ queue' = Tail(queue)
             /\ done' \subseteq done \cup {Job} /\ seen' = seen
    <2>1. Len(queue) >= 1 /\ Job = queue[1]
      BY <1>3, JobFacts
    <2>2. QED
      BY <1>0, <1>3, <2>1, TailFacts
  <1>4. QED
    BY <1>1, <1>2, <1>3, QueueSteps

LEMMA SenderNext ==
  RoutingTypeOK /\ SenderInv /\ [RoutingNext]_routingVars => SenderInv'
  <1> SUFFICES ASSUME RoutingTypeOK, SenderInv, [RoutingNext]_routingVars
               PROVE  SenderInv'
    OBVIOUS
  <1> USE DEF RoutingTypeOK, SenderInv
  <1>1. ASSUME NEW m \in Messages, Update(m)
        PROVE  SenderInv'
    BY <1>1 DEF Update, senderVars, history
  <1>2. CASE ImportStep
    BY <1>2, ImportFrame DEF senderVars, adapterVars
  <1>3. ASSUME NEW m \in Own, SenderStep(m)
        PROVE  SenderInv'
    <2>1. CASE StartSender(m) \/ LookUp(m) \/ LinkChat(m) \/ FindPeer(m)
      BY <2>1 DEF StartSender, LookUp, LinkChat, FindPeer, SenderAt, adapterVars, history
    <2>2. CASE Mark(m) \/ Send(m) \/ TelegramAccepts(m)
      BY <2>2 DEF Mark, Send, TelegramAccepts, SenderAt, adapterVars, senderVars, history
    <2>3. CASE Answer(m) \/ Record(m) \/ ForgetSent(m)
      BY <2>3 DEF Answer, Record, ForgetSent, SenderAt, adapterVars, senderVars, history
    <2>4. CASE SetUpFails(m)
      BY <2>4 DEF SetUpFails, SenderAt, adapterVars
    <2>5. CASE SenderFails(m)
      BY <2>5 DEF SenderFails, SenderAt
    <2>6. QED
      BY <1>3, <2>1, <2>2, <2>3, <2>4, <2>5 DEF SenderStep
  <1>4. CASE Crash
    BY <1>4 DEF Crash, Running, OutSteps
  <1>5. CASE UNCHANGED routingVars
    BY <1>5 DEF routingVars, senderVars, adapterVars, history
  <1>6. QED
    BY <1>1, <1>2, <1>3, <1>4, <1>5 DEF RoutingNext

LEMMA PostNext ==
  RoutingTypeOK /\ PostInv /\ [RoutingNext]_routingVars => PostInv'
  <1> SUFFICES ASSUME RoutingTypeOK, PostInv, [RoutingNext]_routingVars
               PROVE  PostInv'
    OBVIOUS
  <1> USE DEF PostInv, PostedAgainOnlyIfUnsure
  <1>0. /\ posted \in [AllParts -> 0..MaxPosts] /\ imported \subseteq AllParts
        /\ step # "idle" => Part \in AllParts
    BY JobFacts DEF RoutingTypeOK
  <1>1. ASSUME NEW m \in Messages, Update(m)
        PROVE  PostInv'
    <2>1. UNCHANGED <<posted, imported, unsure, step, part>>
      BY <1>1 DEF Update, history
    <2>2. step # "idle" => Part' = Part
      BY <1>1, <2>1, AppendFacts, JobFacts DEF Update, Part, Job
    <2>3. QED
      BY <2>1, <2>2
  <1>2. ASSUME UNCHANGED <<posted, imported, unsure>>, step' \notin {"post", "contact", "save"},
               step \notin {"contact", "save"}
        PROVE  PostInv'
    BY <1>2
  <1>3. CASE StartImport \/ Check \/ WaitOver \/ Recheck \/ ReadConversation \/ SaveConversation
    BY <1>2, <1>3
    DEF StartImport, Check, WaitOver, Recheck, ReadConversation, SaveConversation, GoTo,
        EndImport, history
  <1>4. CASE FindPart
    BY <1>0, <1>4 DEF FindPart, NextPart, GoTo, HasRow, Part, Job, history
  <1>5. CASE PostPart
    <2>1. Part' = Part /\ step' \in {"contact", "save"} /\ UNCHANGED <<imported, unsure>>
      BY <1>5 DEF PostPart, Part, Job, history
    <2>2. posted' = [posted EXCEPT ![Part] = @ + 1] /\ step = "post"
      BY <1>5 DEF PostPart, Accept
    <2>3. QED
      BY <1>0, <2>1, <2>2
  <1>6. CASE FindContact
    BY <1>0, <1>6 DEF FindContact, GoTo, Part, Job, history
  <1>7. CASE SavePart
    BY <1>0, <1>7 DEF SavePart, NextPart, history
  <1>8. CASE ImportFails
    <2>1. step' = "idle" /\ step # "idle"
      BY <1>8 DEF ImportFails
    <2>2. CASE Interrupted /\ UNCHANGED <<imported, posted>>
      BY <1>0, <2>1, <2>2 DEF Interrupted
    <2>3. CASE /\ step = "post" /\ Accept(Part) /\ unsure' = unsure \cup {Part}
               /\ UNCHANGED imported
      BY <1>0, <2>1, <2>3 DEF Accept
    <2>4. CASE step = "save" /\ imported' = imported \cup {Part} /\ UNCHANGED <<posted, unsure>>
      BY <1>0, <2>1, <2>4
    <2>5. CASE step = "upsert" /\ UNCHANGED <<imported, posted, unsure>>
      BY <2>1, <2>5
    <2>6. QED
      BY <1>8, <2>2, <2>3, <2>4, <2>5 DEF ImportFails
  <1>9. ASSUME NEW m \in Own, SenderStep(m)
        PROVE  PostInv'
    BY <1>9, SenderFrame DEF importVars, Part, Job
  <1>10. CASE Crash
    BY <1>0, <1>10 DEF Crash, Interrupted
  <1>11. CASE UNCHANGED routingVars
    BY <1>11 DEF routingVars, importVars, history, Part, Job
  <1>12. QED
    BY <1>1, <1>3, <1>4, <1>5, <1>6, <1>7, <1>8, <1>9, <1>10, <1>11
    DEF RoutingNext, ImportStep

\* HasRow after the step, of a part named before it.
HasRowNext(p) == p \in imported' \/ (p[1] \in Own /\ marker'[p[1]] = "recorded")

LEMMA LoopNext ==
  /\ RoutingTypeOK /\ SenderInv /\ LoopInv /\ [RoutingNext]_routingVars
  => LoopInv'
  <1> SUFFICES ASSUME RoutingTypeOK, SenderInv, LoopInv, [RoutingNext]_routingVars
               PROVE  LoopInv'
    OBVIOUS
  <1>s. \A p : (HasRow(p) => HasRowNext(p)) /\ (HasRowNext(p) <=> HasRow(p)')
    BY RowsStay DEF HasRow, HasRowNext
  <1> USE DEF LoopInv, Loop
  <1>0. /\ step # "idle" => Parts[Job] \in Nat \ {0} /\ part \in 1..Parts[Job] /\ Job \in Messages
        /\ step \notin Loop => part = 1
    BY JobFacts DEF RoutingTypeOK
  <1>a. ASSUME Job' = Job,
               step' \in Loop => \A i \in 1..(part' - 1) : HasRowNext(<<Job, i>>),
               step' = "upsert" => \A i \in 1..Parts[Job] : HasRowNext(<<Job, i>>),
               \A m \in done' \ dropped' : \A p \in PartsOf(m) : HasRowNext(p)
        PROVE  LoopInv'
    BY <1>s, <1>a DEF HasRow, HasRowNext
  <1>1. ASSUME Job' = Job, part' = part, UNCHANGED <<done, dropped>>,
               step' \in Loop => step \in Loop, step' = "upsert" => step = "upsert"
        PROVE  LoopInv'
    <2>1. step' \in Loop => \A i \in 1..(part' - 1) : HasRowNext(<<Job, i>>)
      BY <1>1, <1>s
    <2>2. step' = "upsert" => \A i \in 1..Parts[Job] : HasRowNext(<<Job, i>>)
      BY <1>1, <1>s
    <2>3. \A m \in done' \ dropped' : \A p \in PartsOf(m) : HasRowNext(p)
      BY <1>1, <1>s
    <2>4. QED
      BY <1>1, <1>a, <2>1, <2>2, <2>3
  <1>2. ASSUME step' \notin Loop,
               \A m \in done' \ dropped' :
                 m \in done \ dropped \/ \A p \in PartsOf(m) : HasRow(p)
        PROVE  LoopInv'
    BY <1>2, <1>s
  <1>3. ASSUME NEW m \in Messages, Update(m)
        PROVE  LoopInv'
    <2>1. UNCHANGED <<step, part, done, dropped>>
      BY <1>3 DEF Update, history
    <2>2. CASE step = "idle"
      BY <1>2, <2>1, <2>2
    <2>3. CASE step # "idle"
      <3>1. Job' = Job
        BY <1>3, <2>3, AppendFacts, JobFacts DEF Update, Job
      <3>2. QED
        BY <1>1, <2>1, <3>1
    <2>4. QED
      BY <2>2, <2>3
  <1>4. CASE StartImport
    BY <1>2, <1>4 DEF StartImport, GoTo, EndImport
  <1>5. CASE Check \/ Recheck
    <2>1. CASE HasWholeRow(Job) /\ EndImport
      <3>1. \A p \in PartsOf(Job) : HasRow(p)
        BY <2>1 DEF HasWholeRow, PartsOf
      <3>2. dropped' = dropped /\ done' = done \cup {Job} /\ step' = "idle"
        BY <1>5, <2>1 DEF Check, Recheck, EndImport, history
      <3>3. QED
        BY <1>2, <3>1, <3>2
    <2>2. CASE GoTo("wait") \/ GoTo("read")
      BY <1>2, <1>5, <2>2 DEF Check, Recheck, GoTo, history
    <2>3. QED
      BY <1>5, <2>1, <2>2 DEF Check, Recheck
  <1>6. CASE WaitOver
    BY <1>2, <1>6 DEF WaitOver, GoTo
  <1>7. CASE ReadConversation
    <2>1. part' = part /\ Job' = Job /\ done' = done /\ dropped' = dropped /\ step' = "find"
      BY <1>7 DEF ReadConversation, Job
    <2>2. part = 1
      BY <1>0, <1>7 DEF ReadConversation
    <2>3. QED
      BY <1>a, <1>s, <2>1, <2>2
  <1>8. ASSUME NextPart, HasRowNext(Part), Job' = Job, UNCHANGED <<done, dropped>>, step \in Loop
        PROVE  LoopInv'
    <2>1. \A i \in 1..part : HasRowNext(<<Job, i>>)
      <3>1. \A i \in 1..part : i \in 1..(part - 1) \/ i = part
        BY <1>0, <1>8
      <3>2. QED
        BY <1>8, <1>s, <3>1 DEF Part
    <2>2. \A m \in done' \ dropped' : \A p \in PartsOf(m) : HasRowNext(p)
      BY <1>8, <1>s
    <2>3. part \in 1..Parts[Job] /\ Parts[Job] \in Nat
      BY <1>0, <1>8
    <2>4. CASE part = Parts[Job] /\ UNCHANGED part /\ step' = "upsert"
      BY <1>8, <1>a, <2>1, <2>2, <2>3, <2>4
    <2>5. CASE part' = part + 1 /\ step' = "find"
      BY <1>8, <1>a, <2>1, <2>2, <2>3, <2>5
    <2>6. QED
      BY <1>8, <2>4, <2>5 DEF NextPart
  <1>9. CASE FindPart
    <2>1. Job' = Job /\ UNCHANGED <<done, dropped>> /\ step = "find"
      BY <1>9 DEF FindPart, GoTo, NextPart, Job, history
    <2>2. CASE HasRow(Part)
      BY <1>8, <1>9, <1>s, <2>1, <2>2 DEF FindPart
    <2>3. CASE ~HasRow(Part)
      BY <1>1, <1>9, <2>1, <2>3 DEF FindPart, GoTo
    <2>4. QED
      BY <2>2, <2>3
  <1>10. CASE PostPart \/ FindContact
    BY <1>1, <1>10 DEF PostPart, FindContact, GoTo, Job, history
  <1>11. CASE SavePart
    BY <1>8, <1>11 DEF SavePart, HasRowNext, Job, history
  <1>12. CASE SaveConversation
    <2>1. \A p \in PartsOf(Job) : HasRow(p)
      BY <1>12 DEF SaveConversation, PartsOf
    <2>2. step' = "idle" /\ done' = done \cup {Job} /\ dropped' = dropped
      BY <1>12 DEF SaveConversation, EndImport
    <2>3. QED
      BY <1>2, <2>1, <2>2
  <1>13. CASE ImportFails
    BY <1>2, <1>13 DEF ImportFails
  <1>14. ASSUME NEW m \in Own, SenderStep(m)
         PROVE  LoopInv'
    BY <1>1, <1>14, SenderFrame DEF importVars, Job
  <1>15. CASE Crash
    BY <1>2, <1>15 DEF Crash
  <1>16. CASE UNCHANGED routingVars
    BY <1>1, <1>16 DEF routingVars, importVars, history, Job
  <1>17. QED
    BY <1>3, <1>4, <1>5, <1>6, <1>7, <1>9, <1>10, <1>11, <1>12, <1>13, <1>14, <1>15, <1>16
    DEF RoutingNext, ImportStep

LEMMA EchoNext ==
  /\ RoutingTypeOK /\ JobsInv /\ SenderInv /\ EchoInv /\ [RoutingNext]_routingVars
  => EchoInv'
  <1> SUFFICES ASSUME RoutingTypeOK, JobsInv, SenderInv, EchoInv, [RoutingNext]_routingVars
               PROVE  EchoInv'
    OBVIOUS
  <1>j. step # "idle" \/ queue # << >> =>
          Job \in Messages /\ Job \in seen /\ queue # << >> /\ Part \in PartsOf(Job)
    BY JobFacts DEF JobsInv
  <1>o. /\ \A m \in Own : Parts[m] = 1 /\ m \notin Inbound
        /\ \A m \in Own : PartsOf(m) = {<<m, 1>>}
        /\ \A m \in Own, q \in Messages : <<m, 1>> \in PartsOf(q) => q = m
    BY RoutingAssumption, PartFacts DEF PartsOf
  <1> USE DEF EchoInv, EchoIsNotImported, Loop
  \* Nothing is imported, and the handler does not go on.
  <1>1. ASSUME sent \subseteq sent', \A m \in Own : m \in seen' => m \in seen,
               slow \subseteq slow', gaveUp \subseteq gaveUp', imported' = imported,
               \A m \in Own : marker[m] = "recorded" => marker'[m] = "recorded",
               \/ step' \in {"idle", "check", "wait"}
               \/ Job' = Job /\ step' = step
               \/ Job' = Job /\ step \in Loop \cup {"read"} /\ step' \in Loop \cup {"read"}
        PROVE  EchoInv'
    BY <1>1
  <1>2. ASSUME NEW m \in Messages, Update(m)
        PROVE  EchoInv'
    <2>1. /\ UNCHANGED <<step, part, imported, slow, gaveUp, marker, sent>>
          /\ seen' = seen \cup {m} /\ (m \in Own => m \in sent)
      BY <1>2 DEF Update, history
    <2>2. step # "idle" => Job' = Job
      BY <1>2, <1>j, AppendFacts DEF Update, Job
    <2>3. QED
      BY <2>1, <2>2
  <1>3. CASE ImportStep
    <2>1. UNCHANGED <<marker, sent, seen, gaveUp>>
      BY <1>3, ImportFrame DEF adapterVars
    <2>2. CASE StartImport
      BY <1>j, <1>o, <2>1, <2>2 DEF StartImport, GoTo, EndImport, Job
    <2>3. CASE Check
      BY <2>1, <2>3 DEF Check, GoTo, EndImport, history
    <2>4. CASE WaitOver
      <3>1. Job' = Job /\ step' = "recheck" /\ imported' = imported
        BY <2>4 DEF WaitOver, GoTo, Job
      <3>2. ASSUME Job \in Own
            PROVE  Job \in slow' \cup gaveUp \/ marker[Job] = "recorded"
        <4>1. Job \in sent
          BY <1>j, <2>4, <3>2 DEF WaitOver
        <4>2. QED
          BY <2>4, <3>2, <4>1 DEF WaitOver, SenderInv
      <3>3. slow \subseteq slow'
        BY <2>4 DEF WaitOver
      <3>4. QED
        BY <2>1, <3>1, <3>2, <3>3
    <2>5. CASE Recheck
      <3>1. CASE EndImport
        BY <2>1, <2>5, <3>1 DEF Recheck, EndImport, history
      <3>2. CASE ~HasWholeRow(Job) /\ GoTo("read")
        <4>1. Job \in Own => Job \in slow \cup gaveUp
          BY <1>o, <2>5, <3>2 DEF Recheck, HasWholeRow, HasRow
        <4>2. Job' = Job /\ step' = "read" /\ UNCHANGED <<imported, slow>>
          BY <2>5, <3>2 DEF Recheck, GoTo, Job, history
        <4>3. QED
          BY <2>1, <4>1, <4>2
      <3>3. QED
        BY <2>5, <3>1, <3>2 DEF Recheck
    <2>6. CASE ReadConversation \/ FindPart \/ PostPart \/ FindContact
      <3>1. /\ step \in Loop \cup {"read"} /\ step' \in Loop \cup {"read"} /\ Job' = Job
            /\ UNCHANGED <<imported, slow>>
        BY <2>6
        DEF ReadConversation, FindPart, PostPart, FindContact, GoTo, NextPart, Job, history
      <3>2. QED
        BY <1>1, <2>1, <3>1
    <2>7. ASSUME step \in Loop, imported' \subseteq imported \cup {Part}, slow' = slow,
                 step' = "idle" \/ (step' \in Loop /\ Job' = Job)
          PROVE  EchoInv'
      <3>1. \A m \in Own : <<m, 1>> \in imported' => m \in slow \cup gaveUp
        BY <1>j, <1>o, <2>7
      <3>2. QED
        BY <2>1, <2>7, <3>1
    <2>8. CASE SavePart
      BY <2>7, <2>8 DEF SavePart, NextPart, Job, history
    <2>9. CASE SaveConversation
      BY <1>1, <2>1, <2>9 DEF SaveConversation, EndImport
    <2>10. CASE ImportFails
      <3>1. step' = "idle" /\ slow' = slow
        BY <2>10 DEF ImportFails
      <3>2. CASE step = "save" /\ imported' = imported \cup {Part}
        BY <2>7, <3>1, <3>2
      <3>3. CASE imported' = imported
        BY <1>1, <2>1, <3>1, <3>3
      <3>4. QED
        BY <2>10, <3>2, <3>3 DEF ImportFails
    <2>11. QED
      BY <1>3, <2>2, <2>3, <2>4, <2>5, <2>6, <2>8, <2>9, <2>10 DEF ImportStep
  <1>4. ASSUME NEW m \in Own, SenderStep(m)
        PROVE  EchoInv'
    <2>1. /\ UNCHANGED <<step, seen, slow, imported>> /\ Job' = Job
      BY <1>4, SenderFrame DEF importVars, Job
    <2>2. sent \subseteq sent' /\ gaveUp \subseteq gaveUp'
      BY <1>4
      DEF SenderStep, StartSender, LookUp, LinkChat, FindPeer, Mark, Send, TelegramAccepts,
          Answer, Record, SetUpFails, SenderFails, ForgetSent, adapterVars, history
    <2>3. \A n \in Own : marker[n] = "recorded" => marker'[n] = "recorded"
      BY <1>4, RowsStay
    <2>4. QED
      BY <1>1, <2>1, <2>2, <2>3
  <1>5. CASE Crash
    BY <1>1, <1>5 DEF Crash
  <1>6. CASE UNCHANGED routingVars
    BY <1>1, <1>6 DEF routingVars, importVars, adapterVars, history, Job
  <1>7. QED
    BY <1>2, <1>3, <1>4, <1>5, <1>6 DEF RoutingNext

LEMMA LinkNext ==
  /\ RoutingTypeOK /\ LinkInv /\ [RoutingNext]_routingVars
  => LinkInv'
  <1> SUFFICES ASSUME RoutingTypeOK, LinkInv, [RoutingNext]_routingVars
               PROVE  LinkInv'
    OBVIOUS
  <1>j. step # "idle" => queue # << >> /\ Part \in PartsOf(Job)
    BY JobFacts
  <1>n. /\ None \notin Own /\ None # DefaultChat /\ \A m \in Own : ChatOf[m] # None
        /\ row \in Rows /\ copy \in Rows /\ \A m \in Own : outCopy[m] \in Rows
    BY RoutingAssumption DEF RoutingTypeOK, Messages, Chats
  <1> USE DEF LinkInv, Loop
  \* An import step: what it says about senders changes only with a write.
  <1>1. ASSUME UNCHANGED <<out, outCopy>>,
               UNCHANGED <<row, stale>> \/ Own \subseteq stale'
               \/ (row' = row /\ stale' = stale \ {None})
        PROVE  \A m \in Own :
                 /\ out'[m] \in {"link", "peer"} => outCopy'[m].amo = ChatOf[m]
                 /\ out'[m] = "peer" /\ m \notin stale' => row'.amo = ChatOf[m]
    BY <1>1, <1>n
  <1>2. ASSUME UNCHANGED <<row, stale, out, outCopy, unlinked>>, imported' = imported,
               step \notin Loop, step' \notin Loop
        PROVE  LinkInv'
    BY <1>1, <1>2
  <1>3. ASSUME UNCHANGED <<row, stale, out, outCopy, unlinked, copy>>, imported' = imported,
               Job' = Job, step \in Loop, step' \in Loop,
               step' \in {"contact", "save"} => step \in {"contact", "save"} /\ Part' = Part
        PROVE  LinkInv'
    BY <1>1, <1>3
  <1>4. ASSUME NEW m \in Messages, Update(m)
        PROVE  LinkInv'
    <2>1. UNCHANGED <<row, stale, out, outCopy, unlinked, copy, imported, step>>
      BY <1>4 DEF Update, senderVars, history
    <2>2. step # "idle" => Job' = Job /\ Part' = Part
      BY <1>4, <1>j, AppendFacts DEF Update, Job, Part
    <2>3. QED
      BY <1>1, <2>1, <2>2
  <1>5. CASE ImportStep
    <2>1. UNCHANGED <<out, outCopy>>
      BY <1>5, ImportFrame DEF senderVars
    <2>2. CASE StartImport \/ Check \/ WaitOver \/ Recheck
      BY <1>2, <2>1, <2>2
      DEF StartImport, Check, WaitOver, Recheck, GoTo, EndImport, history
    <2>3. CASE ReadConversation
      <3>1. copy'.amo = row.amo /\ step' = "find" /\ row' = row /\ unlinked' = unlinked
            /\ imported' = imported /\ stale' = stale \ {None} /\ step \notin Loop
        BY <2>3 DEF ReadConversation
      <3>2. QED
        BY <1>1, <2>1, <3>1
    <2>4. CASE FindPart \/ FindContact
      BY <1>3, <2>1, <2>4 DEF FindPart, FindContact, GoTo, NextPart, Job, Part, history
    <2>5. CASE PostPart
      <3>1. copy' = [copy EXCEPT !.amo = Coalesce(copy.amo, NamedChat(Part))]
        BY <2>5 DEF PostPart
      <3>2. copy'.amo = Coalesce(copy.amo, NamedChat(Part))
        BY <1>n, <3>1 DEF Rows
      <3>3. /\ Part \notin Unnamed => copy'.amo # None
            /\ copy.amo # None => copy'.amo = copy.amo
        BY <1>n, <3>2 DEF Coalesce, NamedChat
      <3>4. /\ UNCHANGED <<row, stale, unlinked, imported>> /\ Job' = Job /\ Part' = Part
            /\ step = "post" /\ step' \in {"contact", "save"}
        BY <2>5 DEF PostPart, Job, Part, history
      <3>5. QED
        BY <1>1, <2>1, <3>3, <3>4
    <2>6. CASE SavePart
      <3>1. /\ UNCHANGED <<row, stale, unlinked, copy>> /\ Job' = Job
            /\ step = "save" /\ step' \in {"find", "upsert"} /\ imported' = imported \cup {Part}
        BY <2>6 DEF SavePart, NextPart, Job, history
      <3>2. QED
        BY <1>1, <1>j, <2>1, <3>1
    <2>7. CASE SaveConversation
      <3>1. Own \subseteq stale' /\ step' = "idle" /\ UNCHANGED <<unlinked, imported>>
            /\ step = "upsert"
        BY <1>n, <2>7 DEF SaveConversation, EndImport, WrittenBy
      <3>2. row.amo # None \/ copy.amo # None => row'.amo # None
        BY <1>n, <2>7, UpsertFacts DEF SaveConversation
      <3>3. row'.amo = None /\ ~unlinked' => imported' \subseteq Unnamed
        BY <3>1, <3>2
      <3>4. QED
        BY <1>1, <2>1, <3>1, <3>3
    <2>8. CASE ImportFails
      <3>1. step' = "idle" /\ step # "idle"
        BY <2>8 DEF ImportFails
      <3>2. CASE /\ unlinked' = (unlinked \/ PartsOf(Job) \cap imported # {})
                 /\ UNCHANGED <<row, imported, stale>>
        <4>1. row'.amo = None /\ ~unlinked' => imported' \subseteq Unnamed
          BY <3>2
        <4>2. QED
          BY <1>1, <2>1, <3>1, <3>2, <4>1
      <3>3. CASE unlinked' = TRUE /\ UNCHANGED <<row, stale>>
        BY <1>1, <2>1, <3>1, <3>3
      <3>4. CASE step = "upsert" /\ Upsert(copy) /\ WrittenBy(None) /\ UNCHANGED <<imported, unlinked>>
        <4>1. Own \subseteq stale'
          BY <1>n, <3>4 DEF WrittenBy
        <4>2. row.amo # None \/ copy.amo # None => row'.amo # None
          BY <1>n, <3>4, UpsertFacts
        <4>3. row'.amo = None /\ ~unlinked' => imported' \subseteq Unnamed
          BY <3>4, <4>2
        <4>4. QED
          BY <1>1, <2>1, <3>1, <4>1, <4>3
      <3>5. QED
        BY <2>8, <3>1, <3>2, <3>3, <3>4 DEF ImportFails, Interrupted
    <2>9. QED
      BY <1>5, <2>2, <2>3, <2>4, <2>5, <2>6, <2>7, <2>8 DEF ImportStep
  <1>6. ASSUME NEW m \in Own, SenderStep(m)
        PROVE  LinkInv'
    <2>1. UNCHANGED <<imported, copy, step, unlinked>> /\ Job' = Job /\ Part' = Part
      BY <1>6, SenderFrame DEF importVars, Job, Part
    <2>t. out \in [Own -> OutSteps] /\ outCopy \in [Own -> Rows] /\ stale \subseteq Own \cup {None}
      BY DEF RoutingTypeOK
    \* A write of the row by this sender, with a copy of its chat.
    <2>2. ASSUME row.amo # None => row'.amo # None, row'.amo = ChatOf[m],
                 stale' = (Own \cup {None}) \ {m},
                 outCopy'[m].amo = ChatOf[m],
                 \A n \in Own \ {m} : outCopy'[n] = outCopy[n] /\ out'[n] = out[n]
          PROVE  LinkInv'
      BY <1>n, <2>1, <2>2
    <2>3. ASSUME row' = row, stale \subseteq stale' \cup {m}, stale' \subseteq stale,
                 \A n \in Own \ {m} : outCopy'[n] = outCopy[n] /\ out'[n] = out[n],
                 out'[m] \in {"link", "peer"} => outCopy'[m].amo = ChatOf[m],
                 out'[m] = "peer" /\ m \notin stale' => row.amo = ChatOf[m]
          PROVE  LinkInv'
      BY <1>n, <2>1, <2>3
    <2>4. ASSUME SaveLink(m), out[m] = "link", NEW s \in OutSteps, SenderAt(m, s)
          PROVE  LinkInv'
      <3>1. row'.amo = ChatOf[m]
        BY <1>n, <2>4, UpsertFacts DEF SaveLink
      <3>2. QED
        BY <1>n, <2>2, <2>4, <2>t, <3>1 DEF SaveLink, WrittenBy, SenderAt
    <2>5. ASSUME SavePeer(m), out[m] = "peer", NEW s \in OutSteps, s # "link", SenderAt(m, s)
          PROVE  LinkInv'
      <3>1. CASE outCopy[m].peer = Secret
        BY <2>3, <2>5, <2>t, <3>1 DEF SavePeer, SenderAt
      <3>2. CASE outCopy[m].peer # Secret
        <4>1. [outCopy[m] EXCEPT !.peer = Secret] \in Rows
          BY <1>n DEF Rows
        <4>2. outCopy' = [outCopy EXCEPT ![m] = [outCopy[m] EXCEPT !.peer = Secret]]
          BY <2>5, <3>2 DEF SavePeer
        <4>3. outCopy'[m] = [outCopy[m] EXCEPT !.peer = Secret]
          BY <2>t, <4>2
        <4>4. outCopy'[m] \in Rows /\ outCopy'[m].amo = ChatOf[m]
          BY <1>n, <2>5, <4>1, <4>3 DEF Rows
        <4>5. row'.amo = ChatOf[m]
          BY <1>n, <2>5, <3>2, <4>4, UpsertFacts DEF SavePeer
        <4>6. \A n \in Own \ {m} : outCopy'[n] = outCopy[n] /\ out'[n] = out[n]
          BY <2>5, <2>t, <4>2 DEF SenderAt
        <4>7. stale' = (Own \cup {None}) \ {m}
          BY <2>5, <3>2 DEF SavePeer, WrittenBy
        <4>8. QED
          BY <1>n, <2>2, <4>4, <4>5, <4>6, <4>7
      <3>3. QED
        BY <3>1, <3>2
    <2>6. CASE LookUp(m)
      <3>1. row' = row /\ stale' = stale \ {m}
        BY <2>6 DEF LookUp
      <3>2. \A n \in Own \ {m} : outCopy'[n] = outCopy[n] /\ out'[n] = out[n]
        BY <2>6, <2>t DEF LookUp, SenderAt
      <3>3. CASE row.amo = ChatOf[m] /\ outCopy' = [outCopy EXCEPT ![m] = row]
        BY <2>3, <2>t, <3>1, <3>2, <3>3
      <3>4. CASE SenderAt(m, "link") /\ \E peer \in {None, Secret} :
               outCopy' = [outCopy EXCEPT ![m] =
                            [exists |-> TRUE, amo |-> ChatOf[m], peer |-> peer]]
        <4>1. out'[m] = "link" /\ outCopy'[m].amo = ChatOf[m]
          BY <2>t, <3>4 DEF SenderAt
        <4>2. QED
          BY <2>3, <3>1, <3>2, <4>1
      <3>5. CASE SenderAt(m, "ended")
        <4>1. out'[m] = "ended"
          BY <2>t, <3>5 DEF SenderAt
        <4>2. QED
          BY <2>3, <3>1, <3>2, <4>1
      <3>6. QED
        BY <2>6, <3>3, <3>4, <3>5 DEF LookUp
    <2>7. CASE LinkChat(m) \/ FindPeer(m)
      BY <2>4, <2>5, <2>7 DEF LinkChat, FindPeer, OutSteps
    <2>8. CASE SetUpFails(m)
      <3>1. PICK s \in {"waiting", "ended"} : SenderAt(m, s)
        BY <2>8 DEF SetUpFails
      <3>2. CASE UNCHANGED <<row, outCopy, stale>>
        BY <2>3, <2>t, <3>1, <3>2 DEF SenderAt
      <3>3. QED
        BY <2>4, <2>5, <2>8, <3>1, <3>2 DEF SetUpFails, OutSteps
    <2>9. CASE \/ StartSender(m) \/ Mark(m) \/ Send(m) \/ TelegramAccepts(m) \/ Answer(m)
               \/ Record(m) \/ SenderFails(m) \/ ForgetSent(m)
      <3>1. UNCHANGED <<row, outCopy, stale>>
        BY <2>9 DEF StartSender, Mark, Send, TelegramAccepts, Answer, Record, SenderFails,
                    ForgetSent, senderVars, history
      <3>2. out' = out \/ \E s \in OutSteps \ {"link", "peer"} : SenderAt(m, s)
        BY <2>9 DEF StartSender, Mark, Send, TelegramAccepts, Answer, Record, SenderFails,
                    ForgetSent, senderVars, OutSteps
      <3>3. QED
        BY <2>3, <2>t, <3>1, <3>2 DEF SenderAt
    <2>10. QED
      BY <1>6, <2>6, <2>7, <2>8, <2>9 DEF SenderStep
  <1>7. CASE Crash
    <2>1. step' = "idle" /\ UNCHANGED <<row, stale, imported, outCopy>>
          /\ \A m \in Own : out'[m] \in {"link", "peer"} => out'[m] = out[m]
      BY <1>7 DEF Crash, Running
    <2>2. row'.amo = None /\ ~unlinked' => imported' \subseteq Unnamed
      BY <1>7 DEF Crash, Interrupted
    <2>3. QED
      BY <1>n, <2>1, <2>2
  <1>8. CASE UNCHANGED routingVars
    BY <1>8 DEF routingVars, importVars, senderVars, history, Job, Part
  <1>9. QED
    BY <1>4, <1>5, <1>6, <1>7, <1>8 DEF RoutingNext

-----------------------------------------------------------------------------
LEMMA RoutingInvAlways == RoutingSpec => []RoutingInv
  <1>1. RoutingInv /\ [RoutingNext]_routingVars => RoutingInv'
    BY TypeNext, JobsNext, PostNext, SenderNext, LoopNext, EchoNext, LinkNext DEF RoutingInv
  <1>2. QED
    BY RoutingInvInit, <1>1, PTL DEF RoutingSpec

\* The variables of the conversation have their types.
THEOREM RoutingType == RoutingSpec => []RoutingTypeOK
  <1>1. RoutingInv => RoutingTypeOK
    BY DEF RoutingInv
  <1>2. QED
    BY <1>1, RoutingInvAlways, PTL

\* routeInbound() and routeTelegramExternalOutbound() post a part again only when a
\* handler ended between amoCRM's acceptance and the part's row.
THEOREM PostsAreRepeatedOnlyUnsure == RoutingSpec => []PostedAgainOnlyIfUnsure
  <1>1. RoutingInv => PostedAgainOnlyIfUnsure
    BY DEF RoutingInv, PostInv
  <1>2. QED
    BY <1>1, RoutingInvAlways, PTL

\* A message whose import returned is in amoCRM with every part, whatever was retried.
THEOREM ReturnedImportsAreComplete == RoutingSpec => []ReturnedMeansImported
  <1>1. RoutingInv => ReturnedMeansImported
    BY DEF RoutingInv, PostInv, LoopInv, HasRow, ReturnedMeansImported, PartsOf
  <1>2. QED
    BY <1>1, RoutingInvAlways, PTL

\* The conversation of an imported message knows the amoCRM chat an answer named,
\* unless a handler ended between a part's row and the conversation's.
THEOREM ImportsAreLinked == RoutingSpec => []ImportedMeansLinked
  <1>1. RoutingInv => ImportedMeansLinked
    <2> SUFFICES ASSUME RoutingInv, row.amo = None, ~unlinked,
                        NEW m \in done, NEW p \in PartsOf(m), p \in imported \ Unnamed
                 PROVE  FALSE
      BY DEF ImportedMeansLinked
    <2>1. step \in Loop /\ p \in PartsOf(Job)
      BY DEF RoutingInv, LinkInv
    <2>2. Job \notin done
      BY <2>1, JobFacts DEF RoutingInv, JobsInv, Loop
    <2>3. Job = m
      BY <2>1, PartFacts
    <2>4. QED
      BY <2>2, <2>3
  <1>2. QED
    BY <1>1, RoutingInvAlways, PTL

\* An own message is imported as a foreign one only when its send was slower than the
\* wait for echoes, or nobody recorded its answer.
THEOREM EchoesAreTold == RoutingSpec => []EchoIsNotImported
  <1>1. RoutingInv => EchoIsNotImported
    BY DEF RoutingInv, EchoInv
  <1>2. QED
    BY <1>1, RoutingInvAlways, PTL

\* Who writes the row of the conversation.
LEMMA RowWrites ==
  ASSUME [RoutingNext]_routingVars
  PROVE  \/ row' = row
         \/ step = "upsert" /\ Upsert(copy)
         \/ \E m \in Own : out[m] = "link" /\ SaveLink(m)
         \/ \E m \in Own : out[m] = "peer" /\ SavePeer(m)
  <1>1. ASSUME NEW m \in Messages, Update(m)
        PROVE  row' = row
    BY <1>1 DEF Update
  <1>2. CASE ImportStep
    BY <1>2 DEF ImportStep, StartImport, Check, WaitOver, Recheck, ReadConversation,
      FindPart, PostPart, FindContact, SavePart, SaveConversation, ImportFails
  <1>3. ASSUME NEW m \in Own, SenderStep(m)
        PROVE  \/ row' = row
               \/ out[m] = "link" /\ SaveLink(m)
               \/ out[m] = "peer" /\ SavePeer(m)
    <2>1. CASE LinkChat(m) \/ FindPeer(m)
      BY <2>1 DEF LinkChat, FindPeer
    <2>2. CASE SetUpFails(m)
      <3>1. \/ UNCHANGED row
            \/ out[m] = "link" /\ SaveLink(m)
            \/ out[m] = "peer" /\ SavePeer(m)
        BY <2>2, Zenon DEF SetUpFails
      <3>2. QED
        BY <3>1, Zenon
    <2>3. CASE LookUp(m) \/ StartSender(m) \/ Mark(m) \/ Send(m) \/ TelegramAccepts(m)
      BY <2>3, Zenon DEF LookUp, StartSender, Mark, Send, TelegramAccepts
    <2>4. CASE Answer(m) \/ Record(m) \/ SenderFails(m) \/ ForgetSent(m)
      BY <2>4, Zenon DEF Answer, Record, SenderFails, ForgetSent
    <2>5. QED
      BY <1>3, <2>1, <2>2, <2>3, <2>4, Zenon DEF SenderStep
  <1>4. CASE Crash \/ UNCHANGED routingVars
    BY <1>4 DEF Crash, routingVars
  <1>5. QED
    BY <1>1, <1>2, <1>3, <1>4 DEF RoutingNext

\* The upserts of the two directions never forget the chat or the peer of a
\* conversation, and only a message of another chat, or an old copy, replaces the chat.
THEOREM LinkIsKept == RoutingSpec => LinkKept
  <1>1. ASSUME RoutingInv, [RoutingNext]_routingVars
        PROVE  LinkStep
    <2> USE <1>1 DEF RoutingInv, LinkInv, LinkStep
    <2>n. /\ \A m \in Own : ChatOf[m] # None
          /\ row \in Rows /\ copy \in Rows /\ outCopy \in [Own -> Rows]
      BY RoutingAssumption DEF RoutingTypeOK, Messages, Chats
    <2>1. CASE row' = row
      BY <2>1
    <2>2. CASE step = "upsert" /\ Upsert(copy)
      <3>1. row'.amo = Coalesce(copy.amo, row.amo)
        BY <2>2, <2>n, UpsertFacts
      <3>2. row'.amo # row.amo => row'.amo = copy.amo
        BY <3>1 DEF Coalesce
      <3>3. QED
        BY <2>2, <2>n, <3>2, UpsertFacts DEF Loop
    <2>3. ASSUME NEW m \in Own, out[m] = "link", SaveLink(m)
          PROVE  LinkStep
      <3>1. row'.amo = ChatOf[m]
        BY <2>3, <2>n, UpsertFacts DEF SaveLink
      <3>2. QED
        BY <2>3, <2>n, <3>1, UpsertFacts DEF SaveLink
    <2>4. ASSUME NEW m \in Own, out[m] = "peer", SavePeer(m), row' # row
          PROVE  LinkStep
      <3>1. outCopy' = [outCopy EXCEPT ![m] = [outCopy[m] EXCEPT !.peer = Secret]]
            /\ Upsert(outCopy'[m])
        BY <2>4 DEF SavePeer
      <3>2. outCopy'[m] = [outCopy[m] EXCEPT !.peer = Secret] /\ outCopy[m] \in Rows
        BY <2>n, <3>1
      <3>3. outCopy'[m] \in Rows /\ outCopy'[m].amo = ChatOf[m]
        BY <2>4, <3>2 DEF Rows
      <3>4. row'.amo = ChatOf[m] /\ (row.peer # None => row'.peer # None)
        BY <2>n, <3>1, <3>3, UpsertFacts
      <3>5. QED
        BY <2>4, <2>n, <3>4
    <2>5. \/ row' = row
          \/ step = "upsert" /\ Upsert(copy)
          \/ \E m \in Own : out[m] = "link" /\ SaveLink(m)
          \/ \E m \in Own : out[m] = "peer" /\ SavePeer(m)
      BY RowWrites
    <2>6. QED
      BY <2>1, <2>2, <2>3, <2>4, <2>5
  <1>2. QED
    BY <1>1, RoutingInvAlways, PTL DEF RoutingSpec, LinkKept
=============================================================================
