------------------------- MODULE ConversationRouting -------------------------
(***************************************************************************)
(* One Telegram conversation between two sides: messages from Telegram that *)
(* are imported into amoCRM (routeInbound, routeTelegramExternalOutbound),  *)
(* messages from amoCRM that are sent to Telegram (routeAmoOutbound), the   *)
(* echo of such a message in the adapter's event handler, and the rows of   *)
(* conversation_mappings and message_mappings they share                    *)
(* (src/src/router/message-router.ts, src/src/adapters/telegram-adapter.ts, *)
(* src/src/storage/postgres-store.ts).                                      *)
(*                                                                          *)
(* Import jobs of the conversation are one partition of the queue, the jobs *)
(* of an amoCRM chat another, so an import runs beside the senders of       *)
(* several chats.  The queue is the one DurableWorkers promises while no    *)
(* lease is lost: one handler per partition, in order, again after a crash. *)
(***************************************************************************)
EXTENDS Naturals, Sequences, FiniteSets

CONSTANTS
  Inbound,      \* messages of the other person
  Typed,        \* messages the account's owner types into the Telegram app
  Own,          \* messages that come from amoCRM
  Parts,        \* attachments per message; a text is one part
  ChatOf,       \* the amoCRM chat a message of Own was written in
  TextOf,       \* its text
  DefaultChat,  \* the chat amoCRM opens for a conversation it does not know
  Unnamed,      \* the parts amoCRM accepts with an answer that names no chat
  None,
  MaxPosts,     \* bound: acceptances counted per part
  MaxMishaps    \* bound: failing calls and crashes

Messages == Inbound \cup Typed \cup Own
PartsOf(m) == {<<m, i>> : i \in 1..Parts[m]}
AllParts == UNION {PartsOf(m) : m \in Messages}
Chats == {DefaultChat} \cup {ChatOf[m] : m \in Own}

Secret == "secret"

ASSUME RoutingAssumption ==
  /\ Inbound \cap Typed = {} /\ (Inbound \cup Typed) \cap Own = {}
  /\ Parts \in [Messages -> Nat \ {0}]
  /\ \A m \in Own : Parts[m] = 1
  /\ ChatOf \in [Own -> Chats] /\ DOMAIN TextOf = Own
  /\ Unnamed \subseteq AllParts
  /\ None \notin Messages \cup Chats \cup {Secret}
  /\ MaxPosts \in Nat
  /\ MaxMishaps \in Nat

VARIABLES
  \* the database
  row,        \* the conversation: whether it exists, its amoCRM chat, its peer's secret
  imported,   \* parts with a row of their own, under the provider's message id
  marker,     \* the row of a message of Own: none, unknown, recorded
  \* the import jobs and their handler
  queue,      \* waiting imports, the head is the one at work
  done,       \* imports that have returned
  step,       \* idle, check, wait, recheck, read, find, post, contact, save, upsert
  part,       \* the number of the part at work
  copy,       \* the handler's ConversationMapping
  \* the senders, one per message of Own
  out,        \* waiting, lookup, link, peer, mark, send, sending, record, ended
  outCopy,    \* their ConversationMapping
  \* the adapter and Telegram
  inFlightText,
  recentlySent,
  sent,       \* messages of Own Telegram has accepted
  seen,       \* messages that have become a job
  \* amoCRM
  posted,     \* how often a part was accepted
  mishaps,
  \* history
  dropped,    \* imports skipped because the account was not connected
  unsure,     \* parts whose handler ended between acceptance and row
  unlinked,   \* some handler ended between a part's row and its upsert
  stale,      \* writers whose copy is older than the row (None is the import)
  slow,       \* own messages that were still being sent when the wait was over
  gaveUp      \* senders that ended without knowing or recording the answer

importVars == <<queue, done, step, part, copy>>
senderVars == <<out, outCopy>>
adapterVars == <<inFlightText, recentlySent, sent, seen>>
history == <<dropped, unsure, unlinked, stale, slow, gaveUp>>
routingVars == <<row, imported, marker, importVars, senderVars, adapterVars,
                 posted, mishaps, history>>

Rows == [exists : BOOLEAN, amo : Chats \cup {None}, peer : {None, Secret}]
NoRow == [exists |-> FALSE, amo |-> None, peer |-> None]

RoutingInit ==
  /\ row = NoRow
  /\ imported = {}
  /\ marker = [m \in Own |-> "none"]
  /\ queue = << >>
  /\ done = {}
  /\ step = "idle"
  /\ part = 1
  /\ copy = NoRow
  /\ out = [m \in Own |-> "waiting"]
  /\ outCopy = [m \in Own |-> NoRow]
  /\ inFlightText = {}
  /\ recentlySent = {}
  /\ sent = {}
  /\ seen = {}
  /\ posted = [p \in AllParts |-> 0]
  /\ mishaps = 0
  /\ dropped = {}
  /\ unsure = {}
  /\ unlinked = FALSE
  /\ stale = {}
  /\ slow = {}
  /\ gaveUp = {}

Mishap == mishaps < MaxMishaps /\ mishaps' = mishaps + 1

\* INSERT ... ON CONFLICT DO UPDATE: what the writer does not know is kept.
Coalesce(new, old) == IF new = None THEN old ELSE new

Upsert(c) ==
  row' = [exists |-> TRUE, amo |-> Coalesce(c.amo, row.amo), peer |-> Coalesce(c.peer, row.peer)]

\* findMessageByMessengerId
HasRow(p) == p \in imported \/ (p[1] \in Own /\ marker[p[1]] = "recorded")

\* A message of several parts has no row under its own id.
HasWholeRow(m) == Parts[m] = 1 /\ HasRow(<<m, 1>>)

\* Everybody else now holds an old copy.
WrittenBy(w) == stale' = (Own \cup {None}) \ {w}

(***************************************************************************)
(* The adapter's event handler.  An outgoing update of a message the        *)
(* adapter is sending, or has sent, is dropped; any other becomes a job,    *)
(* and by its dedupe key only one, however often it comes.                  *)
(***************************************************************************)
Filtered(m) == m \in recentlySent \/ TextOf[m] \in inFlightText

Update(m) ==
  /\ m \notin seen
  /\ m \in Own => m \in sent /\ ~Filtered(m)
  /\ seen' = seen \cup {m}
  /\ queue' = Append(queue, m)
  /\ UNCHANGED <<row, imported, marker, done, step, part, copy, senderVars,
                 inFlightText, recentlySent, sent, posted, mishaps, history>>

\* An entry of recentlySent is two minutes old.
ForgetSent(m) ==
  /\ m \in recentlySent
  /\ recentlySent' = recentlySent \ {m}
  /\ UNCHANGED <<row, imported, marker, importVars, senderVars, inFlightText,
                 sent, seen, posted, mishaps, history>>

(***************************************************************************)
(* The import handler.                                                      *)
(***************************************************************************)
Job == Head(queue)
Part == <<Job, part>>

\* The steps of the loop over the parts, and the upsert after it.
Loop == {"find", "post", "contact", "save", "upsert"}

GoTo(s) == step' = s /\ UNCHANGED <<queue, done, part, copy>>

EndImport ==
  /\ step' = "idle"
  /\ part' = 1
  /\ copy' = NoRow
  /\ queue' = Tail(queue)
  /\ done' = done \cup {Job}

Elsewhere == UNCHANGED <<senderVars, adapterVars>>

\* The account is looked up; while it is not connected the message is skipped.
StartImport ==
  /\ step = "idle"
  /\ queue # << >>
  /\ \/ GoTo(IF Job \in Inbound THEN "read" ELSE "check") /\ UNCHANGED dropped
     \/ EndImport /\ dropped' = dropped \cup {Job}
  /\ Elsewhere
  /\ UNCHANGED <<row, imported, marker, posted, mishaps, unsure, unlinked, stale, slow, gaveUp>>

\* Mutant of Check: no wait for a send that is not recorded yet.
CheckOnce ==
  /\ step = "check"
  /\ IF HasWholeRow(Job) THEN EndImport ELSE GoTo("read")
  /\ Elsewhere
  /\ UNCHANGED <<row, imported, marker, posted, mishaps, history>>

Check ==
  /\ step = "check"
  /\ IF HasWholeRow(Job) THEN EndImport ELSE GoTo("wait")
  /\ Elsewhere
  /\ UNCHANGED <<row, imported, marker, posted, mishaps, history>>

\* externalEchoDelayMs is over.
WaitOver ==
  /\ step = "wait"
  /\ GoTo("recheck")
  /\ slow' = IF Job \in Own /\ out[Job] \in {"sending", "record"} THEN slow \cup {Job} ELSE slow
  /\ Elsewhere
  /\ UNCHANGED <<row, imported, marker, posted, mishaps, dropped, unsure, unlinked, stale, gaveUp>>

Recheck ==
  /\ step = "recheck"
  /\ IF HasWholeRow(Job) THEN EndImport ELSE GoTo("read")
  /\ Elsewhere
  /\ UNCHANGED <<row, imported, marker, posted, mishaps, history>>

\* getConversation and the peer secret of the message, if it brings one; a typed
\* message brings it only to a new conversation.
ReadConversation ==
  /\ step = "read"
  /\ step' = "find"
  /\ \E peer \in {None, Secret} :
       /\ peer = Secret => Job \in Inbound \/ ~row.exists
       /\ copy' = [exists |-> TRUE, amo |-> row.amo, peer |-> Coalesce(peer, row.peer)]
  /\ stale' = stale \ {None}
  /\ Elsewhere
  /\ UNCHANGED <<queue, done, part, row, imported, marker, posted, mishaps,
                 dropped, unsure, unlinked, slow, gaveUp>>

NextPart == IF part = Parts[Job] THEN UNCHANGED part /\ step' = "upsert"
                                 ELSE part' = part + 1 /\ step' = "find"

\* Mutants of FindPart: the row is ignored; it is saved before the part is posted.
FindNothing ==
  /\ step = "find"
  /\ GoTo("post")
  /\ Elsewhere
  /\ UNCHANGED <<row, imported, marker, posted, mishaps, history>>
FindAndSave ==
  /\ step = "find"
  /\ IF HasRow(Part) THEN NextPart /\ UNCHANGED <<queue, done, copy, imported>>
                     ELSE GoTo("post") /\ imported' = imported \cup {Part}
  /\ Elsewhere
  /\ UNCHANGED <<row, marker, posted, mishaps, history>>

FindPart ==
  /\ step = "find"
  /\ IF HasRow(Part) THEN NextPart /\ UNCHANGED <<queue, done, copy>> ELSE GoTo("post")
  /\ Elsewhere
  /\ UNCHANGED <<row, imported, marker, posted, mishaps, history>>

Accept(p) == posted[p] < MaxPosts /\ posted' = [posted EXCEPT ![p] = @ + 1]

\* Mutants of PostPart: the chat of the answer replaces the one that is known, or
\* is ignored.
PostPartAnyChat ==
  /\ step = "post"
  /\ Accept(Part)
  /\ copy' = [copy EXCEPT !.amo = DefaultChat]
  /\ step' = IF Job \in Inbound THEN "contact" ELSE "save"
  /\ Elsewhere
  /\ UNCHANGED <<queue, done, part, row, imported, marker, mishaps, history>>

PostPartNoChat ==
  /\ step = "post"
  /\ Accept(Part)
  /\ step' = IF Job \in Inbound THEN "contact" ELSE "save"
  /\ Elsewhere
  /\ UNCHANGED <<queue, done, part, copy, row, imported, marker, mishaps, history>>

\* What amoResponseIds() finds in the answer; none is tolerated.
NamedChat(p) == IF p \in Unnamed THEN None ELSE DefaultChat

PostPart ==
  /\ step = "post"
  /\ Accept(Part)
  /\ copy' = [copy EXCEPT !.amo = Coalesce(@, NamedChat(Part))]
  /\ step' = IF Job \in Inbound THEN "contact" ELSE "save"
  /\ Elsewhere
  /\ UNCHANGED <<queue, done, part, row, imported, marker, mishaps, history>>

\* The contact of the chat; its columns are not modelled, its failures are.
FindContact ==
  /\ step = "contact"
  /\ GoTo("save")
  /\ Elsewhere
  /\ UNCHANGED <<row, imported, marker, posted, mishaps, history>>

SavePart ==
  /\ step = "save"
  /\ imported' = imported \cup {Part}
  /\ NextPart
  /\ Elsewhere
  /\ UNCHANGED <<queue, done, copy, row, marker, posted, mishaps, history>>

SaveConversation ==
  /\ step = "upsert"
  /\ Upsert(copy)
  /\ WrittenBy(None)
  /\ EndImport
  /\ Elsewhere
  /\ UNCHANGED <<imported, marker, posted, mishaps, dropped, unsure, unlinked, slow, gaveUp>>

\* What is left behind when the handler ends early.
Interrupted ==
  /\ unsure' = IF step \in {"contact", "save"} THEN unsure \cup {Part} ELSE unsure
  /\ unlinked' = (unlinked \/ (step # "idle" /\ PartsOf(Job) \cap imported # {}))

\* A call throws: the job is retried or dead-lettered.  A post may have been
\* accepted and a statement applied all the same.
ImportFails ==
  /\ step \notin {"idle", "wait"}
  /\ Mishap
  /\ \/ Interrupted /\ UNCHANGED <<row, imported, posted, stale>>
     \/ /\ step = "post"
        /\ Accept(Part)
        /\ unsure' = unsure \cup {Part}
        /\ unlinked' = (unlinked \/ PartsOf(Job) \cap imported # {})
        /\ UNCHANGED <<row, imported, stale>>
     \/ /\ step = "save"
        /\ imported' = imported \cup {Part}
        /\ unlinked' = TRUE
        /\ UNCHANGED <<row, posted, unsure, stale>>
     \/ /\ step = "upsert"
        /\ Upsert(copy)
        /\ WrittenBy(None)
        /\ UNCHANGED <<imported, posted, unsure, unlinked>>
  /\ step' = "idle" /\ part' = 1 /\ copy' = NoRow
  /\ \/ UNCHANGED queue
     \/ queue' = Tail(queue)
  /\ Elsewhere
  /\ UNCHANGED <<done, marker, dropped, slow, gaveUp>>

(***************************************************************************)
(* The senders.  OutboundDelivery has their delivery in detail; here it is  *)
(* what they write about the conversation and what Telegram echoes.         *)
(***************************************************************************)
Marks == {"none", "unknown", "recorded"}
OutSteps == {"waiting", "lookup", "link", "peer", "mark", "send", "sending", "record", "ended"}
SenderAt(m, s) == out' = [out EXCEPT ![m] = s]
Running(m) == out[m] \notin {"waiting", "ended"}

StartSender(m) ==
  /\ out[m] = "waiting"
  /\ \A n \in Own : ChatOf[n] = ChatOf[m] => ~Running(n)
  /\ IF marker[m] = "none" THEN SenderAt(m, "lookup") ELSE SenderAt(m, "ended")
  /\ UNCHANGED <<row, imported, marker, importVars, outCopy, adapterVars,
                 posted, mishaps, history>>

\* By amoCRM chat; else by contact, Telegram id or phone, or a new recipient, and
\* then the conversation is linked to this chat.  A recipient that cannot be found
\* is reported to amoCRM.
LookUp(m) ==
  /\ out[m] = "lookup"
  /\ \/ /\ row.amo = ChatOf[m]
        /\ outCopy' = [outCopy EXCEPT ![m] = row]
        /\ SenderAt(m, "peer")
     \/ /\ row.amo # ChatOf[m]
        /\ \E peer \in {None, Secret} :
             outCopy' = [outCopy EXCEPT ![m] =
                          [exists |-> TRUE, amo |-> ChatOf[m], peer |-> peer]]
        /\ SenderAt(m, "link")
     \/ row.amo # ChatOf[m] /\ SenderAt(m, "ended") /\ UNCHANGED outCopy
  /\ stale' = stale \ {m}
  /\ UNCHANGED <<row, imported, marker, importVars, adapterVars, posted, mishaps,
                 dropped, unsure, unlinked, slow, gaveUp>>

SaveLink(m) == Upsert(outCopy[m]) /\ WrittenBy(m) /\ UNCHANGED outCopy

LinkChat(m) ==
  /\ out[m] = "link"
  /\ SaveLink(m)
  /\ SenderAt(m, "peer")
  /\ UNCHANGED <<imported, marker, importVars, adapterVars, posted, mishaps,
                 dropped, unsure, unlinked, slow, gaveUp>>

\* recipientReference: a missing secret is recovered and the whole row written.
SavePeer(m) ==
  IF outCopy[m].peer = Secret
  THEN UNCHANGED <<row, outCopy, stale>>
  ELSE /\ outCopy' = [outCopy EXCEPT ![m].peer = Secret]
       /\ Upsert(outCopy'[m])
       /\ WrittenBy(m)

FindPeer(m) ==
  /\ out[m] = "peer"
  /\ SavePeer(m)
  /\ SenderAt(m, "mark")
  /\ UNCHANGED <<imported, marker, importVars, adapterVars, posted, mishaps,
                 dropped, unsure, unlinked, slow, gaveUp>>

Mark(m) ==
  /\ out[m] = "mark"
  /\ marker' = [marker EXCEPT ![m] = "unknown"]
  /\ SenderAt(m, "send")
  /\ UNCHANGED <<row, imported, importVars, outCopy, adapterVars, posted, mishaps, history>>

Send(m) ==
  /\ out[m] = "send"
  /\ inFlightText' = inFlightText \cup {TextOf[m]}
  /\ SenderAt(m, "sending")
  /\ UNCHANGED <<row, imported, marker, importVars, outCopy, recentlySent, sent, seen,
                 posted, mishaps, history>>

\* Also after the adapter's timeout, which gives up the answer and not the call.
TelegramAccepts(m) ==
  /\ out[m] = "sending" \/ m \in gaveUp
  /\ m \notin sent
  /\ sent' = sent \cup {m}
  /\ UNCHANGED <<row, imported, marker, importVars, senderVars, inFlightText, recentlySent,
                 seen, posted, mishaps, history>>

Answer(m) ==
  /\ out[m] = "sending"
  /\ m \in sent
  /\ recentlySent' = recentlySent \cup {m}
  /\ inFlightText' = inFlightText \ {TextOf[m]}
  /\ SenderAt(m, "record")
  /\ UNCHANGED <<row, imported, marker, importVars, outCopy, sent, seen, posted, mishaps, history>>

\* reconcileDeliveryUnknown: an imported echo has taken the provider's message id.
Record(m) ==
  /\ out[m] = "record"
  /\ IF <<m, 1>> \in imported
     THEN gaveUp' = gaveUp \cup {m} /\ UNCHANGED marker
     ELSE marker' = [marker EXCEPT ![m] = "recorded"] /\ UNCHANGED gaveUp
  /\ SenderAt(m, "ended")
  /\ UNCHANGED <<row, imported, importVars, outCopy, adapterVars, posted, mishaps,
                 dropped, unsure, unlinked, stale, slow>>

\* A lookup or statement fails, applied or not, and the job is tried again or
\* dead-lettered.
SetUpFails(m) ==
  /\ Mishap
  /\ out[m] \in {"lookup", "link", "peer", "mark"}
  /\ \/ UNCHANGED <<row, outCopy, stale, marker>>
     \/ out[m] = "link" /\ SaveLink(m) /\ UNCHANGED marker
     \/ out[m] = "peer" /\ SavePeer(m) /\ UNCHANGED marker
     \/ /\ out[m] = "mark"
        /\ marker' = [marker EXCEPT ![m] = "unknown"]
        /\ UNCHANGED <<row, outCopy, stale>>
  /\ \E s \in {"waiting", "ended"} : SenderAt(m, s)
  /\ UNCHANGED <<imported, importVars, adapterVars, posted, dropped, unsure, unlinked,
                 slow, gaveUp>>

\* A refusal clears the marker; a timeout, or a failure to record, parks the message.
SenderFails(m) ==
  /\ Mishap
  /\ \/ /\ out[m] = "sending"
        /\ m \notin sent
        /\ \E s \in {"waiting", "ended"} : SenderAt(m, s)
        /\ marker' = [marker EXCEPT ![m] = "none"]
        /\ UNCHANGED gaveUp
     \/ /\ out[m] \in {"sending", "record"}
        /\ SenderAt(m, "ended")
        /\ gaveUp' = gaveUp \cup {m}
        /\ UNCHANGED marker
  /\ inFlightText' = inFlightText \ (IF out[m] = "sending" THEN {TextOf[m]} ELSE {})
  /\ UNCHANGED <<row, imported, importVars, outCopy, recentlySent, sent, seen, posted,
                 dropped, unsure, unlinked, stale, slow>>

\* The process stops: handlers and the adapter's memory are gone, every job that
\* was at work runs again.
Crash ==
  /\ Mishap
  /\ step # "idle" \/ \E m \in Own : Running(m)
  /\ IF step = "idle" THEN UNCHANGED <<unsure, unlinked>> ELSE Interrupted
  /\ step' = "idle" /\ part' = 1 /\ copy' = NoRow
  /\ gaveUp' = gaveUp \cup {m \in Own : out[m] \in {"sending", "record"}}
  /\ out' = [m \in Own |-> IF Running(m) THEN "waiting" ELSE out[m]]
  /\ inFlightText' = {}
  /\ recentlySent' = {}
  /\ UNCHANGED <<row, imported, marker, queue, done, outCopy, sent, seen, posted,
                 dropped, stale, slow>>

ImportStep ==
  \/ StartImport \/ Check \/ WaitOver \/ Recheck \/ ReadConversation
  \/ FindPart \/ PostPart \/ FindContact \/ SavePart \/ SaveConversation \/ ImportFails

SenderStep(m) ==
  \/ StartSender(m) \/ LookUp(m) \/ LinkChat(m) \/ FindPeer(m) \/ Mark(m) \/ Send(m)
  \/ TelegramAccepts(m) \/ Answer(m) \/ Record(m) \/ SetUpFails(m) \/ SenderFails(m)
  \/ ForgetSent(m)

RoutingNext ==
  \/ \E m \in Messages : Update(m)
  \/ ImportStep
  \/ \E m \in Own : SenderStep(m)
  \/ Crash

RoutingSpec == RoutingInit /\ [][RoutingNext]_routingVars

-----------------------------------------------------------------------------
(***************************************************************************)
(* Properties.                                                              *)
(***************************************************************************)

\* The variables have their types.
RoutingTypeOK ==
  /\ row \in Rows /\ copy \in Rows /\ outCopy \in [Own -> Rows]
  /\ imported \subseteq AllParts /\ unsure \subseteq AllParts
  /\ marker \in [Own -> Marks]
  /\ queue \in Seq(Messages)
  /\ done \subseteq Messages /\ dropped \subseteq Messages
  /\ step \in {"idle", "check", "wait", "recheck"} \cup Loop \cup {"read"}
  /\ step \notin Loop => part = 1
  /\ step # "idle" => queue # << >> /\ part \in 1..Parts[Job]
  /\ out \in [Own -> OutSteps]
  /\ posted \in [AllParts -> 0..MaxPosts]
  /\ recentlySent \subseteq Own /\ sent \subseteq Own /\ seen \subseteq Messages
  /\ slow \subseteq Own /\ gaveUp \subseteq Own /\ stale \subseteq Own \cup {None}

\* A part is accepted by amoCRM twice only if a handler ended between amoCRM's
\* acceptance and the part's row: retries, redelivered updates and the other
\* parts of the message never repeat it.
PostedAgainOnlyIfUnsure == \A p \in AllParts : posted[p] > 1 => p \in unsure

\* An import that has returned has brought every part of its message into amoCRM,
\* or the account was not connected, or the message came from amoCRM.
ReturnedMeansImported ==
  \A m \in done \ dropped : \A p \in PartsOf(m) :
    \/ p \in imported /\ posted[p] > 0
    \/ m \in Own /\ marker[m] = "recorded"

\* After an import that was told its amoCRM chat for any of its parts, the
\* conversation knows it, unless some handler ended between a part's row and the
\* conversation's: the retry skips the part and has no chat to save.
ImportedMeansLinked ==
  (\E m \in done \ dropped : (PartsOf(m) \cap imported) \ Unnamed # {})
    => row.amo # None \/ unlinked

LinkStep ==
  /\ row.peer # None => row'.peer # None
  /\ (row.amo # None /\ row'.amo # row.amo) =>
       /\ row'.amo # None
       /\ \/ \E m \in Own : out[m] = "link" /\ row'.amo = ChatOf[m]
          \/ \E m \in stale \cap Own : out[m] = "peer" /\ row'.amo = ChatOf[m]
          \/ None \in stale /\ step = "upsert" /\ row'.amo = copy.amo

\* Neither the chat nor the peer of a conversation is forgotten, and the chat is
\* replaced only by a message that comes from another chat, or by a writer whose
\* copy somebody else's write has made old.
LinkKept == [][LinkStep]_routingVars

\* A message from amoCRM comes back as an imported one only if its send was slower
\* than the wait for echoes or ended without an answer on record.
EchoIsNotImported ==
  \A m \in Own : <<m, 1>> \in imported => m \in slow \cup gaveUp
=============================================================================
