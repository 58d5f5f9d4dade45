------------------------------- MODULE QqInbound -------------------------------
(***************************************************************************)
(* The way in from QQ: handleDispatch() of channel.ts with the event table *)
(* channel_event, the binding of the owner (mapping.ts) and the storing of *)
(* a user message by MessageIngress.                                       *)
(*                                                                         *)
(* The platform pushes an event at least once, and may push one message    *)
(* under two event ids.  A handler awaits in two places, the download of   *)
(* attachments ("fetching") and the registration of received files         *)
(* ("accepted" with a file); between them it runs to completion, and only  *)
(* the death of the process comes between its statements.  What becomes of *)
(* a stored message is ReplyCoordinator's affair; the jobs enqueued for    *)
(* its media touch nothing here and are left out.                          *)
(***************************************************************************)
EXTENDS Naturals, Sequences, SequencesExt

CONSTANTS
  Events,     \* event ids
  MsgOf,      \* the QQ message of an event
  UserOf,     \* its author
  Allowed,    \* config.allowedUsers
  Text,       \* the events with text
  Pictures,   \* the events with an image attachment
  Files,      \* the events with a file attachment
  Other,      \* the events that are no C2C messages
  Quote,      \* the QQ message an event quotes, or "none"
  Failing,    \* the events whose downloads may fail
  Throwing,   \* the events whose handler may throw
  MaxClears,  \* bound: times an admin clears the chat
  MaxEpoch    \* bound: incarnations of the process (crashes + 1)

Messages == {MsgOf[e] : e \in Events}

ASSUME InboundConstants ==
  /\ Text \subseteq Events /\ Pictures \subseteq Events /\ Files \subseteq Events
  /\ Other \subseteq Events \ (Text \cup Pictures \cup Files)
  /\ Failing \subseteq Pictures \cup Files /\ Throwing \subseteq Events
  /\ DOMAIN UserOf = Events /\ "none" \notin {UserOf[e] : e \in Events}
  /\ Quote \in [Events -> Messages \cup {"none"}]
  /\ MaxClears \in Nat /\ MaxEpoch \in Nat \ {0}

VARIABLES
  event,    \* durable: channel_event; `linked` when message_id is filled in
  latest,   \* durable: the last row received for a QQ message
  owner,    \* durable: the owner of channel_identity
  stored,   \* durable: the user messages, by client_msg_id, as they were stored
  cleared,  \* messages an admin has deleted
  handler,  \* the dispatches under way
  mode, epoch, clears

vars == <<event, latest, owner, stored, cleared, handler, mode, epoch, clears>>

NoRow == [status |-> "none", linked |-> FALSE]
Idle == [phase |-> "idle", picture |-> FALSE, file |-> FALSE]

Init ==
  /\ event = [e \in Events |-> NoRow]
  /\ latest = [m \in Messages |-> "none"]
  /\ owner = "none"
  /\ stored = <<>> /\ cleared = {}
  /\ handler = [e \in Events |-> Idle]
  /\ mode = "up" /\ epoch = 1 /\ clears = 0

\* A dispatch that holds the thread: it has no await before its next statement.
Holding(e) ==
  \/ handler[e].phase = "converting"
  \/ handler[e].phase = "accepted" /\ ~handler[e].file

ThreadIsFree == mode = "up" /\ \A e \in Events : ~Holding(e)

IsStored(m) == m \in Range(stored)

rest == <<mode, epoch, clears>>

-------------------------------------------------------------------------------
(***************************************************************************)
(* handleDispatch().                                                       *)
(***************************************************************************)
IsNew_Retries(e) == event[e].status \in {"none", "received", "failed"}

\* markReceived() inserts a row: a second push of an event is only acknowledged.
IsNew(e) == event[e].status = "none"

Authorised_AnyAllowed(u) == u \in Allowed

\* resolveQqIdentity(): the owner, or the first allowed user.
Authorised(u) == u = owner \/ (u \in Allowed /\ owner = "none")

HasAttachment(e) == e \in Pictures \cup Files

ReceiveDenied_GoesOn(e) ==
  /\ ThreadIsFree
  /\ IsNew(e) /\ e \notin Other /\ ~Authorised(UserOf[e])
  /\ event' = [event EXCEPT ![e].status = "rejected"]
  /\ latest' = [latest EXCEPT ![MsgOf[e]] = e]
  /\ handler' = [handler EXCEPT ![e].phase = "converting"]
  /\ UNCHANGED <<owner, stored, cleared, rest>>

ReceiveDenied(e) ==
  /\ ThreadIsFree
  /\ IsNew(e) /\ e \notin Other /\ ~Authorised(UserOf[e])
  /\ event' = [event EXCEPT ![e].status = "rejected"]
  /\ latest' = [latest EXCEPT ![MsgOf[e]] = e]
  /\ UNCHANGED <<owner, stored, cleared, handler, rest>>

\* Events of other types are noted and counted as consumed.
ReceiveOther(e) ==
  /\ ThreadIsFree
  /\ IsNew(e) /\ e \in Other
  /\ event' = [event EXCEPT ![e].status = "processed"]
  /\ latest' = [latest EXCEPT ![MsgOf[e]] = e]
  /\ UNCHANGED <<owner, stored, cleared, handler, rest>>

Receive(e) ==
  /\ ThreadIsFree
  /\ IsNew(e) /\ e \notin Other /\ Authorised(UserOf[e])
  /\ event' = [event EXCEPT ![e].status = "received"]
  /\ latest' = [latest EXCEPT ![MsgOf[e]] = e]
  /\ owner' = IF owner = "none" THEN UserOf[e] ELSE owner
  /\ handler' = [handler EXCEPT ![e].phase =
       IF HasAttachment(e) THEN "fetching" ELSE "converting"]
  /\ UNCHANGED <<stored, cleared, rest>>

\* The downloads are over.  One that fails is logged and left out.
Downloaded(e) ==
  /\ ThreadIsFree
  /\ handler[e].phase = "fetching"
  /\ \E got \in (IF e \in Failing THEN BOOLEAN ELSE {TRUE}) :
       handler' = [handler EXCEPT ![e] =
         [phase |-> "converting", picture |-> got /\ e \in Pictures,
          file |-> got /\ e \in Files]]
  /\ UNCHANGED <<event, latest, owner, stored, cleared, rest>>

HasContent_DownloadsOnly(e) ==
  IF HasAttachment(e) THEN handler[e].picture \/ handler[e].file ELSE e \in Text

HasContent(e) == e \in Text \/ handler[e].picture \/ handler[e].file

Settle(e, status) ==
  /\ event' = [event EXCEPT ![e].status = status]
  /\ handler' = [handler EXCEPT ![e] = Idle]

\* Nothing to store: the event counts as consumed.
ConsumeEmpty(e) ==
  /\ mode = "up"
  /\ handler[e].phase = "converting" /\ ~HasContent(e)
  /\ Settle(e, "processed")
  /\ UNCHANGED <<latest, owner, stored, cleared, rest>>

\* resolveQuoteReplyTo(): the last row of the quoted message has a message id.
Resolved(m) == \E f \in Events : latest[m] = f /\ event[f].linked

\* validateInput() throws for a quoted message that does not exist any more.
QuotesDeleted(e) ==
  Quote[e] # "none" /\ Resolved(Quote[e]) /\ ~IsStored(Quote[e])

Stored_Always(m) == Append(stored, m)

\* createInTransaction(): a client_msg_id that is there is the same message.
Stored(m) == IF IsStored(m) THEN stored ELSE Append(stored, m)

Accept(e) ==
  /\ mode = "up"
  /\ handler[e].phase = "converting" /\ HasContent(e) /\ ~QuotesDeleted(e)
  /\ stored' = Stored(MsgOf[e])
  /\ handler' = [handler EXCEPT ![e].phase = "accepted"]
  /\ UNCHANGED <<event, latest, owner, cleared, rest>>

RefuseQuote(e) ==
  /\ mode = "up"
  /\ handler[e].phase = "converting" /\ HasContent(e) /\ QuotesDeleted(e)
  /\ Settle(e, "failed")
  /\ UNCHANGED <<latest, owner, stored, cleared, rest>>

\* The catch of handleDispatch() around everything behind markReceived().
Throw(e) ==
  /\ mode = "up" /\ e \in Throwing
  /\ Holding(e) \/ (ThreadIsFree /\ handler[e].phase = "accepted")
  /\ Settle(e, "failed")
  /\ UNCHANGED <<latest, owner, stored, cleared, rest>>

\* markProcessed() fills in the message id.
Finish(e) ==
  /\ mode = "up"
  /\ handler[e].phase = "accepted" /\ (Holding(e) \/ ThreadIsFree)
  /\ event' = [event EXCEPT ![e] = [status |-> "processed", linked |-> TRUE]]
  /\ handler' = [handler EXCEPT ![e] = Idle]
  /\ UNCHANGED <<latest, owner, stored, cleared, rest>>

-------------------------------------------------------------------------------
\* MessageRepo.clearAll(): the messages go, the events stay.
ClearChat ==
  /\ ThreadIsFree /\ clears < MaxClears
  /\ cleared' = cleared \cup Range(stored)
  /\ stored' = <<>>
  /\ clears' = clears + 1
  /\ UNCHANGED <<event, latest, owner, handler, mode, epoch>>

Crash ==
  /\ mode = "up" /\ epoch < MaxEpoch
  /\ mode' = "down"
  /\ handler' = [e \in Events |-> Idle]
  /\ UNCHANGED <<event, latest, owner, stored, cleared, epoch, clears>>

\* Nothing takes up the events left in 'received'.
Restart ==
  /\ mode = "down"
  /\ mode' = "up" /\ epoch' = epoch + 1
  /\ UNCHANGED <<event, latest, owner, stored, cleared, handler, clears>>

Next ==
  \/ \E e \in Events :
       \/ ReceiveDenied(e) \/ ReceiveOther(e) \/ Receive(e) \/ Downloaded(e) \/ ConsumeEmpty(e)
       \/ Accept(e) \/ RefuseQuote(e) \/ Throw(e) \/ Finish(e)
  \/ ClearChat \/ Crash \/ Restart

Spec == Init /\ [][Next]_vars

-------------------------------------------------------------------------------
(***************************************************************************)
(* Properties.                                                             *)
(***************************************************************************)
\* Types of the variables.  A dispatch is under way for received events only.
TypeOK ==
  /\ event \in [Events -> [status : {"none", "received", "processed", "failed", "rejected"},
                           linked : BOOLEAN]]
  /\ latest \in [Messages -> Events \cup {"none"}]
  /\ owner \in {UserOf[e] : e \in Events} \cup {"none"}
  /\ stored \in Seq(Messages) /\ cleared \subseteq Messages
  /\ handler \in [Events -> [phase : {"idle", "fetching", "converting", "accepted"},
                             picture : BOOLEAN, file : BOOLEAN]]
  /\ \A e \in Events : handler[e].phase # "idle" => event[e].status = "received"
  /\ mode \in {"up", "down"} /\ epoch \in 1 .. MaxEpoch /\ clears \in 0 .. MaxClears

\* "Each external event is processed only once": a row that no dispatch works
\* on never changes again, whatever is pushed again and whatever crashed.
HandledOnce ==
  [][\A e \in Events :
       event[e].status # "none" /\ handler[e].phase = "idle"
         => event'[e] = event[e] /\ handler'[e].phase = "idle"]_vars

\* A message pushed under two event ids, even by dispatches that overlap, is
\* stored once, so that the model is not called twice for it.
StoredOnce == IsInjective(stored)

\* "The first allowed user becomes the owner; others are refused": all the
\* messages of the conversation come from one user, who was allowed and stays
\* the owner, also when dispatches of several users overlap.
OneConversation ==
  \A e \in Events : event[e].linked \/ handler[e].phase = "accepted" =>
    UserOf[e] = owner /\ owner \in Allowed

Kept(m) == IsStored(m) \/ m \in cleared

\* A failed download costs the attachment and never the text: an event that
\* counts as processed and had text is in the conversation, until an admin
\* clears it, whatever the dispatches of the same message did meanwhile.
ProcessedIsStored ==
  \A e \in Text : event[e].status = "processed" => Kept(MsgOf[e])

\* What counts as processed is stored, and nothing is stored twice.
StoredExactlyOnce == TypeOK /\ StoredOnce /\ ProcessedIsStored
===============================================================================
