---------------------------- MODULE QqInboundProofs ----------------------------
(***************************************************************************)
(* For any events, users, downloads and deaths of the process: one user    *)
(* owns the conversation, a message is stored once, and no event is        *)
(* handled twice.                                                          *)
(***************************************************************************)
EXTENDS QqInbound, TLAPS

\* The dispatches under way and the messages they stored are the owner's.
Owned(e) ==
  /\ handler[e].phase # "idle" => UserOf[e] = owner
  /\ event[e].linked => UserOf[e] = owner

\* A dispatch that is past accept() has its message in the conversation.
Consumed(e) ==
  /\ handler[e].phase = "accepted" => Kept(MsgOf[e])
  /\ e \in Text /\ event[e].status = "processed" => Kept(MsgOf[e])

InboundInvariant ==
  /\ TypeOK /\ StoredOnce
  /\ owner # "none" => owner \in Allowed
  /\ mode = "down" => epoch < MaxEpoch
  /\ \A e \in Events : Owned(e) /\ Consumed(e)

LEMMA Constants ==
  /\ Other \cap Text = {} /\ MaxClears \in Nat /\ MaxEpoch \in Nat \ {0}
  /\ \A e \in Events : UserOf[e] # "none" /\ MsgOf[e] \in Messages
  BY InboundConstants DEF InboundConstants, Messages

LEMMA InvariantGivesProperties ==
  InboundInvariant => TypeOK /\ OneConversation /\ StoredExactlyOnce
  <1>. SUFFICES ASSUME InboundInvariant
                PROVE  TypeOK /\ OneConversation /\ StoredExactlyOnce
    OBVIOUS
  <1>1. OneConversation
    BY Constants DEF InboundInvariant, Owned, OneConversation
  <1>2. ProcessedIsStored
    <2>1. Text \subseteq Events  BY InboundConstants DEF InboundConstants
    <2>. QED  BY <2>1 DEF InboundInvariant, Consumed, ProcessedIsStored
  <1>. QED  BY <1>1, <1>2 DEF InboundInvariant, StoredExactlyOnce

LEMMA InitKeeps == Init => InboundInvariant
  <1>. SUFFICES ASSUME Init PROVE InboundInvariant
    OBVIOUS
  <1>1. TypeOK
    BY Constants DEF Init, TypeOK, NoRow, Idle
  <1>2. StoredOnce
    BY DEF Init, StoredOnce, IsInjective
  <1>. QED
    BY <1>1, <1>2 DEF Init, InboundInvariant, Owned, Consumed, NoRow, Idle

-------------------------------------------------------------------------------
(***************************************************************************)
(* Three ways in which a step leaves the invariant alone.                  *)
(***************************************************************************)
\* The conversation is as it was, and one dispatch may have moved.
LEMMA DispatchMoves ==
  ASSUME InboundInvariant, NEW e \in Events, TypeOK',
         UNCHANGED <<owner, stored, cleared, mode, epoch>>,
         \A f \in Events \ {e} : event'[f] = event[f] /\ handler'[f] = handler[f],
         handler'[e].phase # "idle" \/ event'[e].linked => UserOf[e] = owner,
         handler'[e].phase = "accepted" => Kept(MsgOf[e]),
         e \in Text /\ event'[e].status = "processed" => Kept(MsgOf[e])
  PROVE  InboundInvariant'
  <1>1. StoredOnce' /\ (owner' # "none" => owner' \in Allowed)
    BY DEF InboundInvariant, StoredOnce
  <1>2. \A m : Kept(m)' <=> Kept(m)
    BY DEF Kept, IsStored
  <1>3. ASSUME NEW f \in Events  PROVE (Owned(f) /\ Consumed(f))'
    <2>1. CASE f = e
      BY <1>2, <2>1 DEF InboundInvariant, Owned, Consumed
    <2>2. CASE f # e
      BY <1>2, <2>2 DEF InboundInvariant, Owned, Consumed
    <2>. QED  BY <2>1, <2>2
  <1>. QED  BY <1>1, <1>3 DEF InboundInvariant

-------------------------------------------------------------------------------
(***************************************************************************)
(* One lemma for each action.                                              *)
(***************************************************************************)
LEMMA DeniedKeeps ==
  ASSUME InboundInvariant, NEW e \in Events, ReceiveDenied(e)
  PROVE  InboundInvariant'
  <1>1. TypeOK /\ handler[e].phase = "idle"
    BY DEF InboundInvariant, TypeOK, ReceiveDenied, IsNew
  <1>2. /\ event' = [event EXCEPT ![e].status = "rejected"] /\ handler' = handler
        /\ latest' = [latest EXCEPT ![MsgOf[e]] = e]
        /\ UNCHANGED <<owner, stored, cleared, rest>>
    BY DEF ReceiveDenied
  <1>3. TypeOK'
    BY <1>1, <1>2, Constants DEF TypeOK, rest
  <1>. QED
    BY <1>1, <1>2, <1>3, DispatchMoves DEF InboundInvariant, Owned, TypeOK, rest

LEMMA OtherKeeps ==
  ASSUME InboundInvariant, NEW e \in Events, ReceiveOther(e)
  PROVE  InboundInvariant'
  <1>1. TypeOK /\ handler[e].phase = "idle" /\ e \notin Text
    BY Constants DEF InboundInvariant, TypeOK, ReceiveOther, IsNew
  <1>2. /\ event' = [event EXCEPT ![e].status = "processed"] /\ handler' = handler
        /\ latest' = [latest EXCEPT ![MsgOf[e]] = e]
        /\ UNCHANGED <<owner, stored, cleared, rest>>
    BY DEF ReceiveOther
  <1>3. TypeOK'
    BY <1>1, <1>2, Constants DEF TypeOK, rest
  <1>. QED
    BY <1>1, <1>2, <1>3, DispatchMoves DEF InboundInvariant, Owned, TypeOK, rest

\* The owner is bound by the first allowed user, when nobody's dispatch is
\* under way and nothing is stored; from then on only the owner comes here.
LEMMA ReceiveKeeps ==
  ASSUME InboundInvariant, NEW e \in Events, Receive(e)
  PROVE  InboundInvariant'
  <1>1. TypeOK
    BY DEF InboundInvariant
  <1>2. /\ event' = [event EXCEPT ![e].status = "received"]
        /\ handler' = [handler EXCEPT ![e].phase =
             IF HasAttachment(e) THEN "fetching" ELSE "converting"]
        /\ latest' = [latest EXCEPT ![MsgOf[e]] = e]
        /\ UNCHANGED <<stored, cleared, rest>>
    BY DEF Receive
  <1>3. /\ owner' = UserOf[e] /\ owner' \in Allowed
        /\ owner # "none" => owner' = owner
    BY Constants DEF Receive, Authorised, InboundInvariant
  <1>4. TypeOK'
    BY <1>1, <1>2, <1>3, Constants DEF TypeOK, rest
  <1>5. StoredOnce' /\ \A m : Kept(m)' <=> Kept(m)
    BY <1>2 DEF InboundInvariant, StoredOnce, Kept, IsStored
  <1>6. ASSUME NEW f \in Events  PROVE (Owned(f) /\ Consumed(f))'
    <2>1. Owned(f) /\ Consumed(f)  BY DEF InboundInvariant
    <2>2. CASE f = e
      BY <1>1, <1>2, <1>3, <1>5, <2>1, <2>2 DEF TypeOK, Owned, Consumed
    <2>3. CASE f # e
      <3>1. event'[f] = event[f] /\ handler'[f] = handler[f]
        BY <1>1, <1>2, <2>3 DEF TypeOK
      <3>2. UserOf[f] = owner => UserOf[f] = owner'
        BY <1>3, Constants
      <3>. QED  BY <1>5, <2>1, <3>1, <3>2 DEF Owned, Consumed
    <2>. QED  BY <2>2, <2>3
  <1>. QED  BY <1>2, <1>3, <1>4, <1>5, <1>6 DEF InboundInvariant, rest

LEMMA DownloadedKeeps ==
  ASSUME InboundInvariant, NEW e \in Events, Downloaded(e)
  PROVE  InboundInvariant'
  <1>1. TypeOK /\ handler[e].phase = "fetching" /\ UserOf[e] = owner
    BY DEF InboundInvariant, Owned, Downloaded
  <1>2. PICK got \in BOOLEAN :
          handler' = [handler EXCEPT ![e] =
            [phase |-> "converting", picture |-> got /\ e \in Pictures,
             file |-> got /\ e \in Files]]
    BY DEF Downloaded
  <1>3. UNCHANGED <<event, latest, owner, stored, cleared, rest>>
    BY DEF Downloaded
  <1>4. TypeOK'
    BY <1>1, <1>2, <1>3 DEF TypeOK, rest
  <1>. QED
    BY <1>1, <1>2, <1>3, <1>4, DispatchMoves DEF InboundInvariant, Consumed, TypeOK, rest

\* Every way in which a dispatch ends without a new message.
LEMMA SettleKeeps ==
  ASSUME InboundInvariant, NEW e \in Events, NEW status \in {"processed", "failed"},
         handler[e].phase # "idle", Settle(e, status),
         e \in Text /\ status = "processed" => Kept(MsgOf[e]),
         UNCHANGED <<latest, owner, stored, cleared, rest>>
  PROVE  InboundInvariant'
  <1>1. TypeOK /\ UserOf[e] = owner
    BY DEF InboundInvariant, Owned
  <1>2. TypeOK'
    BY <1>1 DEF TypeOK, Settle, Idle, rest
  <1>3. /\ \A f \in Events \ {e} : event'[f] = event[f] /\ handler'[f] = handler[f]
        /\ handler'[e].phase = "idle" /\ event'[e].status = status
        /\ UNCHANGED <<mode, epoch>>
    BY <1>1 DEF TypeOK, Settle, Idle, rest
  <1>. QED  BY <1>1, <1>2, <1>3, DispatchMoves

LEMMA FinishKeeps ==
  ASSUME InboundInvariant, NEW e \in Events, Finish(e)
  PROVE  InboundInvariant'
  <1>1. TypeOK /\ UserOf[e] = owner /\ Kept(MsgOf[e])
    BY DEF InboundInvariant, Owned, Consumed, Finish
  <1>2. TypeOK'
    BY <1>1 DEF TypeOK, Finish, Idle, rest
  <1>3. /\ \A f \in Events \ {e} : event'[f] = event[f] /\ handler'[f] = handler[f]
        /\ handler'[e].phase = "idle" /\ UNCHANGED <<owner, stored, cleared, mode, epoch>>
    BY <1>1 DEF TypeOK, Finish, Idle, rest
  <1>. QED  BY <1>1, <1>2, <1>3, DispatchMoves

\* A message that is there is not stored again.
LEMMA AcceptKeeps ==
  ASSUME InboundInvariant, NEW e \in Events, Accept(e)
  PROVE  InboundInvariant'
  <1>. DEFINE m == MsgOf[e]
  <1>1. /\ TypeOK /\ StoredOnce /\ m \in Messages /\ UserOf[e] = owner
        /\ owner # "none" => owner \in Allowed
    BY Constants DEF InboundInvariant, Owned, Accept
  <1>2. /\ stored' = Stored(m)
        /\ handler' = [handler EXCEPT ![e].phase = "accepted"]
        /\ UNCHANGED <<event, latest, owner, cleared, rest>>
    BY DEF Accept
  <1>. HIDE DEF m
  <1>3. stored \in Seq(Messages)  BY <1>1 DEF TypeOK
  <1>4. /\ stored' \in Seq(Messages) /\ IsInjective(stored')
        /\ Range(stored') = Range(stored) \cup {m}
    <2>1. CASE IsStored(m)
      BY <1>1, <1>2, <2>1 DEF TypeOK, Stored, StoredOnce, IsStored
    <2>2. CASE ~IsStored(m)
      <3>1. stored' = Append(stored, m)  BY <1>2, <2>2 DEF Stored
      <3>2. /\ stored' \in Seq(Messages) /\ Len(stored) \in Nat
            /\ DOMAIN stored = 1 .. Len(stored) /\ DOMAIN stored' = 1 .. Len(stored) + 1
            /\ \A i \in 1 .. Len(stored) : stored'[i] = stored[i]
            /\ stored'[Len(stored) + 1] = m
        BY <1>1, <1>3, <3>1
      <3>3. IsInjective(stored')
        BY <1>1, <2>2, <3>2 DEF StoredOnce, IsStored, IsInjective, Range
      <3>4. Range(stored') = Range(stored) \cup {m}
        BY <3>2 DEF Range
      <3>. QED  BY <3>2, <3>3, <3>4
    <2>. QED  BY <2>1, <2>2
  <1>5. TypeOK'
    BY <1>1, <1>2, <1>4 DEF TypeOK, Accept, rest
  <1>6. Kept(m)' /\ \A n : Kept(n) => Kept(n)'
    BY <1>2, <1>4 DEF Kept, IsStored
  <1>7. ASSUME NEW f \in Events  PROVE (Owned(f) /\ Consumed(f))'
    <2>1. Owned(f) /\ Consumed(f)  BY DEF InboundInvariant
    <2>2. CASE f = e
      BY <1>1, <1>2, <1>6, <2>1, <2>2 DEF TypeOK, Owned, Consumed, m
    <2>3. CASE f # e
      <3>1. handler'[f] = handler[f] /\ event' = event /\ owner' = owner
        BY <1>1, <1>2, <2>3 DEF TypeOK
      <3>. QED  BY <1>6, <2>1, <3>1 DEF Owned, Consumed
    <2>. QED  BY <2>2, <2>3
  <1>. QED  BY <1>1, <1>2, <1>4, <1>5, <1>7 DEF InboundInvariant, StoredOnce, rest

LEMMA ClearKeeps ==
  ASSUME InboundInvariant, ClearChat
  PROVE  InboundInvariant'
  <1>1. TypeOK  BY DEF InboundInvariant
  <1>2. Range(stored) \subseteq Messages
    BY <1>1 DEF TypeOK, Range
  <1>3. TypeOK' /\ StoredOnce'
    BY <1>1, <1>2, Constants DEF TypeOK, StoredOnce, IsInjective, ClearChat
  <1>4. \A m : Kept(m) => Kept(m)'
    BY DEF Kept, IsStored, ClearChat
  <1>. QED
    BY <1>3, <1>4 DEF InboundInvariant, Owned, Consumed, ClearChat

LEMMA CrashKeeps ==
  ASSUME InboundInvariant, Crash
  PROVE  InboundInvariant'
  <1>1. TypeOK' /\ \A e \in Events : handler'[e].phase = "idle"
    BY DEF InboundInvariant, TypeOK, Crash, Idle
  <1>2. UNCHANGED <<event, owner, stored, cleared>>
    BY DEF Crash
  <1>3. StoredOnce' /\ (\A m : Kept(m)' <=> Kept(m))
    BY <1>2 DEF InboundInvariant, StoredOnce, Kept, IsStored
  <1>. QED
    BY <1>1, <1>2, <1>3 DEF InboundInvariant, Owned, Consumed, Crash

LEMMA RestartKeeps ==
  ASSUME InboundInvariant, Restart
  PROVE  InboundInvariant'
  <1>1. UNCHANGED <<event, latest, owner, stored, cleared, handler, clears>>
    BY DEF Restart
  <1>2. TypeOK'
    BY <1>1, Constants DEF InboundInvariant, TypeOK, Restart
  <1>3. StoredOnce' /\ (\A m : Kept(m)' <=> Kept(m))
    BY <1>1 DEF InboundInvariant, StoredOnce, Kept, IsStored
  <1>. QED
    BY <1>1, <1>2, <1>3 DEF InboundInvariant, Owned, Consumed, Restart

LEMMA StepKeeps == InboundInvariant /\ [Next]_vars => InboundInvariant'
  <1>. SUFFICES ASSUME InboundInvariant, [Next]_vars
                PROVE  InboundInvariant'
    OBVIOUS
  <1>1. ASSUME NEW e \in Events, ReceiveDenied(e)  PROVE InboundInvariant'
    BY <1>1, DeniedKeeps
  <1>2. ASSUME NEW e \in Events, ReceiveOther(e)  PROVE InboundInvariant'
    BY <1>2, OtherKeeps
  <1>3. ASSUME NEW e \in Events, Receive(e)  PROVE InboundInvariant'
    BY <1>3, ReceiveKeeps
  <1>4. ASSUME NEW e \in Events, Downloaded(e)  PROVE InboundInvariant'
    BY <1>4, DownloadedKeeps
  <1>5. ASSUME NEW e \in Events, ConsumeEmpty(e)  PROVE InboundInvariant'
    BY <1>5, SettleKeeps DEF ConsumeEmpty, HasContent
  <1>6. ASSUME NEW e \in Events, Accept(e)  PROVE InboundInvariant'
    BY <1>6, AcceptKeeps
  <1>7. ASSUME NEW e \in Events, RefuseQuote(e)  PROVE InboundInvariant'
    BY <1>7, SettleKeeps DEF RefuseQuote
  <1>8. ASSUME NEW e \in Events, Throw(e)  PROVE InboundInvariant'
    BY <1>8, SettleKeeps DEF Throw, Holding
  <1>9. ASSUME NEW e \in Events, Finish(e)  PROVE InboundInvariant'
    BY <1>9, FinishKeeps
  <1>10. CASE ClearChat  BY <1>10, ClearKeeps
  <1>11. CASE Crash  BY <1>11, CrashKeeps
  <1>12. CASE Restart  BY <1>12, RestartKeeps
  <1>13. CASE UNCHANGED vars
    BY <1>13
    DEF vars, InboundInvariant, TypeOK, StoredOnce, Owned, Consumed, Kept, IsStored
  <1>. QED
    BY <1>1, <1>2, <1>3, <1>4, <1>5, <1>6, <1>7, <1>8, <1>9, <1>10, <1>11, <1>12, <1>13
    DEF Next

-------------------------------------------------------------------------------
(***************************************************************************)
(* Theorems                                                                *)
(***************************************************************************)
\* Owner, events, dispatches and stored messages agree in every reachable state.
THEOREM InboundInvariantHolds == Spec => []InboundInvariant
  BY InitKeeps, StepKeeps, PTL DEF Spec

\* resolveQqIdentity() binds one user, however dispatches of several overlap.
THEOREM OneUserOwnsIt == Spec => []OneConversation
  BY InboundInvariantHolds, InvariantGivesProperties, PTL

\* createInTransaction() stores a message once, and what an event says is
\* processed was stored.
THEOREM StoredExactlyOnceHolds == Spec => []StoredExactlyOnce
  BY InboundInvariantHolds, InvariantGivesProperties, PTL

\* markReceived() lets an event in once: no step touches the row of an event
\* that no dispatch works on.
THEOREM EventsAreHandledOnce == Spec => HandledOnce
  <1>1. ASSUME TypeOK, [Next]_vars, NEW e \in Events,
               event[e].status # "none", handler[e].phase = "idle"
        PROVE  event'[e] = event[e] /\ handler'[e].phase = "idle"
    <2>1. ASSUME NEW f \in Events,
                 \/ ReceiveDenied(f) \/ ReceiveOther(f) \/ Receive(f)
          PROVE  event'[e] = event[e] /\ handler'[e].phase = "idle"
      <3>1. f # e  BY <1>1, <2>1 DEF ReceiveDenied, ReceiveOther, Receive, IsNew
      <3>. QED
        BY <1>1, <2>1, <3>1 DEF TypeOK, ReceiveDenied, ReceiveOther, Receive
    <2>2. ASSUME NEW f \in Events,
                 \/ Downloaded(f) \/ ConsumeEmpty(f) \/ Accept(f)
                 \/ RefuseQuote(f) \/ Throw(f) \/ Finish(f)
          PROVE  event'[e] = event[e] /\ handler'[e].phase = "idle"
      <3>1. f # e
        BY <1>1, <2>2
        DEF Downloaded, ConsumeEmpty, Accept, RefuseQuote, Throw, Finish, Holding
      <3>. QED
        BY <1>1, <2>2, <3>1
        DEF TypeOK, Downloaded, ConsumeEmpty, Accept, RefuseQuote, Throw, Finish, Settle, Idle
    <2>3. CASE ClearChat \/ Crash \/ Restart \/ UNCHANGED vars
      BY <1>1, <2>3 DEF ClearChat, Crash, Restart, Idle, vars
    <2>. QED  BY <1>1, <2>1, <2>2, <2>3 DEF Next
  <1>2. TypeOK /\ [Next]_vars =>
          [\A e \in Events :
             event[e].status # "none" /\ handler[e].phase = "idle"
               => event'[e] = event[e] /\ handler'[e].phase = "idle"]_vars
    BY <1>1
  <1>3. InboundInvariant => TypeOK  BY DEF InboundInvariant
  <1>. QED  BY <1>2, <1>3, InboundInvariantHolds, PTL DEF Spec, HandledOnce
===============================================================================
