------------------------------ MODULE QqDelivery ------------------------------
(***************************************************************************)
(* Delivery of assistant messages to QQ: the outbox channel_delivery       *)
(* (channel-delivery.repo.ts) and QqDeliveryService (outbound.ts), driven  *)
(* by qq.deliver jobs that a reply, a retry, the due scan or an admin      *)
(* enqueues.                                                               *)
(*                                                                         *)
(* Two jobs may run at once (the slots of the critical lane).  A slot is   *)
(* at one of the awaits of deliver():                                      *)
(*   thinking   waits for the visible thought of a passive reply           *)
(*   sending    a request is under way, the platform has not acted on it   *)
(*   accepted   the platform has shown it, the answer is not here yet      *)
(* A message is sent in steps: the thought, the bubbles of its text, its   *)
(* media parts.  What the user sees of a message is a set of fragments     *)
(* <<n, i>>: bubble i of a text split in n; <<0, 0>> is the thought and    *)
(* <<0, i>> the media part i.  The platform's side is external: it refuses *)
(* a second message with the same msg_id and msg_seq.                      *)
(***************************************************************************)
EXTENDS Integers, FiniteSets

CONSTANTS
  Messages,
  Passive,         \* replies to a QQ message: they carry its msg_id
  Lines,           \* chunks of the text, one bubble each if there is room
  Paragraphs,      \* its paragraphs, the bubbles when there is not
  Media,           \* number of media parts
  MaxPassiveSends, \* MAX_PASSIVE_SENDS
  MaxAttempts,     \* MAX_DELIVERY_ATTEMPTS
  Thoughts,        \* visible thoughts are delivered to QQ
  LostAnswers,     \* an answer of the platform may be lost (timeout, abort)
  Refusals,        \* the platform may refuse a message for good
  Deletable,       \* messages an admin may delete
  MaxQueued,       \* bound: waiting jobs of a message that are told apart
  MaxResets,       \* bound: manual retries
  MaxEpoch         \* bound: incarnations of the process (crashes + 1)

ASSUME DeliveryConstants ==
  /\ "none" \notin Messages
  /\ Passive \subseteq Messages /\ Deletable \subseteq Messages
  /\ Lines \in [Messages -> Nat] /\ Media \in [Messages -> Nat]
  /\ Paragraphs \in [Messages -> Nat]
  /\ \A m \in Messages : Paragraphs[m] <= Lines[m] /\ (Lines[m] > 0 => Paragraphs[m] > 0)
  /\ MaxPassiveSends \in Nat \ {0} /\ MaxAttempts \in Nat \ {0}
  /\ {Thoughts, LostAnswers, Refusals} \subseteq BOOLEAN
  /\ MaxQueued \in Nat \ {0} /\ MaxResets \in Nat /\ MaxEpoch \in Nat \ {0}

VARIABLES
  row,      \* durable: channel_delivery, one row per message
  queued,   \* durable: waiting qq.deliver jobs
  bound,    \* durable: an owner is bound to the channel
  present,  \* durable: messages that were not deleted
  handed,   \* messages whose first qq.deliver job was enqueued
  slot,     \* the two executors of the critical lane
  mode, epoch,
  resets,
  shown,    \* the platform: fragments the user sees
  doubled,  \* the platform: messages with a fragment shown twice
  used      \* the platform: the msg_seq values used up for the msg_id

process == <<slot, mode, epoch>>
platform == <<shown, doubled, used>>
vars == <<row, queued, bound, present, handed, slot, mode, epoch, resets,
          shown, doubled, used>>

Slots == 1 .. 2

NoRow == [status |-> "none", attempts |-> 0, done |-> {}]
Idle == [phase |-> "idle", m |-> "none", pos |-> 0, thinks |-> FALSE,
         fallback |-> FALSE]

\* Step keys of progress_json: 'thought', 'thought:none', 'text', 'text:<i>'
\* and 'part:<id>'.
Thought == -1
NoThought == -2
WholeText == 0
Bubble(i) == i
Part(i) == -2 - i

Init ==
  /\ row = [m \in Messages |-> NoRow]
  /\ queued = [m \in Messages |-> 0]
  /\ bound \in BOOLEAN
  /\ present = Messages
  /\ handed = {}
  /\ slot = [e \in Slots |-> Idle]
  /\ mode = "up" /\ epoch = 1 /\ resets = 0
  /\ shown = [m \in Messages |-> {}]
  /\ doubled = {}
  /\ used = [m \in Messages |-> {}]

-------------------------------------------------------------------------------
(***************************************************************************)
(* The steps of a message, as deliver() lays them out in one attempt.      *)
(***************************************************************************)
Larger(a, b) == IF a > b THEN a ELSE b
Least(S) == CHOOSE p \in S : \A q \in S : p <= q

RoomForBubbles_NoThought(m, thoughtSlot) == Larger(1, MaxPassiveSends - Media[m])

RoomForBubbles(m, thoughtSlot) ==
  IF m \in Passive THEN Larger(1, MaxPassiveSends - Media[m] - thoughtSlot) ELSE 1

\* splitIntoBubbles(): lines if they fit, else paragraphs with a merged tail.
\* A text that went out whole stays one step.
Bubbles(m, r, thoughtSlot) ==
  LET room == RoomForBubbles(m, thoughtSlot) IN
  IF room = 1 \/ WholeText \in r.done THEN (IF Lines[m] = 0 THEN 0 ELSE 1)
  ELSE IF Lines[m] <= room THEN Lines[m]
  ELSE IF Paragraphs[m] <= room THEN Paragraphs[m] ELSE room

ThoughtSlot(r, thinks) == IF Thought \in r.done \/ thinks THEN 1 ELSE 0

\* Position 0 is the thought, then the bubbles, then the media parts.
Key(m, r, ts, pos) ==
  LET n == Bubbles(m, r, ts) IN
  IF pos = 0 THEN Thought
  ELSE IF pos > n THEN Part(pos - n)
  ELSE IF n = 1 THEN WholeText ELSE Bubble(pos)

Fragment(m, r, ts, pos) ==
  LET n == Bubbles(m, r, ts) IN
  IF pos = 0 THEN <<0, 0>> ELSE IF pos > n THEN <<0, pos - n>> ELSE <<n, pos>>

Positions(m, r, ts, thinks) ==
  (IF thinks THEN {0} ELSE {}) \cup 1 .. Bubbles(m, r, ts) + Media[m]

Seq_FreshPerAttempt(r, ts, pos) == 10 * (r.attempts - 1) + (IF pos = 0 THEN 1 ELSE pos + ts)

\* msgSeq counts every step before this one, sent now or in an earlier attempt.
Seq(r, ts, pos) == IF pos = 0 THEN 1 ELSE pos + ts

\* What a message takes at the least: its media parts and one bubble of text.
LeastSends(m) == Media[m] + (IF Lines[m] > 0 THEN 1 ELSE 0)

CanThink(m) == Thoughts /\ m \in Passive /\ LeastSends(m) + 1 <= MaxPassiveSends

NeedsThought(m, r) ==
  CanThink(m) /\ Thought \notin r.done /\ NoThought \notin r.done

Undone(m, r, thinks) ==
  LET ts == ThoughtSlot(r, thinks) IN
  {pos \in Positions(m, r, ts, thinks) : Key(m, r, ts, pos) \notin r.done}

\* The loop of deliver() goes on behind a durable row r: the next step that
\* is not completed, or markSent() after the last one.
GoOn(e, m, r, thinks) ==
  LET left == Undone(m, r, thinks) IN
  IF left = {}
  THEN /\ row' = [row EXCEPT ![m] = [r EXCEPT !.status = "sent"]]
       /\ slot' = [slot EXCEPT ![e] = Idle]
  ELSE /\ row' = [row EXCEPT ![m] = r]
       /\ slot' = [slot EXCEPT ![e] =
            [phase |-> "sending", m |-> m, pos |-> Least(left),
             thinks |-> thinks, fallback |-> FALSE]]

-------------------------------------------------------------------------------
(***************************************************************************)
(* Jobs.                                                                   *)
(***************************************************************************)
OneMore(m) == IF queued[m] < MaxQueued THEN queued[m] + 1 ELSE queued[m]

\* A completed reply, a proactive message or a finished clip, each once.
HandOver(m) ==
  /\ mode = "up" /\ m \notin handed
  /\ handed' = handed \cup {m}
  /\ queued' = [queued EXCEPT ![m] = 1]
  /\ UNCHANGED <<row, bound, present, process, resets, platform>>

\* The first authorised message binds the owner.
BindOwner ==
  /\ mode = "up" /\ ~bound
  /\ bound' = TRUE
  /\ UNCHANGED <<row, queued, present, handed, process, resets, platform>>

TakesJob(e, m) ==
  /\ mode = "up"
  /\ slot[e].phase = "idle" /\ queued[m] > 0
  /\ queued' = [queued EXCEPT ![m] = @ - 1]

CanClaim_Sending(r) == r.status \in {"pending", "retry", "sending"}
CanClaim(r) == r.status \in {"pending", "retry"}

Enqueued(r) == IF r.status = "none" THEN [r EXCEPT !.status = "pending"] ELSE r
Claimed(r) == [r EXCEPT !.status = "sending", !.attempts = @ + 1]

\* 'skipped' or 'failed': no owner, sent or failed before, or claimed already.
DeliverNothing(e, m) ==
  /\ TakesJob(e, m)
  /\ ~bound \/ ~CanClaim(Enqueued(row[m]))
  /\ UNCHANGED <<row, bound, present, handed, process, resets, platform>>

HasContent(m) == m \in present /\ Lines[m] + Media[m] > 0

\* message_missing or nothing_to_deliver.
DeliverMissing(e, m) ==
  /\ TakesJob(e, m)
  /\ bound /\ CanClaim(Enqueued(row[m])) /\ ~HasContent(m)
  /\ row' = [row EXCEPT ![m] = [Claimed(Enqueued(@)) EXCEPT !.status = "failed"]]
  /\ UNCHANGED <<bound, present, handed, process, resets, platform>>

Deliver_Unfenced(e, m) ==
  LET r == Claimed(Enqueued(row[m])) IN
  /\ TakesJob(e, m)
  /\ bound /\ row[m].status \notin {"sent", "failed"} /\ HasContent(m)
  /\ IF NeedsThought(m, r)
     THEN /\ row' = [row EXCEPT ![m] = r]
          /\ slot' = [slot EXCEPT ![e] = [Idle EXCEPT !.phase = "thinking", !.m = m]]
     ELSE GoOn(e, m, r, FALSE)
  /\ UNCHANGED <<bound, present, handed, mode, epoch, resets, platform>>

Deliver(e, m) ==
  LET r == Claimed(Enqueued(row[m])) IN
  /\ TakesJob(e, m)
  /\ bound /\ CanClaim(Enqueued(row[m])) /\ HasContent(m)
  /\ IF NeedsThought(m, r)
     THEN /\ row' = [row EXCEPT ![m] = r]
          /\ slot' = [slot EXCEPT ![e] = [Idle EXCEPT !.phase = "thinking", !.m = m]]
     ELSE GoOn(e, m, r, FALSE)
  /\ UNCHANGED <<bound, present, handed, mode, epoch, resets, platform>>

slotRest == <<bound, present, handed, mode, epoch, resets>>

\* settledUserThought() has a text.
ThoughtArrives(e) ==
  LET m == slot[e].m IN
  /\ slot[e].phase = "thinking"
  /\ GoOn(e, m, row[m], TRUE)
  /\ UNCHANGED <<queued, slotRest, platform>>

\* No thought, or not in time: decided once, for all attempts.
ThoughtMissing(e) ==
  LET m == slot[e].m IN
  /\ slot[e].phase = "thinking"
  /\ GoOn(e, m, [row[m] EXCEPT !.done = @ \cup {NoThought}], FALSE)
  /\ UNCHANGED <<queued, slotRest, platform>>

-------------------------------------------------------------------------------
(***************************************************************************)
(* One step: the request, the platform, the answer.                        *)
(***************************************************************************)
TsOf(e) == ThoughtSlot(row[slot[e].m], slot[e].thinks)
SeqOf(e) == Seq(row[slot[e].m], TsOf(e), slot[e].pos)
FragmentOf(e) == Fragment(slot[e].m, row[slot[e].m], TsOf(e), slot[e].pos)
IsMedia(e) == slot[e].pos > Bubbles(slot[e].m, row[slot[e].m], TsOf(e))

DuplicateSeq(e) == slot[e].m \in Passive /\ SeqOf(e) \in used[slot[e].m]

\* External: the platform shows the message.
PlatformAccepts(e) ==
  LET m == slot[e].m IN
  /\ slot[e].phase = "sending" /\ ~DuplicateSeq(e)
  /\ shown' = [shown EXCEPT ![m] = @ \cup {FragmentOf(e)}]
  /\ doubled' = IF FragmentOf(e) \in shown[m] THEN doubled \cup {m} ELSE doubled
  /\ used' = IF m \in Passive THEN [used EXCEPT ![m] = @ \cup {SeqOf(e)}] ELSE used
  /\ slot' = [slot EXCEPT ![e].phase = "accepted"]
  /\ UNCHANGED <<row, queued, slotRest>>

CompleteStep(e) ==
  LET m == slot[e].m IN
  GoOn(e, m, [row[m] EXCEPT !.done = @ \cup {Key(m, row[m], TsOf(e), slot[e].pos)}],
       slot[e].thinks)

StepDone_Unrecorded(e) ==
  LET m == slot[e].m IN
  /\ slot[e].phase = "accepted"
  /\ row' = [row EXCEPT ![m].status = "sent"]
  /\ slot' = [slot EXCEPT ![e] = Idle]
  /\ UNCHANGED <<queued, slotRest, platform>>

\* The answer is there: markStepCompleted() and on to the next step.
StepDone(e) ==
  /\ slot[e].phase = "accepted"
  /\ CompleteStep(e)
  /\ UNCHANGED <<queued, slotRest, platform>>

Retryable_NoLimit(e) ==
  LET m == slot[e].m IN
  /\ slot' = [slot EXCEPT ![e] = Idle]
  /\ row' = [row EXCEPT ![m].status = "retry"]
  /\ queued' = [queued EXCEPT ![m] = OneMore(m)]

\* classifyFailure() of an error that may pass: a retry with a job of its own,
\* or failed when the attempts are spent.
Retryable(e) ==
  LET m == slot[e].m IN
  /\ slot' = [slot EXCEPT ![e] = Idle]
  /\ IF row[m].attempts >= MaxAttempts
     THEN row' = [row EXCEPT ![m].status = "failed"] /\ UNCHANGED queued
     ELSE /\ row' = [row EXCEPT ![m].status = "retry"]
          /\ queued' = [queued EXCEPT ![m] = OneMore(m)]

Permanent(e) ==
  /\ slot' = [slot EXCEPT ![e] = Idle]
  /\ row' = [row EXCEPT ![slot[e].m].status = "failed"]
  /\ UNCHANGED queued

\* Any error of a media part leads to its fallback text, with the same msg_seq.
FallBack(e) ==
  /\ slot' = [slot EXCEPT ![e].phase = "sending", ![e].fallback = TRUE]
  /\ UNCHANGED <<row, queued>>

ToFallback(e) == IsMedia(e) /\ ~slot[e].fallback

\* Network, timeout, rate limit, abort; the platform has not acted.
SendFails(e) ==
  /\ slot[e].phase = "sending"
  /\ IF ToFallback(e) THEN FallBack(e) ELSE Retryable(e)
  /\ UNCHANGED <<slotRest, platform>>

\* An error the client does not retry: a refusal, or a msg_seq used before.  A
\* refused thought is sent once more as plain text.
SendRefused(e) ==
  /\ slot[e].phase = "sending"
  /\ Refusals \/ DuplicateSeq(e)
  /\ IF ToFallback(e) \/ (slot[e].pos = 0 /\ ~slot[e].fallback) THEN FallBack(e) ELSE Permanent(e)
  /\ UNCHANGED <<slotRest, platform>>

\* The platform has acted but its answer is lost: the same error for deliver().
AnswerLost(e) ==
  /\ LostAnswers
  /\ slot[e].phase = "accepted"
  /\ IF ToFallback(e) THEN FallBack(e) ELSE Retryable(e)
  /\ UNCHANGED <<slotRest, platform>>

DropMedia_AnyStep(e) ==
  /\ slot[e].phase = "sending"
  /\ CompleteStep(e)
  /\ UNCHANGED <<queued, slotRest, platform>>

\* A part without a file or without a fallback text counts as completed.
DropMedia(e) ==
  /\ slot[e].phase = "sending" /\ IsMedia(e)
  /\ CompleteStep(e)
  /\ UNCHANGED <<queued, slotRest, platform>>

-------------------------------------------------------------------------------
(***************************************************************************)
(* The due scan, the admin, crash and recovery.                            *)
(***************************************************************************)
\* enqueueDueQqDeliveries(), at boot and by the maintenance timer: a row in
\* 'retry' is due when its next_retry_at has come, one in 'pending' always is.
Sweep ==
  /\ mode = "up"
  /\ \E due \in SUBSET {m \in Messages : CanClaim(row[m])} :
       /\ \A m \in Messages : row[m].status = "pending" => m \in due
       /\ queued' = [m \in Messages |-> IF m \in due THEN OneMore(m) ELSE queued[m]]
  /\ UNCHANGED <<row, bound, present, handed, process, resets, platform>>

\* resetForRetry(): the attempts stay, so one more error fails the row again.
AdminRetry(m) ==
  /\ mode = "up" /\ resets < MaxResets
  /\ row[m].status \in {"failed", "retry"}
  /\ row' = [row EXCEPT ![m].status = "pending"]
  /\ queued' = [queued EXCEPT ![m] = OneMore(m)]
  /\ resets' = resets + 1
  /\ UNCHANGED <<bound, present, handed, process, platform>>

DeleteMessage(m) ==
  /\ mode = "up" /\ m \in Deletable \cap present
  /\ present' = present \ {m}
  /\ UNCHANGED <<row, queued, bound, handed, process, resets, platform>>

\* The jobs of the slots are running rows of the queue, which recoverStuck()
\* makes wait again: that is noted here already.
Die ==
  /\ mode = "up" /\ epoch < MaxEpoch
  /\ mode' = "down"
  /\ slot' = [e \in Slots |-> Idle]
  /\ queued' = [m \in Messages |->
       IF \E e \in Slots : slot[e].m = m THEN OneMore(m) ELSE queued[m]]
  /\ UNCHANGED epoch

Crash == Die /\ UNCHANGED <<row, bound, present, handed, resets, platform>>

\* The process dies between resetForRetry() and the enqueue of its job.
CrashInAdminRetry(m) ==
  /\ resets < MaxResets
  /\ row[m].status \in {"failed", "retry"}
  /\ row' = [row EXCEPT ![m].status = "pending"]
  /\ resets' = resets + 1
  /\ Die
  /\ UNCHANGED <<bound, present, handed, platform>>

Recovered_Nothing(r) == r

\* recoverInFlight(), for each row.
Recovered(r) == IF r.status = "sending" THEN [r EXCEPT !.status = "pending"] ELSE r

Restart ==
  /\ mode = "down"
  /\ mode' = "up" /\ epoch' = epoch + 1
  /\ row' = [m \in Messages |-> Recovered(row[m])]
  /\ UNCHANGED <<queued, bound, present, handed, slot, resets, platform>>

-------------------------------------------------------------------------------

TakeJob(e, m) == DeliverNothing(e, m) \/ DeliverMissing(e, m) \/ Deliver(e, m)

Progress(e) ==
  \/ SendFails(e) \/ SendRefused(e) \/ AnswerLost(e) \/ PlatformAccepts(e)
  \/ ThoughtMissing(e) \/ ThoughtArrives(e)
  \/ StepDone(e) \/ DropMedia(e)

Next ==
  \/ \E m \in Messages : HandOver(m) \/ DeleteMessage(m)
       \/ AdminRetry(m) \/ CrashInAdminRetry(m)
  \/ \E e \in Slots, m \in Messages : TakeJob(e, m)
  \/ \E e \in Slots : Progress(e)
  \/ BindOwner \/ Sweep \/ Crash \/ Restart

Spec == Init /\ [][Next]_vars

(***************************************************************************)
(* The worker serves waiting jobs, every request and every wait has a      *)
(* timeout, the maintenance timer comes round, a dead process is started   *)
(* again.  Nothing is assumed of the user, the admin or the platform.      *)
(***************************************************************************)
Fairness ==
  /\ \A m \in Messages : WF_vars(\E e \in Slots : TakeJob(e, m))
  /\ \A e \in Slots : WF_vars(Progress(e))
  /\ WF_vars(Sweep)
  /\ WF_vars(Restart)

FairSpec == Spec /\ Fairness

-------------------------------------------------------------------------------
(***************************************************************************)
(* Properties.                                                             *)
(***************************************************************************)
\* Types of the variables.  A row is attempted MAX_DELIVERY_ATTEMPTS times, and
\* once more for each manual retry and each death of the process.
Statuses == {"none", "pending", "sending", "retry", "sent", "failed"}
RowType == [status : Statuses, attempts : Nat, done : SUBSET Int]
SlotType == [phase : {"idle", "thinking", "sending", "accepted"},
             m : Messages \cup {"none"}, pos : Nat,
             thinks : BOOLEAN, fallback : BOOLEAN]

TypeOK ==
  /\ row \in [Messages -> RowType]
  /\ \A m \in Messages : row[m].attempts <= MaxAttempts + resets + epoch - 1
  /\ queued \in [Messages -> 0 .. MaxQueued]
  /\ slot \in [Slots -> SlotType]
  /\ shown \in [Messages -> SUBSET (Nat \X Nat)]
  /\ doubled \subseteq Messages /\ used \in [Messages -> SUBSET Nat]
  /\ mode \in {"up", "down"} /\ epoch \in 1 .. MaxEpoch
  /\ bound \in BOOLEAN /\ present \subseteq Messages /\ handed \subseteq Messages
  /\ resets \in 0 .. MaxResets

\* "Only one executor can win": a message is in at most one slot, and a live
\* process never leaves a row in 'sending' that no slot works on.
OneExecutor ==
  mode = "up" =>
    \A m \in Messages :
      /\ Cardinality({e \in Slots : slot[e].m = m}) <= 1
      /\ row[m].status = "sending" <=> \E e \in Slots : slot[e].m = m

\* Claims and rows agree: with the limits on attempts, one executor per message.
ClaimsAreSound == TypeOK /\ OneExecutor

Texts(m) == {f \in shown[m] : f[1] > 0}

\* The user never reads a piece of a passive reply twice, whatever answers are
\* lost and wherever the process dies: not the same fragment, and not the same
\* text split in another way.
PassiveNeverTwice ==
  \A m \in Passive :
    /\ m \notin doubled
    /\ \A f, g \in Texts(m) : f[1] = g[1]

\* Bubbles appear in order and behind the thought, across attempts: what is
\* visible of a text is always a beginning of it.
ShownInOrder ==
  \A m \in Messages : \A f \in Texts(m) :
    /\ \A i \in 1 .. f[2] - 1 : <<f[1], i>> \in shown[m]
    /\ Thought \in row[m].done => <<0, 0>> \in shown[m]

\* A row in 'sent' was shown to its last bubble: no step is skipped by a
\* resumed attempt, and none is taken for done that was not.
SentMeansShown ==
  \A m \in Messages :
    row[m].status = "sent" /\ Lines[m] > 0 =>
      \E n \in 1 .. Lines[m] : \A i \in 1 .. n : <<n, i>> \in shown[m]

\* The user reads a message in its order, and the whole of it once it is sent.
ShownAsWritten == ShownInOrder /\ SentMeansShown

\* A passive reply uses at most MAX_PASSIVE_SENDS messages of its msg_id; beyond
\* them it goes only for more media parts than that, with its text in one bubble
\* and no thought.
WithinPassiveBudget ==
  \A m \in Passive : \A s \in used[m] : s <= Larger(MaxPassiveSends, LeastSends(m))

\* Why the four hold, as an inductive invariant.  ClaimsAreLeft: a row that waits
\* has an attempt left, or granted by a manual retry or a death.  SlotsAreApart:
\* a row is in 'sending' exactly while one slot works on it.
ClaimsAreLeft ==
  /\ mode = "down" => epoch < MaxEpoch /\ \A e \in Slots : slot[e] = Idle
  /\ \A m \in Messages :
       row[m].status \in {"none", "pending", "retry"} =>
         row[m].attempts <= MaxAttempts + resets + epoch - 2

SlotsAreApart ==
  /\ \A e \in Slots :
       /\ slot[e].phase = "idle" <=> slot[e].m = "none"
       /\ slot[e].m \in Messages => row[slot[e].m].status = "sending"
       /\ \A f \in Slots : slot[e].m = slot[f].m /\ slot[e].m \in Messages => e = f
  /\ mode = "up" =>
       \A m \in Messages :
         row[m].status = "sending" => \E e \in Slots : slot[e].m = m

\* The split of a text is settled with the thought: n bubbles behind ts slots.
Split(m, ts) == Bubbles(m, NoRow, ts)
TextKey(n, i) == IF n = 1 THEN WholeText ELSE Bubble(i)
Spends(n, ts, f) ==
  IF f = <<0, 0>> THEN 1 ELSE IF f[1] = 0 THEN n + f[2] + ts ELSE f[2] + ts

\* What a row r says of the fragments the user has seen, and what both say of
\* the msg_seq values spent.  Before the thought is decided only it was sent.
RowIsTrue(m, r, seen, spent) ==
  LET ts == ThoughtSlot(r, FALSE)
      n == Split(m, ts)
  IN
  /\ Thought \in r.done => CanThink(m) /\ NoThought \notin r.done /\ <<0, 0>> \in seen
  /\ NeedsThought(m, r) => r.done = {} /\ seen \subseteq {<<0, 0>>}
  /\ WholeText \in r.done => n = 1
  /\ \A i \in 1 .. n : TextKey(n, i) \in r.done => <<n, i>> \in seen
  /\ seen \subseteq {<<0, 0>>} \cup ({n} \X (1 .. n)) \cup ({0} \X (1 .. Media[m]))
  /\ \A i \in 1 .. n : <<n, i>> \in seen => \A j \in 1 .. i : <<n, j>> \in seen
  /\ m \in Passive => \A f \in seen : Spends(n, ts, f) \in spent
  /\ m \in Passive => \A q \in spent : q <= Larger(MaxPassiveSends, LeastSends(m))
  /\ r.status = "sent" => \A i \in 1 .. n : <<n, i>> \in seen

\* The step a slot is at: every step before it is completed, it is not.
AtStep(m, r, pos, thinks) ==
  LET ts == ThoughtSlot(r, thinks)
      steps == Positions(m, r, ts, thinks)
  IN
  /\ IF thinks THEN CanThink(m) /\ NoThought \notin r.done ELSE ~NeedsThought(m, r)
  /\ pos \in steps /\ Key(m, r, ts, pos) \notin r.done
  /\ \A q \in steps : q < pos => Key(m, r, ts, q) \in r.done

SlotIsTrue(e) ==
  LET m == slot[e].m IN
  /\ slot[e].phase = "thinking" => NeedsThought(m, row[m])
  /\ slot[e].phase \in {"sending", "accepted"} =>
       AtStep(m, row[m], slot[e].pos, slot[e].thinks)
  /\ slot[e].phase = "accepted" => FragmentOf(e) \in shown[m]

DeliveryInvariant ==
  /\ TypeOK /\ ClaimsAreLeft /\ SlotsAreApart
  /\ \A m \in Messages : RowIsTrue(m, row[m], shown[m], used[m])
  /\ \A m \in Passive : m \notin doubled
  /\ \A e \in Slots : SlotIsTrue(e)

\* Every delivery that was begun ends, sent or failed, through retries, crashes
\* and the loss of a manual retry's job.
EveryDeliveryEnds ==
  \A m \in Messages :
    row[m].status \in {"pending", "sending", "retry"}
      ~> row[m].status \in {"sent", "failed"}
===============================================================================
