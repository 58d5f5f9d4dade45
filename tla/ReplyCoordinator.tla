--------------------------- MODULE ReplyCoordinator ---------------------------
(***************************************************************************)
(* The path of a user message from admission to the hand-over of its reply *)
(* to the delivery outbox: message-ingress.ts, reply-coordinator.ts, the   *)
(* publish barrier of replier.ts and the periodic and boot-time recovery   *)
(* of app.ts, over the table of ReplyBatches.                              *)
(*                                                                         *)
(* One Node process runs the coordinator.  Its statements are synchronous, *)
(* so an action is a stretch of code between two awaits; gen.phase says at *)
(* which await the one generation of the drain loop stands:                *)
(*   idle       no generation                                              *)
(*   hidden     in the model call, the barrier is closed                   *)
(*   backoff    sleeping before the automatic retry of a timeout           *)
(*   opening    the barrier is open, the assistant message not yet stored  *)
(*   reopening  as opening, and a second openBarrier() call is on its way  *)
(*   visible    streaming text, producing media                            *)
(*   sent       the message has status 'sent', complete() comes next       *)
(*   completed  complete() committed, onCompleted() comes next             *)
(* In opening, reopening, sent and completed only microtasks run: the      *)
(* process can die there, but no timer and no request is served.           *)
(***************************************************************************)
EXTENDS ReplyBatches, Sequences

CONSTANTS
  Messages,        \* the user messages that may arrive, each once
  MaxBatches,      \* bound: rows of reply_batches
  MaxEpoch,        \* bound: incarnations of the process (crashes + 1)
  MaxUserRetries,  \* bound: calls of retryBatch()
  MaxStalls,       \* bound: suspensions of the process beyond LEASE_MS
  TimeoutRetries,  \* CHAT_TIMEOUT_RETRIES
  Sweeps,          \* ENABLE_BACKGROUND_JOBS: the 30 minute maintenance timer
  PublishErrors,   \* an error may strike after the barrier was opened
  SyncAnswer       \* an answer may arrive without an await after its deadline

ASSUME ConstantsAssumption ==
  /\ MaxBatches \in Nat
  /\ MaxEpoch \in Nat \ {0}
  /\ MaxUserRetries \in Nat
  /\ MaxStalls \in Nat
  /\ TimeoutRetries \in Nat
  /\ Sweeps \in BOOLEAN
  /\ PublishErrors \in BOOLEAN
  /\ SyncAnswer \in BOOLEAN

Batches == 1 .. MaxBatches

VARIABLES
  \* durable
  row,      \* reply_batches
  members,  \* reply_batch_messages: the messages of a batch
  shell,    \* the assistant messages of a batch and what they answer
  outbox,   \* batches whose reply has a qq.deliver job
  \* the process
  mode,     \* "up", "stopping" after stop(), "down"
  epoch,    \* the incarnation: this.owner
  gen,      \* the generation of the drain loop
  ready,    \* the queue of batches to generate
  timer,    \* the timer of a batch: "none", "collect" or "requeue"
  \* bounds
  userRetries,
  stalls

durable == <<row, members, shell, outbox>>
process == <<mode, epoch, gen, ready, timer>>
vars == <<row, members, shell, outbox, mode, epoch, gen, ready, timer,
          userRetries, stalls>>

-------------------------------------------------------------------------------

Phases == {"idle", "hidden", "backoff", "opening", "reopening", "visible",
           "sent", "completed"}

NoShell == [copies |-> 0, status |-> "none", answers |-> {}]

NoGen == [phase |-> "idle", b |-> 0, rev |-> 0, answers |-> {},
          aborted |-> FALSE]

Accepted == UNION {members[b] : b \in Batches}

HasShell(b) == shell[b].copies > 0

\* The event loop is free to serve a timer or a request.
AtRest == mode # "down" /\ gen.phase \in {"idle", "hidden", "backoff", "visible"}

\* openBatch(): the newest row that is not terminal.
IsOpenBatch(b) ==
  /\ row[b].status \in OpenStatuses
  /\ \A c \in Batches : c > b => row[c].status \notin OpenStatuses

IsNextBatch(b) ==
  /\ row[b].status = "none"
  /\ \A c \in Batches : c < b => row[c].status # "none"

InReady(b) == \E i \in DOMAIN ready : ready[i] = b

\* The sequence of S in the order the batches were opened.
OldestFirst(S) ==
  {q \in UNION {[1 .. n -> Batches] : n \in 0 .. MaxBatches} :
     /\ \A b \in Batches : b \in S <=> \E i \in DOMAIN q : q[i] = b
     /\ \A i, j \in DOMAIN q : i < j => q[i] < q[j]}

Init ==
  /\ row = [b \in Batches |-> NoRow]
  /\ members = [b \in Batches |-> {}]
  /\ shell = [b \in Batches |-> NoShell]
  /\ outbox = {}
  /\ mode = "up"
  /\ epoch = 1
  /\ gen = NoGen
  /\ ready = <<>>
  /\ timer = [b \in Batches |-> "none"]
  /\ userRetries = 0
  /\ stalls = 0

(***************************************************************************)
(* Admission of a user message: the transaction of MessageIngressService   *)
(* and, in the same turn of the event loop, onMessageAccepted().           *)
(***************************************************************************)
AddMember(b, m) == members' = [members EXCEPT ![b] = @ \cup {m}]

\* schedule() of a collecting row; a stopped coordinator leaves its timers.
ScheduleCollecting(b) ==
  timer' = [timer EXCEPT ![b] = IF mode = "up" THEN "collect" ELSE @]

AcceptAppended(m) ==
  \E b \in Batches :
    /\ IsOpenBatch(b)
    /\ CanAppend(row[b])
    /\ row' = [row EXCEPT ![b] = Appended(@)]
    /\ AddMember(b, m)
    /\ ScheduleCollecting(b)
    /\ UNCHANGED gen

\* interruptGeneration() aborts the model call or the backoff of the batch.
AcceptInterrupt(m) ==
  \E b \in Batches :
    /\ IsOpenBatch(b)
    /\ CanInterrupt(row[b])
    /\ row' = [row EXCEPT ![b] = Interrupted(@)]
    /\ AddMember(b, m)
    /\ ScheduleCollecting(b)
    /\ gen' = IF gen.phase # "idle" /\ gen.b = b
              THEN [gen EXCEPT !.aborted = TRUE] ELSE gen

\* 'created' and 'next_batch': no open batch, or one that is past its barrier.
JoinsNone(b) ==
  /\ row[b].status \notin {"collecting", "queued"}
  /\ ~CanInterrupt(row[b])

AcceptNewBatch(m) ==
  /\ \A b \in Batches : IsOpenBatch(b) => JoinsNone(b)
  /\ \E b \in Batches :
       /\ IsNextBatch(b)
       /\ row' = [row EXCEPT ![b] = NewRow]
       /\ AddMember(b, m)
       /\ ScheduleCollecting(b)
  /\ UNCHANGED gen

Accept(m) ==
  /\ AtRest
  /\ m \notin Accepted
  /\ AcceptAppended(m) \/ AcceptInterrupt(m) \/ AcceptNewBatch(m)
  /\ UNCHANGED <<shell, outbox, mode, epoch, ready, userRetries, stalls>>

(***************************************************************************)
(* The timers of schedule() and of the benign-abort path, makeReady() and  *)
(* the drain loop.                                                         *)
(***************************************************************************)
MakeReady(b) == ready' = IF InReady(b) THEN ready ELSE Append(ready, b)

TimerFires(b) ==
  /\ mode = "up" /\ AtRest
  /\ timer[b] # "none"
  /\ timer' = [timer EXCEPT ![b] = "none"]
  /\ row' = IF timer[b] = "collect" /\ CanMarkQueued(row[b])
            THEN [row EXCEPT ![b].status = "queued"] ELSE row
  /\ MakeReady(b)
  /\ UNCHANGED <<members, shell, outbox, mode, epoch, gen, userRetries, stalls>>

\* startGeneration(): claims the row and reads the messages of the batch.
Begin(b) ==
  gen' = [phase |-> "hidden", b |-> b, rev |-> row[b].rev,
          answers |-> members[b], aborted |-> FALSE]

StartGeneration ==
  /\ mode = "up" /\ gen.phase = "idle" /\ ready # <<>>
  /\ LET b == Head(ready) IN
       /\ CanBeginGenerating(row[b], row[b].rev)
       /\ row' = [row EXCEPT ![b] = Generating(@, epoch)]
       /\ Begin(b)
  /\ ready' = Tail(ready)
  /\ UNCHANGED <<members, shell, outbox, mode, epoch, timer, userRetries, stalls>>

SkipReady ==
  /\ mode = "up" /\ gen.phase = "idle" /\ ready # <<>>
  /\ row[Head(ready)].status # "queued"
  /\ ready' = Tail(ready)
  /\ UNCHANGED <<durable, mode, epoch, gen, timer, userRetries, stalls>>

(***************************************************************************)
(* The generation before the barrier.                                      *)
(***************************************************************************)
genRest == <<members, outbox, mode, epoch, ready, userRetries, stalls>>

\* The benign branch of handleGenerationFailure(): superseded or stopped.
BenignAbort ==
  LET b == gen.b IN
  /\ gen' = NoGen
  /\ IF row[b].rev = gen.rev /\ row[b].status = "generating"
     THEN /\ row' = IF CanRequeue(row[b], gen.rev, epoch)
                    THEN [row EXCEPT ![b] = Requeued(@)] ELSE row
          /\ timer' = IF mode = "up"
                      THEN [timer EXCEPT ![b] = "requeue"] ELSE timer
     ELSE UNCHANGED <<row, timer>>

\* beginPublishing() won.  An aborted generation may still come this far.
OpenBarrier ==
  /\ gen.phase = "hidden"
  /\ CanBeginPublishing(row[gen.b], gen.rev)
  /\ row' = [row EXCEPT ![gen.b] = Publishing(@, epoch)]
  /\ \E p \in {"opening"} \cup (IF SyncAnswer THEN {"reopening"} ELSE {}) :
       gen' = [gen EXCEPT !.phase = p]
  /\ UNCHANGED <<shell, timer, genRest>>

\* beginPublishing() lost: StaleGenerationError.
LoseBarrier ==
  /\ gen.phase = "hidden"
  /\ ~CanBeginPublishing(row[gen.b], gen.rev)
  /\ BenignAbort
  /\ UNCHANGED <<shell, genRest>>

\* The abort of an interrupt, of stop() or of a lost lease is noticed.
NoticeAbort ==
  /\ gen.phase \in {"hidden", "visible"}
  /\ gen.aborted
  /\ BenignAbort
  /\ UNCHANGED <<shell, genRest>>

RetriesLeft_OffByOne == row[gen.b].retries <= TimeoutRetries
RetriesLeft == row[gen.b].retries < TimeoutRetries

\* HttpTimeoutError with retries left.
TimeOut ==
  /\ gen.phase = "hidden" /\ ~gen.aborted
  /\ RetriesLeft
  /\ gen' = [gen EXCEPT !.phase = "backoff"]
  /\ UNCHANGED <<row, shell, timer, genRest>>

\* Any other error of a hidden generation.
FailHidden ==
  /\ gen.phase = "hidden"
  /\ row' = IF CanFail(row[gen.b], gen.rev, epoch)
            THEN [row EXCEPT ![gen.b] = Failed(@)] ELSE row
  /\ gen' = NoGen
  /\ UNCHANGED <<shell, timer, genRest>>

\* The backoff was aborted or outlived stop(): the batch stays as it is.
AbandonBackoff ==
  /\ gen.phase = "backoff"
  /\ gen.aborted \/ mode = "stopping"
  /\ gen' = NoGen
  /\ UNCHANGED <<row, shell, timer, genRest>>

CanStillRetry ==
  /\ row[gen.b].rev = gen.rev
  /\ ~row[gen.b].visible
  /\ CanPrepareRetry(row[gen.b], gen.rev, epoch)

\* prepareRetry() and the nested startGeneration() that follows it.
RetryAfterBackoff ==
  /\ gen.phase = "backoff" /\ ~gen.aborted /\ mode = "up"
  /\ CanStillRetry
  /\ row' = [row EXCEPT ![gen.b] = Generating(RetryPrepared(@), epoch)]
  /\ Begin(gen.b)
  /\ UNCHANGED <<shell, timer, genRest>>

RetryFenced ==
  /\ gen.phase = "backoff" /\ ~gen.aborted /\ mode = "up"
  /\ ~CanStillRetry
  /\ BenignAbort
  /\ UNCHANGED <<shell, genRest>>

(***************************************************************************)
(* The generation after the barrier.                                       *)
(***************************************************************************)
\* createShell(): the assistant message, status 'sending', with its events.
CreateShell ==
  /\ gen.phase = "opening"
  /\ shell' = [shell EXCEPT ![gen.b] =
        [copies |-> @.copies + 1, status |-> "sending", answers |-> gen.answers]]
  /\ gen' = [gen EXCEPT !.phase = "visible"]
  /\ UNCHANGED <<row, timer, genRest>>

\* The second openBarrier() of the same generation loses to the first one.
CreateShellAndLose ==
  /\ gen.phase = "reopening"
  /\ shell' = [shell EXCEPT ![gen.b] =
        [copies |-> @.copies + 1, status |-> "sending", answers |-> gen.answers]]
  /\ BenignAbort
  /\ UNCHANGED genRest

\* The transaction of createShell() rolls back; the barrier stays open.
LoseShell ==
  /\ PublishErrors
  /\ gen.phase = "opening"
  /\ gen' = [gen EXCEPT !.phase = "visible"]
  /\ UNCHANGED <<row, shell, timer, genRest>>

FinishContent_NoStatus ==
  /\ gen.phase = "visible"
  /\ HasShell(gen.b)
  /\ gen' = [gen EXCEPT !.phase = "sent"]
  /\ UNCHANGED <<row, shell, timer, genRest>>

\* publishGeneratedReply() ends: setStatus('sent') with reply.content.done.
FinishContent ==
  /\ gen.phase = "visible"
  /\ HasShell(gen.b)
  /\ shell' = [shell EXCEPT ![gen.b].status = "sent"]
  /\ gen' = [gen EXCEPT !.phase = "sent"]
  /\ UNCHANGED <<row, timer, genRest>>

\* complete() with reply.completed in one transaction; partial after a
\* stream that broke off.
CompleteReply ==
  /\ gen.phase = "sent"
  /\ CanComplete(row[gen.b], gen.rev, epoch)
  /\ \E partial \in BOOLEAN :
       row' = [row EXCEPT ![gen.b] = Completed(@, partial)]
  /\ gen' = [gen EXCEPT !.phase = "completed"]
  /\ UNCHANGED <<shell, timer, genRest>>

\* complete() lost its fence: reply.superseded and nothing else.
LoseCompletion ==
  /\ gen.phase = "sent"
  /\ ~CanComplete(row[gen.b], gen.rev, epoch)
  /\ gen' = NoGen
  /\ UNCHANGED <<row, shell, timer, genRest>>

\* onCompleted(): the downstream jobs, qq.deliver among them.
HandOver ==
  /\ gen.phase = "completed"
  /\ outbox' = outbox \cup {gen.b}
  /\ gen' = NoGen
  /\ UNCHANGED <<row, members, shell, mode, epoch, ready, timer, userRetries, stalls>>

\* onCompleted() throws: logged, the batch is completed and never handed over.
FailHandOver ==
  /\ PublishErrors
  /\ gen.phase = "completed"
  /\ gen' = NoGen
  /\ UNCHANGED <<row, shell, timer, genRest>>

FailVisible_FailFirst ==
  /\ PublishErrors
  /\ gen.phase \in {"visible", "sent"}
  /\ gen' = NoGen
  /\ row' = IF CanFail(row[gen.b], gen.rev, epoch)
            THEN [row EXCEPT ![gen.b] = Failed(@)] ELSE row
  /\ UNCHANGED <<shell, timer, genRest>>

\* An error after the barrier: kept as partial, or failed without a message.
FailVisible ==
  LET b == gen.b IN
  /\ PublishErrors
  /\ gen.phase \in {"visible", "sent"}
  /\ gen' = NoGen
  /\ IF HasShell(b) /\ CanComplete(row[b], gen.rev, epoch)
     THEN /\ row' = [row EXCEPT ![b] = Completed(@, TRUE)]
          /\ shell' = [shell EXCEPT ![b].status = "sent"]
     ELSE /\ row' = IF CanFail(row[b], gen.rev, epoch)
                    THEN [row EXCEPT ![b] = Failed(@)] ELSE row
          /\ UNCHANGED shell
  /\ UNCHANGED <<timer, genRest>>

(***************************************************************************)
(* Leases.  A running generation renews its lease every 30 seconds, so it  *)
(* runs out after LEASE_MS (120 s) only when the whole process stood still *)
(* (a stall); the lease of a generation that is gone simply runs out.      *)
(***************************************************************************)
Heartbeat ==
  /\ gen.phase \in {"hidden", "visible"} /\ mode # "down"
  /\ IF CanRenewLease(row[gen.b], epoch)
     THEN row' = [row EXCEPT ![gen.b].leased = TRUE] /\ UNCHANGED gen
     ELSE gen' = [gen EXCEPT !.aborted = TRUE] /\ UNCHANGED row
  /\ UNCHANGED <<shell, timer, genRest>>

Runs(b) == gen.phase # "idle" /\ gen.b = b

LeaseExpires(b) ==
  /\ row[b].leased /\ ~Runs(b)
  /\ row' = [row EXCEPT ![b].leased = FALSE]
  /\ UNCHANGED <<members, shell, outbox, process, userRetries, stalls>>

Stall(b) ==
  /\ stalls < MaxStalls
  /\ row[b].leased /\ Runs(b) /\ AtRest
  /\ row' = [row EXCEPT ![b].leased = FALSE]
  /\ stalls' = stalls + 1
  /\ UNCHANGED <<members, shell, outbox, process, userRetries>>

(***************************************************************************)
(* Recovery, stop, crash and explicit retry.                               *)
(***************************************************************************)
\* recover(): recoverOpen() and schedule() for every row it returns.
Recover(waiting) ==
  \E due \in SUBSET {b \in Batches : row[b].status = "collecting"} :
    /\ row' = [b \in Batches |-> Recovered(row[b], HasShell(b), b \in due)]
    /\ timer' = [b \in Batches |->
         CASE row'[b].status = "collecting" -> "collect"
           [] row'[b].status \in {"queued", "generating"} -> "none"
           [] OTHER -> timer[b]]
    /\ \E q \in OldestFirst({b \in Batches :
                   row'[b].status = "queued" /\
                   ~\E i \in DOMAIN waiting : waiting[i] = b}) :
         ready' = waiting \o q

Sweep ==
  /\ Sweeps
  /\ mode = "up" /\ AtRest
  /\ Recover(ready)
  /\ UNCHANGED <<members, shell, outbox, mode, epoch, gen, userRetries, stalls>>

\* retryBatch(): schedule() of a queued row.
UserRetry(b) ==
  /\ userRetries < MaxUserRetries
  /\ mode = "up" /\ AtRest
  /\ CanRetry(row[b])
  /\ row' = [row EXCEPT ![b] = Retried(@)]
  /\ timer' = [timer EXCEPT ![b] = "none"]
  /\ MakeReady(b)
  /\ userRetries' = userRetries + 1
  /\ UNCHANGED <<members, shell, outbox, mode, epoch, gen, stalls>>

\* stop() of a graceful shutdown; the process is expected to exit.
Stop ==
  /\ mode = "up" /\ AtRest
  /\ epoch < MaxEpoch
  /\ mode' = "stopping"
  /\ timer' = [b \in Batches |-> "none"]
  /\ gen' = IF gen.phase = "idle" THEN gen ELSE [gen EXCEPT !.aborted = TRUE]
  /\ UNCHANGED <<durable, epoch, ready, userRetries, stalls>>

\* The end of the process, expected or not: memory is gone, the rows stay.
Crash ==
  /\ mode # "down"
  /\ epoch < MaxEpoch
  /\ mode' = "down"
  /\ gen' = NoGen
  /\ ready' = <<>>
  /\ timer' = [b \in Batches |-> "none"]
  /\ UNCHANGED <<durable, epoch, userRetries, stalls>>

Exit == mode = "stopping" /\ Crash

Restart ==
  /\ mode = "down"
  /\ mode' = "up"
  /\ epoch' = epoch + 1
  /\ Recover(<<>>)
  /\ UNCHANGED <<members, shell, outbox, gen, userRetries, stalls>>

-------------------------------------------------------------------------------

\* What the running generation does next, whatever its provider answers.
GenerationStep ==
  \/ OpenBarrier \/ LoseBarrier \/ NoticeAbort \/ TimeOut \/ FailHidden
  \/ AbandonBackoff \/ RetryAfterBackoff \/ RetryFenced
  \/ CreateShell \/ CreateShellAndLose \/ LoseShell
  \/ FinishContent \/ CompleteReply \/ LoseCompletion
  \/ HandOver \/ FailHandOver \/ FailVisible

DrainStep == StartGeneration \/ SkipReady

Next ==
  \/ \E m \in Messages : Accept(m)
  \/ \E b \in Batches : TimerFires(b) \/ LeaseExpires(b) \/ Stall(b) \/ UserRetry(b)
  \/ DrainStep \/ GenerationStep
  \/ Heartbeat \/ Sweep \/ Stop \/ Crash \/ Restart

Spec == Init /\ [][Next]_vars

(***************************************************************************)
(* Timers fire, the drain loop runs, every await of a generation has a     *)
(* timeout (requestTimeoutMs, the provider timeouts), an unrenewed lease   *)
(* runs out, the maintenance interval comes round, a stopped process exits *)
(* and the service manager restarts it.  Users owe nothing: Accept and UserRetry are not  *)
(* fair, nor are Stop, Crash and Stall.                                    *)
(***************************************************************************)
Fairness ==
  /\ \A b \in Batches : WF_vars(TimerFires(b)) /\ WF_vars(LeaseExpires(b))
  /\ WF_vars(DrainStep)
  /\ WF_vars(GenerationStep)
  /\ WF_vars(Sweep)
  /\ WF_vars(Exit)
  /\ WF_vars(Restart)

FairSpec == Spec /\ Fairness

-------------------------------------------------------------------------------
(***************************************************************************)
(* Properties.                                                             *)
(***************************************************************************)
RowType ==
  [status : Statuses, rev : Nat, visible : BOOLEAN, owner : 0 .. MaxEpoch,
   leased : BOOLEAN, retries : 0 .. TimeoutRetries, partial : BOOLEAN,
   linked : BOOLEAN]

ShellType ==
  [copies : Nat, status : {"none", "sending", "sent"},
   answers : SUBSET Messages]

GenType ==
  [phase : Phases, b : 0 .. MaxBatches, rev : Nat, answers : SUBSET Messages,
   aborted : BOOLEAN]

\* Types; in particular the automatic retries of one revision never exceed
\* CHAT_TIMEOUT_RETRIES, whatever crashes and interrupts come in between.
TypeOK ==
  /\ row \in [Batches -> RowType]
  /\ members \in [Batches -> SUBSET Messages]
  /\ shell \in [Batches -> ShellType]
  /\ outbox \subseteq Batches
  /\ mode \in {"up", "stopping", "down"}
  /\ epoch \in 1 .. MaxEpoch
  /\ gen \in GenType
  /\ gen.phase # "idle" => gen.b \in Batches
  /\ ready \in Seq(Batches)
  /\ timer \in [Batches -> {"none", "collect", "requeue"}]
  /\ userRetries \in 0 .. MaxUserRetries
  /\ stalls \in 0 .. MaxStalls

\* A batch never gets two assistant messages, through any sequence of
\* interrupts, timeouts, leases that run out, sweeps, crashes and retries.
AtMostOneReply == \A b \in Batches : shell[b].copies <= 1

\* The reply that is out answers exactly the messages of its batch: a message
\* that arrived during the model call is never left out, and none joins late
\* ("revision fencing in the database decides every race").
AnswersWholeBatch ==
  \A b \in Batches : HasShell(b) => shell[b].answers = members[b]

\* Why the last two hold, as an inductive invariant.  A barrier is opened once
\* per row and guards everything a reader can see (ShellsBehindBarrier); a
\* generation that still has the revision of its row still knows every message
\* of the batch (GenerationKnowsBatch); between the barrier and the message
\* nothing intervenes (OpeningIsFresh).
ShellsBehindBarrier ==
  \A b \in Batches :
    /\ row[b].status = "none" => ~row[b].visible
    /\ ~row[b].visible => shell[b].copies = 0
    /\ shell[b].copies <= 1
    /\ shell[b].copies = 1 => shell[b].answers = members[b]

GenerationKnowsBatch ==
  gen.phase # "idle" =>
    /\ row[gen.b].status # "none"
    /\ gen.rev <= row[gen.b].rev
    /\ gen.rev = row[gen.b].rev => gen.answers = members[gen.b]

OpeningIsFresh ==
  gen.phase \in {"opening", "reopening"} =>
    /\ row[gen.b].visible
    /\ shell[gen.b].copies = 0
    /\ gen.rev = row[gen.b].rev

BackoffHasRetries ==
  gen.phase = "backoff" => row[gen.b].retries < TimeoutRetries

DownCanRestart == mode = "down" => epoch < MaxEpoch

PublishingInvariant ==
  /\ TypeOK
  /\ ShellsBehindBarrier
  /\ GenerationKnowsBatch
  /\ OpeningIsFresh
  /\ BackoffHasRetries
  /\ DownCanRestart

\* The batch, if any, in which a message still waits for its barrier is the
\* newest one: conversation order is kept and nothing is left behind.
WaitingIsNewest ==
  \A b, c \in Batches :
    /\ row[b].status \in OpenStatuses
    /\ ~row[b].visible
    /\ b < c
    => row[c].status = "none"

\* A reply enters the delivery outbox only when its content is finished, its
\* message is linked to the batch and the batch is completed.
HandsOverFinished ==
  \A b \in outbox :
    /\ shell[b].status = "sent"
    /\ row[b].status = "completed"
    /\ row[b].linked

\* "Published content is never silently revoked": a batch with a stored reply
\* is never failed, even when errors, sweeps and restarts compete for it.
PublishedNeverFails ==
  \A b \in Batches : HasShell(b) => row[b].status # "failed"

\* appendOrCreateMessage() calls itself again when the row it found open can
\* neither take the message nor change under it: such a row must not exist.
AdmissionTerminates ==
  \A b \in Batches :
    IsOpenBatch(b) /\ row[b].status \in {"collecting", "queued"}
      => CanAppend(row[b])

\* What a new message finds: at most one batch that waits, the newest, and none
\* that neither takes the message nor steps aside.
AdmissionOrder == WaitingIsNewest /\ AdmissionTerminates

\* "A batch with visible content can never be pulled back", and a terminal
\* batch stays terminal: no step makes either generate again.
NeverPulledBack ==
  [][\A b \in Batches :
       row[b].visible \/ row[b].status \in {"completed", "failed"}
         => row'[b].status \in {"publishing", "completed", "failed"}]_row

\* What is published is handed over whole, is never failed afterwards, and is
\* never generated again.
PublishedIsFinal == [](HandsOverFinished /\ PublishedNeverFails) /\ NeverPulledBack

\* Why AdmissionOrder and PublishedIsFinal hold until a user retries, as an
\* inductive invariant: what the fields of a row say about each other, that the
\* messages of two batches are apart, and what a generation may find on its side
\* of the barrier.
RowIsSound(r) ==
  /\ r.status \in {"none", "collecting", "queued", "generating"} => ~r.visible
  /\ r.status \in {"publishing", "completed"} => r.visible
  /\ r.owner # 0 => r.status \in {"generating", "publishing"}

RowsAreSound == \A b \in Batches : RowIsSound(row[b])

RowsInOrder ==
  \A b, c \in Batches :
    b < c /\ row[c].status # "none" => row[b].status # "none"

MembersApart ==
  /\ \A b \in Batches : row[b].status = "none" <=> members[b] = {}
  /\ \A b, c \in Batches : b # c => members[b] \cap members[c] = {}

GenerationAtBarrier ==
  LET r == row[gen.b] IN
  /\ gen.phase \in {"hidden", "backoff"} => ~r.visible
  /\ gen.phase \in {"visible", "sent"} => r.visible
  /\ gen.phase \in {"opening", "reopening"} => r.status = "publishing"
  /\ gen.phase \in {"sent", "completed"} => shell[gen.b].status = "sent"
  /\ gen.phase = "completed" => r.status = "completed" /\ r.linked
  /\ mode = "down" => gen.phase = "idle"

SettlingInvariant ==
  userRetries = 0 =>
    /\ RowsAreSound /\ RowsInOrder /\ MembersApart
    /\ GenerationAtBarrier
    /\ WaitingIsNewest
    /\ HandsOverFinished /\ PublishedNeverFails

Settled(m) ==
  \E b \in Batches : m \in members[b] /\ row[b].status \in {"completed", "failed"}

\* No accepted message waits for ever: its batch is completed or failed.
EveryMessageSettles == \A m \in Messages : m \in Accepted ~> Settled(m)

\* A reply the user was promised reaches the outbox that delivers it.
PublishedIsHandedOver ==
  \A b \in Batches : HasShell(b) ~> b \in outbox

\* The coordinator implements Conversation: waiting messages are those of a
\* batch that is open with its barrier closed.
MembersOf(S) == UNION {members[b] : b \in S}

WaitingBatches == {b \in Batches : row[b].status \in OpenStatuses /\ ~row[b].visible}
CommittedBatches == {b \in Batches : row[b].visible}
DroppedBatches == {b \in Batches : row[b].status = "failed" /\ ~row[b].visible}

Abstract == INSTANCE Conversation WITH
  waiting <- MembersOf(WaitingBatches),
  committed <- MembersOf(CommittedBatches),
  dropped <- MembersOf(DroppedBatches)

ImplementsConversation == Abstract!FairSpec
===============================================================================
