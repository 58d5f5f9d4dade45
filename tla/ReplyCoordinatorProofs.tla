------------------------ MODULE ReplyCoordinatorProofs ------------------------
(***************************************************************************)
(* For every set of messages and every value of the bounds: the types, and *)
(* that a batch gets at most one reply, which answers exactly the messages *)
(* of the batch.  PublishingInvariant is inductive; each action preserves  *)
(* it, most of them because they keep everything it looks at of a row      *)
(* (RowsKept) and let the generation go on or end (GenCarried).            *)
(*                                                                         *)
(* On top of it, as long as no user has retried a batch: messages are      *)
(* admitted in order and what is published stays final (SettlingInvariant),*)
(* and every step is a step of Conversation.  There every action is one of *)
(* three kinds (Outcome): it leaves each row as settled as it was          *)
(* (RowsSteady), settles the one batch that waits (Settles), or admits a   *)
(* message (Admits).                                                       *)
(***************************************************************************)
EXTENDS ReplyCoordinator, SequenceTheorems, TLAPS

(***************************************************************************)
(* What the statements of ReplyBatches do to the fields of a row.          *)
(***************************************************************************)
LEMMA Ranges ==
  /\ 0 \in 0 .. MaxEpoch
  /\ 1 \in 1 .. MaxEpoch
  /\ 0 \in 0 .. MaxBatches
  /\ 0 \in 0 .. TimeoutRetries
  /\ 0 \in 0 .. MaxUserRetries
  /\ 0 \in 0 .. MaxStalls
  BY ConstantsAssumption DEF ConstantsAssumption

LEMMA NewRowType ==
  /\ NoRow \in RowType
  /\ NewRow \in RowType
  /\ NewRow.visible = FALSE
  /\ NewRow.rev = 1
  /\ NewRow.status = "collecting"
  BY Ranges DEF NewRow, NoRow, RowType, Statuses

\* The two statements that admit a message leave the barrier alone, move to a
\* revision no generation has seen and give it all automatic retries.
LEMMA AdmissionRow ==
  ASSUME NEW r \in RowType, NEW s, s = Appended(r) \/ s = Interrupted(r)
  PROVE  /\ s \in RowType
         /\ s.visible = r.visible
         /\ s.rev = r.rev + 1
         /\ s.retries = 0
         /\ s.status = "collecting"
  <1>1. r.rev + 1 \in Nat  BY DEF RowType
  <1>2. CASE s = Appended(r)
    BY <1>1, <1>2, Ranges DEF Appended, RowType, Statuses
  <1>3. CASE s = Interrupted(r)
    BY <1>1, <1>3, Ranges DEF Interrupted, RowType, Statuses
  <1>. QED  BY <1>2, <1>3

\* s is r with its barrier, revision and retries: r exists if and only if s does.
Kept(r, s) ==
  /\ s \in RowType
  /\ s.visible = r.visible
  /\ s.rev = r.rev
  /\ s.retries = r.retries
  /\ s.status = "none" <=> r.status = "none"

LEMMA KeptRows ==
  ASSUME NEW r \in RowType, r.status # "none", NEW o \in 0 .. MaxEpoch,
         NEW p \in BOOLEAN
  PROVE  /\ Kept(r, Generating(r, o))
         /\ Kept(r, Completed(r, p))
         /\ Kept(r, Failed(r))
         /\ Kept(r, Requeued(r))
         /\ Kept(r, [r EXCEPT !.status = "queued"])
  <1>. USE Ranges DEF Kept, RowType, Statuses
  <1>1. Kept(r, Generating(r, o))  BY DEF Generating
  <1>2. Kept(r, Completed(r, p))  BY DEF Completed
  <1>3. Kept(r, Failed(r))  BY DEF Failed
  <1>4. Kept(r, Requeued(r))  BY DEF Requeued
  <1>5. Kept(r, [r EXCEPT !.status = "queued"])  OBVIOUS
  <1>. QED  BY <1>1, <1>2, <1>3, <1>4, <1>5

LEMMA LeaseRow ==
  ASSUME NEW r \in RowType, NEW p \in BOOLEAN
  PROVE  Kept(r, [r EXCEPT !.leased = p])
  BY DEF Kept, RowType, Statuses

LEMMA PublishingRow ==
  ASSUME NEW r \in RowType, NEW o \in 0 .. MaxEpoch
  PROVE  /\ Publishing(r, o) \in RowType
         /\ Publishing(r, o).visible
         /\ Publishing(r, o).rev = r.rev
         /\ Publishing(r, o).status = "publishing"
  BY DEF Publishing, RowType, Statuses

LEMMA RetriedRow ==
  ASSUME NEW r \in RowType
  PROVE  /\ Retried(r) \in RowType
         /\ Retried(r).visible = r.visible
         /\ Retried(r).rev = r.rev + 1
         /\ Retried(r).retries = 0
         /\ Retried(r).status = "queued"
  <1>1. r.rev + 1 \in Nat  BY DEF RowType
  <1>. QED  BY <1>1, Ranges DEF Retried, RowType, Statuses

LEMMA RetryPreparedRow ==
  ASSUME NEW r \in RowType, r.retries < TimeoutRetries, NEW o \in 0 .. MaxEpoch
  PROVE  LET s == Generating(RetryPrepared(r), o) IN
         /\ s \in RowType
         /\ s.visible = r.visible
         /\ s.rev = r.rev
         /\ s.status = "generating"
  <1>1. r.retries + 1 \in 0 .. TimeoutRetries
    BY ConstantsAssumption DEF ConstantsAssumption, RowType
  <1>2. RetryPrepared(r) \in RowType
    BY <1>1, Ranges DEF RetryPrepared, RowType, Statuses
  <1>3. /\ RetryPrepared(r).rev = r.rev
        /\ RetryPrepared(r).visible = r.visible
    BY DEF RetryPrepared, RowType
  <1>. QED  BY <1>2, <1>3 DEF Generating, RowType, Statuses

\* Recovery opens no barrier, closes none and keeps the revision.
LEMMA RecoveredRow ==
  ASSUME NEW r \in RowType, NEW h \in BOOLEAN, NEW d \in BOOLEAN
  PROVE  Kept(r, Recovered(r, h, d))
  <1>. DEFINE s == Recovered(r, h, d)
  <1>. USE Ranges DEF Kept, RowType, Statuses
  <1>1. CASE LostItsModel(r)
    <2>1. s = Requeued(r)  BY <1>1 DEF Recovered, LostItsModel
    <2>. QED  BY <2>1, <1>1 DEF Requeued, LostItsModel
  <1>2. CASE ~LostItsModel(r) /\ r.status = "publishing" /\ r.visible
    <2>1. s = Relinked(KeptAsPartial(r), h)  BY <1>2 DEF Recovered, LostItsModel
    <2>2. Kept(r, KeptAsPartial(r))  BY <1>2 DEF KeptAsPartial
    <2>. QED  BY <2>1, <2>2 DEF Relinked
  <1>3. CASE ~LostItsModel(r) /\ r.status = "collecting" /\ d
    <2>1. s = [r EXCEPT !.status = "queued"]  BY <1>3 DEF Recovered, LostItsModel
    <2>. QED  BY <2>1, <1>3
  <1>4. CASE /\ ~LostItsModel(r)
             /\ ~(r.status = "publishing" /\ r.visible)
             /\ ~(r.status = "collecting" /\ d)
    <2>1. s = Relinked(r, h)  BY <1>4 DEF Recovered
    <2>. QED  BY <2>1 DEF Relinked
  <1>. QED  BY <1>1, <1>2, <1>3, <1>4

(***************************************************************************)
(* Steps that keep what PublishingInvariant looks at.                      *)
(***************************************************************************)
RowsKept ==
  /\ row' \in [Batches -> RowType]
  /\ \A b \in Batches : Kept(row[b], row'[b])

\* The generation ends, or goes on with the same batch, revision and answers
\* in a phase of which the invariant says nothing new.
GenCarried ==
  \/ gen' = NoGen
  \/ gen' = gen
  \/ /\ gen' \in GenType
     /\ gen.phase # "idle"
     /\ gen'.phase \in {gen.phase, "visible", "sent", "completed"}
     /\ gen'.b = gen.b
     /\ gen'.rev = gen.rev
     /\ gen'.answers = gen.answers

LEMMA RowsUnchanged ==
  ASSUME TypeOK, UNCHANGED row
  PROVE  RowsKept
  BY DEF RowsKept, Kept, TypeOK, Batches

LEMMA OneRowKept ==
  ASSUME TypeOK, NEW b \in Batches, NEW s, Kept(row[b], s),
         row' = [row EXCEPT ![b] = s]
  PROVE  RowsKept
  BY DEF RowsKept, Kept, TypeOK

LEMMA GenStaysTyped ==
  ASSUME TypeOK, GenCarried
  PROVE  gen' \in GenType /\ (gen'.phase # "idle" => gen'.b \in Batches)
  <1>1. CASE gen' = NoGen
    <2>1. NoGen \in GenType  BY Ranges DEF NoGen, GenType, Phases
    <2>. QED  BY <1>1, <2>1 DEF NoGen
  <1>2. CASE gen' # NoGen
    BY <1>2 DEF TypeOK, GenCarried
  <1>. QED  BY <1>1, <1>2

LEMMA KeptStep ==
  ASSUME PublishingInvariant, TypeOK', RowsKept, GenCarried,
         members' = members,
         \A b \in Batches : /\ shell'[b].copies = shell[b].copies
                           /\ shell'[b].answers = shell[b].answers,
         mode' = "down" => epoch' < MaxEpoch
  PROVE  PublishingInvariant'
  <1>. USE DEF PublishingInvariant
  <1>1. ShellsBehindBarrier'
    BY DEF ShellsBehindBarrier, RowsKept, Kept
  <1>2. CASE gen' = NoGen
    BY <1>1, <1>2 DEF NoGen, GenerationKnowsBatch, OpeningIsFresh,
       BackoffHasRetries, DownCanRestart
  <1>3. CASE gen' # NoGen
    <2>1. /\ gen'.phase # "idle" => gen.phase # "idle" /\ gen.b \in Batches
          /\ gen'.phase \in {gen.phase, "visible", "sent", "completed"}
          /\ gen'.b = gen.b /\ gen'.rev = gen.rev /\ gen'.answers = gen.answers
      BY <1>3 DEF GenCarried, TypeOK
    <2>2. GenerationKnowsBatch'
      BY <2>1 DEF GenerationKnowsBatch, RowsKept, Kept
    <2>3. OpeningIsFresh'
      BY <2>1 DEF OpeningIsFresh, RowsKept, Kept
    <2>4. BackoffHasRetries'
      BY <2>1 DEF BackoffHasRetries, RowsKept, Kept
    <2>. QED  BY <1>1, <2>2, <2>3, <2>4 DEF DownCanRestart
  <1>. QED  BY <1>2, <1>3

(***************************************************************************)
(* The actions, one lemma each.                                            *)
(***************************************************************************)
LEMMA BenignAbortKeeps ==
  ASSUME TypeOK, gen.phase # "idle", row[gen.b].status # "none", BenignAbort
  PROVE  /\ RowsKept
         /\ GenCarried
         /\ timer' \in [Batches -> {"none", "collect", "requeue"}]
  <1>. DEFINE b == gen.b
  <1>1. b \in Batches /\ row[b] \in RowType /\ 0 \in 0 .. MaxEpoch
    BY Ranges DEF TypeOK
  <1>2. Kept(row[b], Requeued(row[b]))
    BY <1>1, KeptRows
  <1>3. row' = row \/ row' = [row EXCEPT ![b] = Requeued(row[b])]
    BY DEF BenignAbort
  <1>4. RowsKept  BY <1>1, <1>2, <1>3, OneRowKept, RowsUnchanged
  <1>5. GenCarried  BY DEF BenignAbort, GenCarried
  <1>6. timer' \in [Batches -> {"none", "collect", "requeue"}]
    BY DEF BenignAbort, TypeOK
  <1>. QED  BY <1>4, <1>5, <1>6

LEMMA TimerFiresKeeps ==
  ASSUME PublishingInvariant, NEW b \in Batches, TimerFires(b)
  PROVE  PublishingInvariant'
  <1>. USE DEF PublishingInvariant
  <1>1. RowsKept
    <2>1. CASE CanMarkQueued(row[b]) /\ timer[b] = "collect"
      <3>1. row[b] \in RowType /\ row[b].status # "none"
        BY <2>1 DEF CanMarkQueued, TypeOK
      <3>2. row' = [row EXCEPT ![b] = [row[b] EXCEPT !.status = "queued"]]
        BY <2>1 DEF TimerFires, TypeOK
      <3>. QED  BY <3>1, <3>2, KeptRows, OneRowKept, Ranges
    <2>2. CASE ~(CanMarkQueued(row[b]) /\ timer[b] = "collect")
      BY <2>2, RowsUnchanged DEF TimerFires
    <2>. QED  BY <2>1, <2>2
  <1>2. GenCarried  BY DEF TimerFires, GenCarried
  <1>3. ready' \in Seq(Batches)
    BY DEF TimerFires, MakeReady, TypeOK
  <1>4. TypeOK'
    BY <1>1, <1>2, <1>3, GenStaysTyped DEF TimerFires, TypeOK, RowsKept
  <1>. QED  BY <1>1, <1>2, <1>4, KeptStep DEF TimerFires, AtRest

LEMMA LeaseStepsKeep ==
  ASSUME PublishingInvariant, NEW b \in Batches, LeaseExpires(b) \/ Stall(b)
  PROVE  PublishingInvariant'
  <1>. USE DEF PublishingInvariant
  <1>1. row' = [row EXCEPT ![b] = [row[b] EXCEPT !.leased = FALSE]]
    BY DEF LeaseExpires, Stall
  <1>2. RowsKept
    BY <1>1, LeaseRow, OneRowKept DEF TypeOK
  <1>3. /\ GenCarried
        /\ members' = members /\ shell' = shell /\ outbox' = outbox
        /\ mode' = mode /\ epoch' = epoch /\ ready' = ready /\ timer' = timer
        /\ userRetries' = userRetries
    BY DEF LeaseExpires, Stall, process, GenCarried
  <1>4. stalls' \in 0 .. MaxStalls
    BY ConstantsAssumption
       DEF ConstantsAssumption, LeaseExpires, Stall, TypeOK
  <1>5. TypeOK'
    BY <1>2, <1>3, <1>4, GenStaysTyped DEF TypeOK, RowsKept
  <1>. QED  BY <1>2, <1>3, <1>5, KeptStep DEF DownCanRestart

LEMMA DrainStepKeeps ==
  ASSUME PublishingInvariant, DrainStep
  PROVE  PublishingInvariant'
  <1>. USE DEF PublishingInvariant
  <1>. DEFINE b == Head(ready)
  <1>0. b \in Batches /\ Tail(ready) \in Seq(Batches) /\ row[b] \in RowType
    <2>1. ready \in Seq(Batches) /\ ready # <<>>
      BY DEF DrainStep, StartGeneration, SkipReady, TypeOK
    <2>. QED  BY <2>1, HeadTailProperties DEF TypeOK
  <1>1. CASE SkipReady
    <2>1. RowsKept  BY <1>1, RowsUnchanged DEF SkipReady, durable
    <2>2. GenCarried  BY <1>1 DEF SkipReady, GenCarried
    <2>3. TypeOK'
      BY <1>0, <1>1, <2>1, <2>2, GenStaysTyped
         DEF SkipReady, durable, TypeOK, RowsKept
    <2>. QED  BY <1>1, <2>1, <2>2, <2>3, KeptStep
                 DEF SkipReady, durable, DownCanRestart
  <1>2. CASE StartGeneration
    <2>1. row[b].status = "queued" /\ epoch \in 0 .. MaxEpoch
      BY <1>2 DEF StartGeneration, CanBeginGenerating, TypeOK
    <2>2. row' = [row EXCEPT ![b] = Generating(row[b], epoch)]
      BY <1>2 DEF StartGeneration
    <2>3. Kept(row[b], Generating(row[b], epoch))
      BY <1>0, <2>1, KeptRows
    <2>4. RowsKept  BY <1>0, <2>2, <2>3, OneRowKept
    <2>5. gen' = [phase |-> "hidden", b |-> b, rev |-> row[b].rev,
                  answers |-> members[b], aborted |-> FALSE]
      BY <1>2 DEF StartGeneration, Begin
    <2>6. gen' \in GenType
      BY <1>0, <2>5 DEF GenType, Phases, TypeOK, Batches, RowType
    <2>7. TypeOK'
      BY <1>0, <1>2, <2>4, <2>5, <2>6 DEF StartGeneration, TypeOK, RowsKept
    <2>8. ShellsBehindBarrier'
      BY <1>2, <2>4 DEF StartGeneration, ShellsBehindBarrier, RowsKept, Kept
    <2>9. GenerationKnowsBatch'
      <3>1. row'[b].rev = row[b].rev /\ row'[b].status # "none"
        BY <1>0, <2>1, <2>4 DEF RowsKept, Kept
      <3>2. row[b].rev \in Nat  BY <1>0 DEF RowType
      <3>3. members' = members  BY <1>2 DEF StartGeneration
      <3>. QED  BY <2>5, <3>1, <3>2, <3>3 DEF GenerationKnowsBatch
    <2>10. OpeningIsFresh' /\ BackoffHasRetries'
      BY <2>5 DEF OpeningIsFresh, BackoffHasRetries
    <2>11. DownCanRestart'
      BY <1>2 DEF StartGeneration, DownCanRestart
    <2>. QED  BY <2>7, <2>8, <2>9, <2>10, <2>11
  <1>. QED  BY <1>1, <1>2 DEF DrainStep

LEMMA GenBatch ==
  ASSUME PublishingInvariant, gen.phase # "idle"
  PROVE  /\ gen.b \in Batches
         /\ row[gen.b] \in RowType
         /\ row[gen.b].status # "none"
         /\ epoch \in 0 .. MaxEpoch
  BY DEF PublishingInvariant, TypeOK, GenerationKnowsBatch

\* The steps that end a generation without touching its message.
LEMMA EndsKeep ==
  ASSUME PublishingInvariant,
         \/ LoseBarrier \/ NoticeAbort \/ RetryFenced \/ FailHidden
         \/ AbandonBackoff \/ LoseCompletion \/ FailHandOver
  PROVE  PublishingInvariant'
  <1>. USE DEF PublishingInvariant
  <1>. DEFINE b == gen.b
  <1>1. /\ gen.phase # "idle"
        /\ shell' = shell /\ members' = members /\ outbox' = outbox
        /\ mode' = mode /\ epoch' = epoch /\ ready' = ready
        /\ userRetries' = userRetries /\ stalls' = stalls
    BY DEF LoseBarrier, NoticeAbort, RetryFenced, FailHidden, AbandonBackoff,
           LoseCompletion, FailHandOver, genRest
  <1>2. /\ b \in Batches /\ row[b] \in RowType /\ row[b].status # "none"
        /\ epoch \in 0 .. MaxEpoch
    BY <1>1, GenBatch
  <1>3. /\ RowsKept
        /\ GenCarried
        /\ timer' \in [Batches -> {"none", "collect", "requeue"}]
    <2>1. CASE LoseBarrier \/ NoticeAbort \/ RetryFenced
      BY <2>1, <1>1, <1>2, BenignAbortKeeps
         DEF LoseBarrier, NoticeAbort, RetryFenced
    <2>2. CASE FailHidden
      <3>1. row' = row \/ row' = [row EXCEPT ![b] = Failed(row[b])]
        BY <2>2 DEF FailHidden
      <3>2. RowsKept
        BY <1>2, <3>1, KeptRows, OneRowKept, RowsUnchanged
      <3>. QED  BY <2>2, <3>2 DEF FailHidden, GenCarried, TypeOK
    <2>3. CASE AbandonBackoff \/ LoseCompletion \/ FailHandOver
      BY <2>3, RowsUnchanged
         DEF AbandonBackoff, LoseCompletion, FailHandOver, GenCarried, TypeOK
    <2>. QED  BY <2>1, <2>2, <2>3
  <1>4. TypeOK'
    BY <1>1, <1>3, GenStaysTyped DEF TypeOK, RowsKept
  <1>. QED  BY <1>1, <1>3, <1>4, KeptStep DEF DownCanRestart

LEMMA HeartbeatKeeps ==
  ASSUME PublishingInvariant, Heartbeat
  PROVE  PublishingInvariant'
  <1>. USE DEF PublishingInvariant
  <1>. DEFINE b == gen.b
  <1>1. gen.phase # "idle"  BY DEF Heartbeat
  <1>2. b \in Batches /\ row[b] \in RowType  BY <1>1, GenBatch
  <1>3. RowsKept
    <2>1. row' = row \/ row' = [row EXCEPT ![b] = [row[b] EXCEPT !.leased = TRUE]]
      BY DEF Heartbeat
    <2>. QED  BY <1>2, <2>1, LeaseRow, OneRowKept, RowsUnchanged
  <1>4. GenCarried
    <2>1. gen' = gen \/ gen' = [gen EXCEPT !.aborted = TRUE]  BY DEF Heartbeat
    <2>2. CASE gen' = [gen EXCEPT !.aborted = TRUE]
      <3>1. /\ gen' \in GenType /\ gen'.phase = gen.phase /\ gen'.b = gen.b
            /\ gen'.rev = gen.rev /\ gen'.answers = gen.answers
        BY <2>2 DEF TypeOK, GenType
      <3>. QED  BY <1>1, <3>1 DEF GenCarried
    <2>. QED  BY <2>1, <2>2 DEF GenCarried
  <1>5. TypeOK'
    BY <1>3, <1>4, GenStaysTyped DEF Heartbeat, genRest, TypeOK, RowsKept
  <1>. QED  BY <1>3, <1>4, <1>5, KeptStep DEF Heartbeat, genRest, DownCanRestart

LEMMA TimeOutKeeps ==
  ASSUME PublishingInvariant, TimeOut
  PROVE  PublishingInvariant'
  <1>. USE DEF PublishingInvariant
  <1>1. /\ gen.phase = "hidden"
        /\ gen' = [gen EXCEPT !.phase = "backoff"]
        /\ row[gen.b].retries < TimeoutRetries
        /\ UNCHANGED <<row, shell, timer, genRest>>
    BY DEF TimeOut, RetriesLeft
  <1>2. TypeOK'
    BY <1>1 DEF TypeOK, GenType, Phases, genRest
  <1>3. /\ gen'.phase = "backoff" /\ gen'.b = gen.b /\ gen'.rev = gen.rev
        /\ gen'.answers = gen.answers
    BY <1>1 DEF TypeOK, GenType
  <1>4. ShellsBehindBarrier' /\ DownCanRestart'
    BY <1>1 DEF ShellsBehindBarrier, DownCanRestart, genRest
  <1>5. GenerationKnowsBatch' /\ OpeningIsFresh' /\ BackoffHasRetries'
    BY <1>1, <1>3
       DEF GenerationKnowsBatch, OpeningIsFresh, BackoffHasRetries, genRest
  <1>. QED  BY <1>2, <1>4, <1>5

LEMMA OpenBarrierKeeps ==
  ASSUME PublishingInvariant, OpenBarrier
  PROVE  PublishingInvariant'
  <1>. USE DEF PublishingInvariant
  <1>. DEFINE b == gen.b
              s == Publishing(row[b], epoch)
  <1>1. /\ row[b].rev = gen.rev /\ ~row[b].visible
        /\ row' = [row EXCEPT ![b] = s]
        /\ UNCHANGED <<shell, timer, genRest>>
        /\ gen.phase # "idle"
    BY DEF OpenBarrier, CanBeginPublishing
  <1>2. /\ b \in Batches /\ row[b] \in RowType /\ epoch \in 0 .. MaxEpoch
    BY <1>1, GenBatch
  <1>3. s \in RowType /\ s.visible /\ s.rev = row[b].rev /\ s.status = "publishing"
    BY <1>2, PublishingRow
  <1>4. /\ gen' \in GenType /\ gen'.phase \in {"opening", "reopening"}
        /\ gen'.b = b /\ gen'.rev = gen.rev /\ gen'.answers = gen.answers
    <2>1. PICK p \in {"opening", "reopening"} : gen' = [gen EXCEPT !.phase = p]
      BY DEF OpenBarrier
    <2>. QED  BY <2>1 DEF TypeOK, GenType, Phases
  <1>5. shell[b].copies = 0
    BY <1>1, <1>2 DEF ShellsBehindBarrier
  <1>6. TypeOK'
    BY <1>1, <1>2, <1>3, <1>4 DEF TypeOK, genRest
  <1>7. ShellsBehindBarrier'
    BY <1>1, <1>3 DEF ShellsBehindBarrier, genRest, TypeOK
  <1>8. row'[b] = s /\ members' = members
    BY <1>1, <1>2 DEF TypeOK, genRest
  <1>9. GenerationKnowsBatch'
    BY <1>1, <1>2, <1>3, <1>4, <1>8 DEF GenerationKnowsBatch, RowType
  <1>10. OpeningIsFresh' /\ BackoffHasRetries' /\ DownCanRestart'
    BY <1>1, <1>3, <1>4, <1>5, <1>8
       DEF OpeningIsFresh, BackoffHasRetries, DownCanRestart, genRest
  <1>. QED  BY <1>6, <1>7, <1>9, <1>10

LEMMA RetryAfterBackoffKeeps ==
  ASSUME PublishingInvariant, RetryAfterBackoff
  PROVE  PublishingInvariant'
  <1>. USE DEF PublishingInvariant
  <1>. DEFINE b == gen.b
              s == Generating(RetryPrepared(row[b]), epoch)
  <1>1. /\ gen.phase = "backoff"
        /\ row' = [row EXCEPT ![b] = s]
        /\ gen' = [phase |-> "hidden", b |-> b, rev |-> row[b].rev,
                   answers |-> members[b], aborted |-> FALSE]
        /\ UNCHANGED <<shell, timer, genRest>>
    BY DEF RetryAfterBackoff, Begin
  <1>2. b \in Batches /\ row[b] \in RowType /\ epoch \in 0 .. MaxEpoch
    BY <1>1, GenBatch
  <1>3. row[b].retries < TimeoutRetries  BY <1>1 DEF BackoffHasRetries
  <1>4. /\ s \in RowType /\ s.visible = row[b].visible /\ s.rev = row[b].rev
        /\ s.status = "generating"
    BY <1>2, <1>3, RetryPreparedRow
  <1>5. gen' \in GenType
    BY <1>1, <1>2 DEF GenType, Phases, TypeOK, Batches, RowType
  <1>6. TypeOK'
    BY <1>1, <1>2, <1>4, <1>5 DEF TypeOK, genRest
  <1>7. ShellsBehindBarrier'
    BY <1>1, <1>4 DEF ShellsBehindBarrier, genRest, TypeOK
  <1>8. row'[b] = s /\ members' = members
    BY <1>1, <1>2 DEF TypeOK, genRest
  <1>9. GenerationKnowsBatch'
    BY <1>1, <1>2, <1>4, <1>8 DEF GenerationKnowsBatch, RowType
  <1>10. OpeningIsFresh' /\ BackoffHasRetries' /\ DownCanRestart'
    BY <1>1 DEF OpeningIsFresh, BackoffHasRetries, DownCanRestart, genRest
  <1>. QED  BY <1>6, <1>7, <1>9, <1>10

\* The one assistant message of a batch, behind its open barrier.
LEMMA CreateShellKeeps ==
  ASSUME PublishingInvariant, CreateShell \/ CreateShellAndLose
  PROVE  PublishingInvariant'
  <1>. USE DEF PublishingInvariant
  <1>. DEFINE b == gen.b
              new == [copies |-> shell[b].copies + 1, status |-> "sending",
                      answers |-> gen.answers]
  <1>1. /\ gen.phase \in {"opening", "reopening"}
        /\ shell' = [shell EXCEPT ![b] = new]
        /\ UNCHANGED genRest
    BY DEF CreateShell, CreateShellAndLose
  <1>2. /\ b \in Batches /\ row[b] \in RowType /\ row[b].status # "none"
    BY <1>1, GenBatch
  <1>3. /\ row[b].visible /\ shell[b].copies = 0
        /\ gen.answers = members[b]
    BY <1>1 DEF OpeningIsFresh, GenerationKnowsBatch
  <1>4. /\ RowsKept
        /\ gen' = NoGen \/ gen' = [gen EXCEPT !.phase = "visible"]
        /\ timer' \in [Batches -> {"none", "collect", "requeue"}]
    BY <1>1, <1>2, BenignAbortKeeps, RowsUnchanged
       DEF CreateShell, CreateShellAndLose, BenignAbort, TypeOK
  <1>5. /\ gen' \in GenType
        /\ gen'.phase \in {"idle", "visible"}
        /\ gen'.phase # "idle" => /\ gen'.b = gen.b
                                  /\ gen'.rev = gen.rev
                                  /\ gen'.answers = gen.answers
    <2>1. NoGen \in GenType /\ NoGen.phase = "idle"
      BY Ranges DEF NoGen, GenType, Phases
    <2>2. CASE gen' = [gen EXCEPT !.phase = "visible"]
      BY <2>2 DEF TypeOK, GenType, Phases
    <2>. QED  BY <1>4, <2>1, <2>2
  <1>6. new \in ShellType
    BY <1>3 DEF ShellType, TypeOK, GenType
  <1>7. TypeOK'
    BY <1>1, <1>2, <1>4, <1>5, <1>6 DEF TypeOK, genRest, RowsKept
  <1>8. ShellsBehindBarrier'
    <2>. SUFFICES ASSUME NEW c \in Batches
                  PROVE  /\ row'[c].status = "none" => ~row'[c].visible
                         /\ ~row'[c].visible => shell'[c].copies = 0
                         /\ shell'[c].copies <= 1
                         /\ shell'[c].copies = 1 => shell'[c].answers = members'[c]
      BY DEF ShellsBehindBarrier
    <2>1. Kept(row[c], row'[c]) /\ members' = members
      BY <1>1, <1>4 DEF RowsKept, genRest
    <2>2. CASE c = b
      <3>1. shell'[b] = new  BY <1>1, <1>2 DEF TypeOK
      <3>2. shell'[b].copies = 1 /\ shell'[b].answers = members[b]
        BY <1>3, <3>1
      <3>. QED  BY <1>2, <1>3, <2>1, <2>2, <3>2 DEF Kept, ShellsBehindBarrier
    <2>3. CASE c # b
      <3>1. shell'[c] = shell[c]  BY <1>1, <2>3 DEF TypeOK
      <3>. QED  BY <2>1, <3>1 DEF Kept, ShellsBehindBarrier
    <2>. QED  BY <2>2, <2>3
  <1>9. GenerationKnowsBatch'
    BY <1>1, <1>2, <1>4, <1>5
       DEF GenerationKnowsBatch, RowsKept, Kept, genRest
  <1>10. OpeningIsFresh' /\ BackoffHasRetries' /\ DownCanRestart'
    BY <1>1, <1>5 DEF OpeningIsFresh, BackoffHasRetries, DownCanRestart, genRest
  <1>. QED  BY <1>7, <1>8, <1>9, <1>10

\* The steps of a visible generation: its message keeps copies and answers.
LEMMA VisibleStepsKeep ==
  ASSUME PublishingInvariant,
         LoseShell \/ FinishContent \/ CompleteReply \/ FailVisible \/ HandOver
  PROVE  PublishingInvariant'
  <1>. USE DEF PublishingInvariant
  <1>. DEFINE b == gen.b
  <1>1. /\ gen.phase # "idle"
        /\ UNCHANGED <<members, mode, epoch, ready, timer, userRetries, stalls>>
    BY DEF LoseShell, FinishContent, CompleteReply, FailVisible, HandOver, genRest
  <1>2. /\ b \in Batches /\ row[b] \in RowType /\ row[b].status # "none"
        /\ epoch \in 0 .. MaxEpoch
    BY <1>1, GenBatch
  <1>3. outbox' \subseteq Batches
    BY <1>2 DEF LoseShell, FinishContent, CompleteReply, FailVisible, HandOver,
                genRest, TypeOK
  <1>4. shell' = shell \/ shell' = [shell EXCEPT ![b].status = "sent"]
    BY DEF LoseShell, FinishContent, CompleteReply, FailVisible, HandOver
  <1>5. /\ shell' \in [Batches -> ShellType]
        /\ \A c \in Batches : /\ shell'[c].copies = shell[c].copies
                              /\ shell'[c].answers = shell[c].answers
    <2>1. shell[b] \in ShellType  BY <1>2 DEF TypeOK
    <2>2. /\ [shell[b] EXCEPT !.status = "sent"] \in ShellType
          /\ [shell[b] EXCEPT !.status = "sent"].copies = shell[b].copies
          /\ [shell[b] EXCEPT !.status = "sent"].answers = shell[b].answers
      BY <2>1 DEF ShellType
    <2>. QED  BY <1>2, <1>4, <2>2 DEF TypeOK
  <1>6. RowsKept
    <2>1. \/ row' = row
          \/ row' = [row EXCEPT ![b] = Failed(row[b])]
          \/ \E p \in BOOLEAN : row' = [row EXCEPT ![b] = Completed(row[b], p)]
      BY DEF LoseShell, FinishContent, CompleteReply, FailVisible, HandOver
    <2>. QED  BY <1>2, <2>1, KeptRows, OneRowKept, RowsUnchanged
  <1>7. GenCarried
    <2>1. CASE FailVisible \/ HandOver
      BY <2>1 DEF FailVisible, HandOver, GenCarried
    <2>2. CASE LoseShell \/ FinishContent \/ CompleteReply
      <3>1. PICK p \in {"visible", "sent", "completed"} :
              gen' = [gen EXCEPT !.phase = p]
        BY <2>2 DEF LoseShell, FinishContent, CompleteReply
      <3>2. /\ gen' \in GenType /\ gen'.phase = p /\ gen'.b = gen.b
            /\ gen'.rev = gen.rev /\ gen'.answers = gen.answers
        BY <3>1 DEF TypeOK, GenType, Phases
      <3>. QED  BY <1>1, <3>2 DEF GenCarried
    <2>. QED  BY <2>1, <2>2
  <1>8. TypeOK'
    BY <1>1, <1>3, <1>5, <1>6, <1>7, GenStaysTyped DEF TypeOK, RowsKept
  <1>. QED  BY <1>1, <1>5, <1>6, <1>7, <1>8, KeptStep DEF DownCanRestart

LEMMA GenerationStepKeeps ==
  ASSUME PublishingInvariant, GenerationStep
  PROVE  PublishingInvariant'
  BY OpenBarrierKeeps, EndsKeep, TimeOutKeeps, RetryAfterBackoffKeeps,
     CreateShellKeeps, VisibleStepsKeep DEF GenerationStep

\* A message joins a batch whose barrier is closed and moves it past every
\* revision a generation may hold.
LEMMA AcceptKeeps ==
  ASSUME PublishingInvariant, NEW m \in Messages, Accept(m)
  PROVE  PublishingInvariant'
  <1>. USE DEF PublishingInvariant
  <1>1. UNCHANGED <<shell, outbox, mode, epoch, ready, userRetries, stalls>>
    BY DEF Accept
  <1>2. PICK b \in Batches, s \in RowType :
          /\ row' = [row EXCEPT ![b] = s]
          /\ AddMember(b, m) /\ ScheduleCollecting(b)
          /\ ~row[b].visible /\ ~s.visible
          /\ s.status = "collecting"
          /\ \/ s.rev = row[b].rev + 1 /\ s.retries = 0
             \/ row[b].status = "none"
    <2>1. CASE AcceptAppended(m) \/ AcceptInterrupt(m)
      <3>1. PICK b \in Batches :
              /\ ~row[b].visible
              /\ \/ row' = [row EXCEPT ![b] = Appended(row[b])]
                 \/ row' = [row EXCEPT ![b] = Interrupted(row[b])]
              /\ AddMember(b, m) /\ ScheduleCollecting(b)
        BY <2>1 DEF AcceptAppended, AcceptInterrupt, CanAppend, CanInterrupt
      <3>2. row[b] \in RowType  BY DEF TypeOK
      <3>3. PICK s \in {Appended(row[b]), Interrupted(row[b])} :
              row' = [row EXCEPT ![b] = s]
        BY <3>1
      <3>4. /\ s \in RowType /\ s.visible = row[b].visible
            /\ s.rev = row[b].rev + 1 /\ s.retries = 0 /\ s.status = "collecting"
        BY <3>2, <3>3, AdmissionRow
      <3>. QED  BY <3>1, <3>3, <3>4
    <2>2. CASE AcceptNewBatch(m)
      <3>1. PICK b \in Batches :
              /\ IsNextBatch(b) /\ row' = [row EXCEPT ![b] = NewRow]
              /\ AddMember(b, m) /\ ScheduleCollecting(b)
        BY <2>2 DEF AcceptNewBatch
      <3>2. row[b].status = "none" /\ ~row[b].visible
        BY <3>1 DEF IsNextBatch, ShellsBehindBarrier
      <3>. QED  BY <3>1, <3>2, NewRowType
    <2>. QED  BY <2>1, <2>2 DEF Accept
  <1>3. /\ row'[b] = s
        /\ \A c \in Batches \ {b} : row'[c] = row[c] /\ members'[c] = members[c]
        /\ row' \in [Batches -> RowType]
        /\ members' \in [Batches -> SUBSET Messages]
    BY <1>2 DEF TypeOK, AddMember
  <1>4. /\ gen' \in GenType /\ gen'.phase = gen.phase /\ gen'.b = gen.b
        /\ gen'.rev = gen.rev /\ gen'.answers = gen.answers
    <2>1. gen' = gen \/ gen' = [gen EXCEPT !.aborted = TRUE]
      BY DEF Accept, AcceptAppended, AcceptInterrupt, AcceptNewBatch
    <2>2. CASE gen' = [gen EXCEPT !.aborted = TRUE]
      BY <2>2 DEF TypeOK, GenType
    <2>. QED  BY <2>1, <2>2 DEF TypeOK
  <1>5. timer' \in [Batches -> {"none", "collect", "requeue"}]
    BY <1>2 DEF ScheduleCollecting, TypeOK
  <1>6. TypeOK'
    BY <1>1, <1>3, <1>4, <1>5 DEF TypeOK
  <1>7. ShellsBehindBarrier'
    BY <1>1, <1>2, <1>3 DEF ShellsBehindBarrier
  <1>8. gen.phase # "idle" => row[gen.b].rev \in Nat /\ gen.rev \in Nat
    BY DEF TypeOK, RowType, GenType
  <1>9. GenerationKnowsBatch'
    <2>1. CASE gen.phase # "idle" /\ gen.b = b
      BY <2>1, <1>2, <1>3, <1>4, <1>8 DEF GenerationKnowsBatch
    <2>2. CASE gen.phase # "idle" /\ gen.b # b
      BY <2>2, <1>3, <1>4 DEF GenerationKnowsBatch, TypeOK
    <2>3. CASE gen.phase = "idle"
      BY <2>3, <1>4 DEF GenerationKnowsBatch
    <2>. QED  BY <2>1, <2>2, <2>3
  <1>10. OpeningIsFresh' /\ DownCanRestart'
    BY <1>1, <1>4 DEF Accept, AtRest, OpeningIsFresh, DownCanRestart
  <1>11. BackoffHasRetries'
    <2>1. CASE gen.phase = "backoff" /\ gen.b = b
      <3>1. s.retries = 0
        BY <2>1, <1>2 DEF GenerationKnowsBatch
      <3>2. row[b].retries \in 0 .. TimeoutRetries /\ row[b].retries < TimeoutRetries
        BY <2>1 DEF BackoffHasRetries, TypeOK, RowType
      <3>3. 0 < TimeoutRetries
        BY <3>2, ConstantsAssumption DEF ConstantsAssumption
      <3>. QED  BY <2>1, <1>3, <1>4, <3>1, <3>3 DEF BackoffHasRetries
    <2>2. CASE gen.phase = "backoff" /\ gen.b # b
      BY <2>2, <1>3, <1>4 DEF BackoffHasRetries, TypeOK
    <2>3. CASE gen.phase # "backoff"
      BY <2>3, <1>4 DEF BackoffHasRetries
    <2>. QED  BY <2>1, <2>2, <2>3
  <1>. QED  BY <1>6, <1>7, <1>9, <1>10, <1>11

\* A retry also moves past every revision, and leaves the barrier as it is.
LEMMA UserRetryKeeps ==
  ASSUME PublishingInvariant, NEW b \in Batches, UserRetry(b)
  PROVE  PublishingInvariant'
  <1>. USE DEF PublishingInvariant
  <1>. DEFINE s == Retried(row[b])
  <1>1. /\ row' = [row EXCEPT ![b] = s]
        /\ timer' = [timer EXCEPT ![b] = "none"]
        /\ UNCHANGED <<members, shell, outbox, mode, epoch, gen, stalls>>
        /\ gen.phase \in {"idle", "hidden", "backoff", "visible"}
        /\ row[b].status \in {"failed", "completed"}
    BY DEF UserRetry, AtRest, CanRetry
  <1>2. /\ s \in RowType /\ s.visible = row[b].visible
        /\ s.rev = row[b].rev + 1 /\ s.retries = 0 /\ s.status = "queued"
    BY RetriedRow DEF TypeOK
  <1>3. /\ row'[b] = s
        /\ \A c \in Batches \ {b} : row'[c] = row[c]
        /\ row' \in [Batches -> RowType]
    BY <1>1, <1>2 DEF TypeOK
  <1>4. ready' \in Seq(Batches)
    BY DEF UserRetry, MakeReady, TypeOK
  <1>5. userRetries' \in 0 .. MaxUserRetries
    BY ConstantsAssumption DEF ConstantsAssumption, UserRetry, TypeOK
  <1>6. TypeOK'
    BY <1>1, <1>3, <1>4, <1>5 DEF TypeOK
  <1>7. ShellsBehindBarrier'
    BY <1>1, <1>2, <1>3 DEF ShellsBehindBarrier
  <1>8. gen.phase # "idle" => row[gen.b].rev \in Nat /\ gen.rev \in Nat
    BY DEF TypeOK, RowType, GenType
  <1>9. GenerationKnowsBatch'
    <2>1. CASE gen.phase # "idle" /\ gen.b = b
      BY <2>1, <1>1, <1>2, <1>3, <1>8 DEF GenerationKnowsBatch
    <2>2. CASE gen.phase # "idle" /\ gen.b # b
      BY <2>2, <1>1, <1>3 DEF GenerationKnowsBatch, TypeOK
    <2>3. CASE gen.phase = "idle"
      BY <2>3, <1>1 DEF GenerationKnowsBatch
    <2>. QED  BY <2>1, <2>2, <2>3
  <1>10. OpeningIsFresh' /\ DownCanRestart'
    BY <1>1 DEF OpeningIsFresh, DownCanRestart
  <1>11. BackoffHasRetries'
    <2>1. CASE gen.phase = "backoff" /\ gen.b = b
      <3>1. row[b].retries \in 0 .. TimeoutRetries /\ row[b].retries < TimeoutRetries
        BY <2>1 DEF BackoffHasRetries, TypeOK, RowType
      <3>2. 0 < TimeoutRetries
        BY <3>1, ConstantsAssumption DEF ConstantsAssumption
      <3>. QED  BY <2>1, <1>1, <1>2, <1>3, <3>2 DEF BackoffHasRetries
    <2>2. CASE gen.phase = "backoff" /\ gen.b # b
      BY <2>2, <1>1, <1>3 DEF BackoffHasRetries, TypeOK
    <2>3. CASE gen.phase # "backoff"
      BY <2>3, <1>1 DEF BackoffHasRetries
    <2>. QED  BY <2>1, <2>2, <2>3
  <1>. QED  BY <1>6, <1>7, <1>9, <1>10, <1>11

LEMMA RecoverKeeps ==
  ASSUME TypeOK, NEW w \in Seq(Batches), Recover(w)
  PROVE  /\ RowsKept
         /\ timer' \in [Batches -> {"none", "collect", "requeue"}]
         /\ ready' \in Seq(Batches)
  <1>1. PICK due \in SUBSET Batches :
          row' = [b \in Batches |-> Recovered(row[b], HasShell(b), b \in due)]
    BY DEF Recover
  <1>2. \A b \in Batches : HasShell(b) \in BOOLEAN /\ (b \in due) \in BOOLEAN
    BY DEF HasShell
  <1>3. \A b \in Batches : Kept(row[b], Recovered(row[b], HasShell(b), b \in due))
    BY <1>2, RecoveredRow DEF TypeOK
  <1>4. RowsKept
    BY <1>1, <1>3 DEF RowsKept, Kept
  <1>5. timer' \in [Batches -> {"none", "collect", "requeue"}]
    BY DEF Recover, TypeOK
  <1>6. PICK S \in SUBSET Batches : \E q \in OldestFirst(S) : ready' = w \o q
    <2>. DEFINE T == {b \in Batches : row'[b].status = "queued"
                                        /\ ~\E i \in DOMAIN w : w[i] = b}
    <2>1. T \in SUBSET Batches  OBVIOUS
    <2>2. \E q \in OldestFirst(T) : ready' = w \o q  BY DEF Recover
    <2>. QED  BY <2>1, <2>2
  <1>7. PICK q \in OldestFirst(S) : ready' = w \o q
    BY <1>6
  <1>8. PICK n \in 0 .. MaxBatches : q \in [1 .. n -> Batches]
    BY DEF OldestFirst
  <1>9. n \in Nat  BY ConstantsAssumption DEF ConstantsAssumption
  <1>10. q \in Seq(Batches)
    BY <1>8, <1>9, SeqDef
  <1>11. ready' \in Seq(Batches)
    BY <1>7, <1>10, ConcatProperties
  <1>. QED  BY <1>4, <1>5, <1>11

LEMMA SweepAndRestartKeep ==
  ASSUME PublishingInvariant, Sweep \/ Restart
  PROVE  PublishingInvariant'
  <1>. USE DEF PublishingInvariant
  <1>1. /\ RowsKept
        /\ timer' \in [Batches -> {"none", "collect", "requeue"}]
        /\ ready' \in Seq(Batches)
    <2>1. <<>> \in Seq(Batches) /\ ready \in Seq(Batches)
      BY EmptySeq DEF TypeOK
    <2>. QED  BY <2>1, RecoverKeeps DEF Sweep, Restart
  <1>2. UNCHANGED <<members, shell, outbox, gen, userRetries, stalls>>
    BY DEF Sweep, Restart
  <1>3. mode' = "up" /\ epoch' \in 1 .. MaxEpoch
    BY ConstantsAssumption
       DEF ConstantsAssumption, Sweep, Restart, DownCanRestart, TypeOK
  <1>4. TypeOK'
    BY <1>1, <1>2, <1>3 DEF TypeOK, RowsKept
  <1>5. GenCarried  BY <1>2 DEF GenCarried
  <1>. QED  BY <1>1, <1>2, <1>3, <1>4, <1>5, KeptStep

LEMMA StopAndCrashKeep ==
  ASSUME PublishingInvariant, Stop \/ Crash
  PROVE  PublishingInvariant'
  <1>. USE DEF PublishingInvariant
  <1>1. /\ UNCHANGED <<durable, epoch, userRetries, stalls>>
        /\ epoch < MaxEpoch
        /\ mode' \in {"stopping", "down"}
        /\ timer' = [b \in Batches |-> "none"]
    BY DEF Stop, Crash
  <1>2. RowsKept  BY <1>1, RowsUnchanged DEF durable
  <1>3. GenCarried
    <2>1. CASE gen' = NoGen \/ gen' = gen
      BY <2>1 DEF GenCarried
    <2>2. CASE ~(gen' = NoGen \/ gen' = gen)
      <3>1. gen.phase # "idle" /\ gen' = [gen EXCEPT !.aborted = TRUE]
        BY <2>2 DEF Stop, Crash
      <3>2. /\ gen' \in GenType /\ gen'.phase = gen.phase /\ gen'.b = gen.b
            /\ gen'.rev = gen.rev /\ gen'.answers = gen.answers
        BY <3>1 DEF TypeOK, GenType
      <3>. QED  BY <3>1, <3>2 DEF GenCarried
    <2>. QED  BY <2>1, <2>2
  <1>4. ready' \in Seq(Batches)
    BY EmptySeq DEF Stop, Crash, TypeOK
  <1>5. TypeOK'
    BY <1>1, <1>3, <1>4, GenStaysTyped DEF durable, TypeOK
  <1>. QED  BY <1>1, <1>2, <1>3, <1>5, KeptStep DEF durable

(***************************************************************************)
(* The theorems.                                                           *)
(***************************************************************************)
LEMMA InitPublishing == Init => PublishingInvariant
  <1>. SUFFICES ASSUME Init PROVE PublishingInvariant
    OBVIOUS
  <1>1. NoShell \in ShellType  BY DEF NoShell, ShellType
  <1>2. NoGen \in GenType /\ NoGen.phase = "idle"
    BY Ranges DEF NoGen, GenType, Phases
  <1>3. TypeOK
    BY <1>1, <1>2, NewRowType, Ranges, EmptySeq DEF Init, TypeOK
  <1>4. ShellsBehindBarrier
    BY DEF Init, ShellsBehindBarrier, NoRow, NoShell
  <1>. QED  BY <1>2, <1>3, <1>4
            DEF Init, PublishingInvariant, GenerationKnowsBatch, OpeningIsFresh,
                BackoffHasRetries, DownCanRestart

LEMMA NextPublishing == PublishingInvariant /\ [Next]_vars => PublishingInvariant'
  <1>. SUFFICES ASSUME PublishingInvariant, [Next]_vars
                PROVE  PublishingInvariant'
    OBVIOUS
  <1>1. CASE UNCHANGED vars
    <2>. USE DEF PublishingInvariant
    <2>1. RowsKept /\ GenCarried
      BY <1>1, RowsUnchanged DEF vars, GenCarried
    <2>2. TypeOK'  BY <1>1 DEF vars, TypeOK
    <2>. QED  BY <1>1, <2>1, <2>2, KeptStep DEF vars, DownCanRestart
  <1>2. CASE Next
    BY <1>2, AcceptKeeps, TimerFiresKeeps, LeaseStepsKeep, UserRetryKeeps,
       DrainStepKeeps, GenerationStepKeeps, HeartbeatKeeps,
       SweepAndRestartKeep, StopAndCrashKeep
       DEF Next
  <1>. QED  BY <1>1, <1>2

\* The types of every variable, and with them the bound on automatic retries,
\* are kept by every step of the coordinator; so are the facts behind the
\* barrier of beginPublishing().
THEOREM PublishingInvariantHolds == Spec => []PublishingInvariant
  BY InitPublishing, NextPublishing, PTL DEF Spec

\* Every variable has its type: see TypeOK.
THEOREM TypesHold == Spec => []TypeOK
  <1>1. PublishingInvariant => TypeOK  BY DEF PublishingInvariant
  <1>. QED  BY <1>1, PublishingInvariantHolds, PTL

\* No batch gets two assistant messages, whatever interrupts, timeouts, sweeps,
\* crashes, restarts and user retries compete for it.
THEOREM OneReplyPerBatch == Spec => []AtMostOneReply
  <1>1. PublishingInvariant => AtMostOneReply
    BY DEF PublishingInvariant, ShellsBehindBarrier, AtMostOneReply
  <1>. QED  BY <1>1, PublishingInvariantHolds, PTL

\* The reply a batch gets answers all messages of the batch and no other, in
\* every later state as well: nothing joins a batch behind its barrier.
THEOREM ReplyAnswersItsBatch == Spec => []AnswersWholeBatch
  <1>1. PublishingInvariant => AnswersWholeBatch
    <2>. SUFFICES ASSUME PublishingInvariant, NEW b \in Batches, HasShell(b)
                  PROVE  shell[b].answers = members[b]
      BY DEF AnswersWholeBatch
    <2>1. shell[b].copies \in Nat /\ shell[b].copies > 0 /\ shell[b].copies <= 1
      BY DEF HasShell, PublishingInvariant, ShellsBehindBarrier, TypeOK, ShellType
    <2>2. shell[b].copies = 1  BY <2>1
    <2>. QED  BY <2>2 DEF PublishingInvariant, ShellsBehindBarrier
  <1>. QED  BY <1>1, PublishingInvariantHolds, PTL

(***************************************************************************)
(* Until a user retries: what a step makes of a row.  Onward never leads   *)
(* back over the barrier or out of an end; Steady leaves a row as settled, *)
(* or as unsettled, as it was.                                             *)
(***************************************************************************)
Waits(r) == r.status \in OpenStatuses /\ ~r.visible

Onward(r, s) ==
  /\ RowIsSound(s)
  /\ s.status = "none" <=> r.status = "none"
  /\ r.visible => s.visible
  /\ r.status \in {"completed", "failed"} => s.status = r.status
  /\ r.linked => s.linked
  /\ Waits(s) => Waits(r)

Steady(r, s) ==
  /\ Onward(r, s)
  /\ s.visible = r.visible
  /\ Waits(r) => Waits(s)

LEMMA SteadyRows ==
  ASSUME NEW r \in RowType, RowIsSound(r), NEW o \in 0 .. MaxEpoch,
         NEW p \in BOOLEAN
  PROVE  /\ Steady(r, r)
         /\ Steady(r, [r EXCEPT !.leased = p])
         /\ r.status = "collecting" => Steady(r, [r EXCEPT !.status = "queued"])
         /\ r.status = "queued" => Steady(r, Generating(r, o))
         /\ r.status = "generating" => Steady(r, Requeued(r))
         /\ r.status = "generating" => Steady(r, Generating(RetryPrepared(r), o))
         /\ r.status = "publishing" => Steady(r, Completed(r, p))
         /\ r.status = "publishing" => Steady(r, Failed(r))
  <1>. USE DEF Steady, Onward, Waits, RowIsSound, RowType, Statuses, OpenStatuses
  <1>1. Steady(r, r) /\ Steady(r, [r EXCEPT !.leased = p])
    OBVIOUS
  <1>2. r.status = "collecting" => Steady(r, [r EXCEPT !.status = "queued"])
    OBVIOUS
  <1>3. r.status = "queued" => Steady(r, Generating(r, o))
    BY DEF Generating
  <1>4. r.status = "generating" => Steady(r, Requeued(r))
    BY DEF Requeued
  <1>5. r.status = "generating" => Steady(r, Generating(RetryPrepared(r), o))
    BY DEF Generating, RetryPrepared
  <1>6. r.status = "publishing" => Steady(r, Completed(r, p))
    BY DEF Completed
  <1>7. r.status = "publishing" => Steady(r, Failed(r))
    BY DEF Failed
  <1>. QED  BY <1>1, <1>2, <1>3, <1>4, <1>5, <1>6, <1>7

\* Recovery settles nothing and fails nothing.
LEMMA RecoveredSteady ==
  ASSUME NEW r \in RowType, RowIsSound(r), NEW h \in BOOLEAN, NEW d \in BOOLEAN
  PROVE  /\ Steady(r, Recovered(r, h, d))
         /\ Recovered(r, h, d).status = "failed" => r.status = "failed"
  <1>. DEFINE s == Recovered(r, h, d)
  <1>. USE DEF Steady, Onward, Waits, RowIsSound, RowType, Statuses, OpenStatuses
  <1>1. CASE LostItsModel(r)
    <2>1. s = Requeued(r) /\ r.status = "generating"
      BY <1>1 DEF Recovered, LostItsModel
    <2>. QED  BY <2>1 DEF Requeued
  <1>2. CASE ~LostItsModel(r) /\ r.status = "publishing" /\ r.visible
    <2>1. s = Relinked(KeptAsPartial(r), h)  BY <1>2 DEF Recovered, LostItsModel
    <2>2. /\ KeptAsPartial(r) \in RowType
          /\ KeptAsPartial(r).status = "completed"
          /\ KeptAsPartial(r).visible /\ KeptAsPartial(r).owner = 0
          /\ KeptAsPartial(r).linked = r.linked
      BY <1>2, Ranges DEF KeptAsPartial
    <2>3. /\ s.status = "completed" /\ s.visible /\ s.owner = 0
          /\ r.linked => s.linked
      BY <2>1, <2>2 DEF Relinked
    <2>. QED  BY <1>2, <2>3
  <1>3. CASE ~LostItsModel(r) /\ r.status = "collecting" /\ d
    <2>1. s = [r EXCEPT !.status = "queued"]  BY <1>3 DEF Recovered, LostItsModel
    <2>. QED  BY <2>1, <1>3
  <1>4. CASE /\ ~LostItsModel(r)
             /\ ~(r.status = "publishing" /\ r.visible)
             /\ ~(r.status = "collecting" /\ d)
    <2>1. s = Relinked(r, h)  BY <1>4 DEF Recovered
    <2>2. /\ s.status = r.status /\ s.visible = r.visible /\ s.owner = r.owner
          /\ r.linked => s.linked
      BY <2>1 DEF Relinked
    <2>. QED  BY <2>2
  <1>. QED  BY <1>1, <1>2, <1>3, <1>4

(***************************************************************************)
(* Steps that settle nothing, and steps that settle one batch.             *)
(***************************************************************************)
Unretried ==
  /\ PublishingInvariant /\ SettlingInvariant
  /\ userRetries = 0

RowsSteady ==
  /\ members' = members
  /\ \A b \in Batches : Steady(row[b], row'[b])

NothingFails ==
  \A b \in Batches : row'[b].status = "failed" => row[b].status = "failed"

\* The one batch that waited waits no more.
Settles(b) ==
  /\ members' = members
  /\ Waits(row[b]) /\ ~Waits(row'[b])
  /\ Onward(row[b], row'[b])
  /\ \A c \in Batches \ {b} : row'[c] = row[c]

RowsOnward ==
  /\ members' = members
  /\ \A b \in Batches : Onward(row[b], row'[b])

LEMMA RowsSame ==
  ASSUME Unretried, UNCHANGED <<row, members>>
  PROVE  RowsSteady /\ NothingFails
  BY SteadyRows, Ranges
     DEF Unretried, PublishingInvariant, SettlingInvariant, TypeOK,
         RowsAreSound, RowsSteady, NothingFails

LEMMA OneRowSteady ==
  ASSUME Unretried, NEW b \in Batches, NEW s, Steady(row[b], s),
         row' = [row EXCEPT ![b] = s], members' = members
  PROVE  /\ RowsSteady
         /\ row'[b] = s
         /\ \A c \in Batches \ {b} : row'[c] = row[c]
  <1>1. \A c \in Batches : row[c] \in RowType /\ RowIsSound(row[c])
    BY DEF Unretried, PublishingInvariant, SettlingInvariant, TypeOK, RowsAreSound
  <1>2. row'[b] = s /\ \A c \in Batches \ {b} : row'[c] = row[c]
    BY DEF Unretried, PublishingInvariant, TypeOK
  <1>3. \A c \in Batches : Steady(row[c], row[c])
    BY <1>1, SteadyRows, Ranges
  <1>. QED  BY <1>2, <1>3 DEF RowsSteady

LEMMA SteadyGoesOnward ==
  /\ RowsSteady => RowsOnward
  /\ \A b \in Batches : Unretried /\ Settles(b) => RowsOnward
  <1>1. RowsSteady => RowsOnward
    BY DEF RowsSteady, RowsOnward, Steady
  <1>2. ASSUME NEW b \in Batches, Unretried, Settles(b) PROVE RowsOnward
    <2>1. \A c \in Batches : row[c] \in RowType /\ RowIsSound(row[c])
      BY <1>2 DEF Unretried, PublishingInvariant, SettlingInvariant, TypeOK, RowsAreSound
    <2>2. \A c \in Batches : Onward(row[c], row[c])
      BY <2>1, SteadyRows, Ranges DEF Steady
    <2>. QED  BY <1>2, <2>2 DEF Settles, RowsOnward
  <1>. QED  BY <1>1, <1>2

\* What is left to show of a step that admits no message.
LEMMA OnwardStep ==
  ASSUME Unretried, RowsOnward, GenerationAtBarrier', HandsOverFinished',
         PublishedNeverFails'
  PROVE  SettlingInvariant'
  <1>. USE DEF Unretried, SettlingInvariant
  <1>1. RowsAreSound'
    BY DEF RowsOnward, Onward, RowsAreSound
  <1>2. RowsInOrder' /\ MembersApart'
    BY DEF RowsOnward, Onward, RowsInOrder, MembersApart
  <1>3. WaitingIsNewest'
    BY DEF RowsOnward, Onward, WaitingIsNewest, Waits
  <1>. QED  BY <1>1, <1>2, <1>3

\* The generation ends, stays where it is, or moves on without a new promise.
GenCalm ==
  \/ gen'.phase = "idle"
  \/ /\ gen.phase # "idle" /\ gen'.b = gen.b /\ mode' # "down"
     /\ <<gen.phase, gen'.phase>> \in
          {<<"hidden", "backoff">>, <<"opening", "visible">>,
           <<gen.phase, gen.phase>>}
     /\ gen.phase \in {"opening", "reopening"}
          => row'[gen.b].status = row[gen.b].status

LEMMA CalmStep ==
  ASSUME Unretried, RowsSteady, NothingFails, GenCalm, UNCHANGED <<shell, outbox>>
  PROVE  SettlingInvariant'
  <1>. USE DEF Unretried, SettlingInvariant
  <1>1. RowsOnward  BY SteadyGoesOnward
  <1>2. GenerationAtBarrier'
    <2>1. CASE gen'.phase = "idle"
      BY <2>1 DEF GenerationAtBarrier
    <2>2. CASE gen'.phase # "idle"
      <3>1. gen.b \in Batches /\ gen'.b = gen.b /\ Steady(row[gen.b], row'[gen.b])
            /\ RowIsSound(row[gen.b])
        BY <2>2 DEF GenCalm, PublishingInvariant, TypeOK, RowsSteady, RowsAreSound
      <3>2. CASE gen'.phase = gen.phase
        BY <2>2, <3>1, <3>2
           DEF GenCalm, GenerationAtBarrier, Steady, Onward
      <3>3. CASE gen'.phase # gen.phase
        BY <2>2, <3>1, <3>3
           DEF GenCalm, GenerationAtBarrier, Steady, Onward, RowIsSound
      <3>. QED  BY <3>2, <3>3
    <2>. QED  BY <2>1, <2>2
  <1>3. HandsOverFinished'
    BY DEF HandsOverFinished, RowsSteady, Steady, Onward, PublishingInvariant, TypeOK
  <1>4. PublishedNeverFails'
    BY DEF PublishedNeverFails, NothingFails, HasShell
  <1>. QED  BY <1>1, <1>2, <1>3, <1>4, OnwardStep

LEMMA BenignAbortSteady ==
  ASSUME Unretried, gen.phase # "idle", BenignAbort, members' = members
  PROVE  /\ RowsSteady /\ NothingFails
         /\ gen'.phase = "idle"
         /\ row[gen.b].status # "generating" => row' = row
  <1>. DEFINE b == gen.b
  <1>1. b \in Batches /\ row[b] \in RowType /\ RowIsSound(row[b]) /\ epoch \in 0 .. MaxEpoch
    BY GenBatch DEF Unretried, SettlingInvariant, RowsAreSound
  <1>2. \/ row' = row
        \/ /\ row[b].status = "generating"
           /\ row' = [row EXCEPT ![b] = Requeued(row[b])]
    BY DEF BenignAbort
  <1>3. Requeued(row[b]).status = "queued"
    BY <1>1 DEF Requeued, RowType
  <1>4. RowsSteady /\ NothingFails
    <2>1. CASE row' = row
      BY <2>1, RowsSame
    <2>2. CASE row' # row
      <3>1. Steady(row[b], Requeued(row[b]))
        BY <1>1, <1>2, <2>2, SteadyRows
      <3>. QED  BY <1>1, <1>2, <1>3, <2>2, <3>1, OneRowSteady DEF NothingFails
    <2>. QED  BY <2>1, <2>2
  <1>. QED  BY <1>2, <1>4 DEF BenignAbort, NoGen

LEMMA TimersAndLeasesSteady ==
  ASSUME Unretried, NEW b \in Batches, TimerFires(b) \/ LeaseExpires(b) \/ Stall(b)
  PROVE  SettlingInvariant' /\ RowsSteady
  <1>1. row[b] \in RowType /\ RowIsSound(row[b])
    BY DEF Unretried, PublishingInvariant, SettlingInvariant, TypeOK, RowsAreSound
  <1>2. /\ UNCHANGED <<members, shell, outbox, gen>>
        /\ gen.phase # "idle" => mode' # "down"
    BY DEF TimerFires, LeaseExpires, Stall, process, Unretried,
           SettlingInvariant, GenerationAtBarrier
  <1>3. \/ row' = row
        \/ /\ row[b].status = "collecting" /\ AtRest
           /\ row' = [row EXCEPT ![b] = [row[b] EXCEPT !.status = "queued"]]
        \/ row' = [row EXCEPT ![b] = [row[b] EXCEPT !.leased = FALSE]]
    BY DEF TimerFires, LeaseExpires, Stall, CanMarkQueued
  <1>4. CASE row' = row
    <2>1. RowsSteady /\ NothingFails  BY <1>2, <1>4, RowsSame
    <2>2. GenCalm  BY <1>2, <1>4 DEF GenCalm
    <2>. QED  BY <1>2, <2>1, <2>2, CalmStep
  <1>5. CASE /\ row[b].status = "collecting" /\ AtRest
             /\ row' = [row EXCEPT ![b] = [row[b] EXCEPT !.status = "queued"]]
    <2>1. Steady(row[b], [row[b] EXCEPT !.status = "queued"])
      BY <1>1, <1>5, SteadyRows, Ranges
    <2>2. [row[b] EXCEPT !.status = "queued"].status = "queued"
      BY <1>1 DEF RowType
    <2>3. RowsSteady /\ NothingFails
      BY <1>2, <1>5, <2>1, <2>2, OneRowSteady DEF NothingFails
    <2>4. GenCalm  BY <1>2, <1>5 DEF GenCalm, AtRest
    <2>. QED  BY <1>2, <2>3, <2>4, CalmStep
  <1>6. CASE row' = [row EXCEPT ![b] = [row[b] EXCEPT !.leased = FALSE]]
    <2>1. Steady(row[b], [row[b] EXCEPT !.leased = FALSE])
      BY <1>1, SteadyRows, Ranges
    <2>2. [row[b] EXCEPT !.leased = FALSE].status = row[b].status
      BY <1>1 DEF RowType
    <2>3. RowsSteady /\ NothingFails /\ \A c \in Batches : row'[c].status = row[c].status
      BY <1>2, <1>6, <2>1, <2>2, OneRowSteady DEF NothingFails
    <2>4. GenCalm
      BY <1>2, <2>3 DEF GenCalm, Unretried, PublishingInvariant, TypeOK
    <2>. QED  BY <1>2, <2>3, <2>4, CalmStep
  <1>. QED  BY <1>3, <1>4, <1>5, <1>6

\* The end of a generation that settles nothing, and its moves between awaits.
LEMMA EndsSteady ==
  ASSUME Unretried,
         \/ LoseBarrier \/ NoticeAbort \/ RetryFenced \/ AbandonBackoff
         \/ LoseCompletion \/ FailHandOver \/ TimeOut \/ LoseShell
  PROVE  SettlingInvariant' /\ RowsSteady
  <1>1. /\ gen.phase # "idle" /\ UNCHANGED <<members, shell, outbox>>
    BY DEF LoseBarrier, NoticeAbort, RetryFenced, AbandonBackoff, LoseCompletion,
           FailHandOver, TimeOut, LoseShell, genRest
  <1>2. CASE LoseBarrier \/ NoticeAbort \/ RetryFenced
    <2>1. RowsSteady /\ NothingFails /\ gen'.phase = "idle"
      BY <1>1, <1>2, BenignAbortSteady DEF LoseBarrier, NoticeAbort, RetryFenced
    <2>. QED  BY <1>1, <2>1, CalmStep DEF GenCalm
  <1>3. CASE AbandonBackoff \/ LoseCompletion \/ FailHandOver \/ TimeOut \/ LoseShell
    <2>1. row' = row
      BY <1>3 DEF AbandonBackoff, LoseCompletion, FailHandOver, TimeOut, LoseShell
    <2>2. mode' # "down"
      BY <1>1, <1>3
         DEF AbandonBackoff, LoseCompletion, FailHandOver, TimeOut, LoseShell,
             genRest, Unretried, SettlingInvariant, GenerationAtBarrier
    <2>3. GenCalm
      BY <1>1, <1>3, <2>1, <2>2
         DEF AbandonBackoff, LoseCompletion, FailHandOver, TimeOut, LoseShell,
             GenCalm, NoGen, Unretried, PublishingInvariant, TypeOK, GenType
    <2>. QED  BY <1>1, <2>1, <2>3, RowsSame, CalmStep
  <1>. QED  BY <1>2, <1>3

LEMMA HeartbeatSteady ==
  ASSUME Unretried, Heartbeat
  PROVE  SettlingInvariant' /\ RowsSteady
  <1>. DEFINE b == gen.b
  <1>1. /\ gen.phase \in {"hidden", "visible"} /\ UNCHANGED <<members, shell, outbox>>
    BY DEF Heartbeat, genRest
  <1>2. b \in Batches /\ row[b] \in RowType /\ RowIsSound(row[b])
    BY <1>1, GenBatch DEF Unretried, SettlingInvariant, RowsAreSound
  <1>3. RowsSteady /\ NothingFails
    <2>. DEFINE s == [row[b] EXCEPT !.leased = TRUE]
    <2>1. row' = row \/ row' = [row EXCEPT ![b] = s]
      BY DEF Heartbeat
    <2>2. Steady(row[b], s)  BY <1>2, SteadyRows, Ranges
    <2>3. s.status = row[b].status  BY <1>2 DEF RowType
    <2>4. CASE row' = row
      BY <1>1, <2>4, RowsSame
    <2>5. CASE row' = [row EXCEPT ![b] = s]
      <3>. HIDE DEF s
      <3>. QED  BY <1>1, <1>2, <2>2, <2>3, <2>5, OneRowSteady DEF NothingFails
    <2>. QED  BY <2>1, <2>4, <2>5
  <1>4. gen'.phase = gen.phase /\ gen'.b = gen.b /\ mode' # "down"
    BY DEF Heartbeat, genRest, Unretried, PublishingInvariant, TypeOK, GenType
  <1>. QED  BY <1>1, <1>3, <1>4, CalmStep DEF GenCalm

\* Recovery, and the ways a process ends.
LEMMA ProcessSteady ==
  ASSUME Unretried, Sweep \/ Restart \/ Stop \/ Crash
  PROVE  SettlingInvariant' /\ RowsSteady
  <1>1. UNCHANGED <<members, shell, outbox>>
    BY DEF Sweep, Restart, Stop, Crash, durable
  <1>2. RowsSteady /\ NothingFails
    <2>1. CASE Sweep \/ Restart
      <3>1. PICK due \in SUBSET Batches :
              row' = [b \in Batches |-> Recovered(row[b], HasShell(b), b \in due)]
        BY <2>1 DEF Sweep, Restart, Recover
      <3>2. \A b \in Batches : /\ row[b] \in RowType /\ RowIsSound(row[b])
                              /\ HasShell(b) \in BOOLEAN /\ (b \in due) \in BOOLEAN
        BY DEF Unretried, PublishingInvariant, SettlingInvariant, TypeOK,
               RowsAreSound, HasShell
      <3>. QED  BY <1>1, <3>1, <3>2, RecoveredSteady DEF RowsSteady, NothingFails
    <2>2. CASE Stop \/ Crash
      BY <2>2, <1>1, RowsSame DEF Stop, Crash, durable
    <2>. QED  BY <2>1, <2>2
  <1>3. GenCalm
    <2>1. CASE Sweep
      BY <2>1 DEF Sweep, AtRest, GenCalm
    <2>2. CASE Restart
      BY <2>2 DEF Restart, GenCalm, Unretried, SettlingInvariant, GenerationAtBarrier
    <2>3. CASE Stop
      BY <2>3 DEF Stop, AtRest, GenCalm, Unretried, PublishingInvariant, TypeOK, GenType
    <2>4. CASE Crash
      BY <2>4 DEF Crash, NoGen, GenCalm
    <2>. QED  BY <2>1, <2>2, <2>3, <2>4
  <1>. QED  BY <1>1, <1>2, <1>3, CalmStep

\* The batch of the generation, with what it may say of itself.
LEMMA SoundGenBatch ==
  ASSUME Unretried, gen.phase # "idle"
  PROVE  /\ gen.b \in Batches
         /\ row[gen.b] \in RowType /\ RowIsSound(row[gen.b])
         /\ epoch \in 0 .. MaxEpoch /\ epoch # 0
         /\ mode # "down"
  BY GenBatch DEF Unretried, PublishingInvariant, SettlingInvariant, TypeOK,
     RowsAreSound, GenerationAtBarrier

\* Steps that touch neither a message nor the outbox keep what both promise.
LEMMA ShellsSame ==
  ASSUME Unretried, RowsOnward, UNCHANGED <<shell, outbox>>
  PROVE  /\ HandsOverFinished'
         /\ NothingFails => PublishedNeverFails'
  BY DEF Unretried, PublishingInvariant, SettlingInvariant, TypeOK, RowsOnward,
         Onward, HandsOverFinished, PublishedNeverFails, NothingFails, HasShell

LEMMA DrainSteady ==
  ASSUME Unretried, DrainStep
  PROVE  SettlingInvariant' /\ RowsSteady
  <1>. DEFINE b == Head(ready)
  <1>1. CASE SkipReady
    <2>1. GenCalm  BY <1>1 DEF SkipReady, GenCalm
    <2>. QED  BY <1>1, <2>1, RowsSame, CalmStep DEF SkipReady, durable
  <1>2. CASE StartGeneration
    <2>1. /\ row[b].status = "queued" /\ mode' = "up"
          /\ row' = [row EXCEPT ![b] = Generating(row[b], epoch)]
          /\ gen'.phase = "hidden" /\ gen'.b = b
          /\ UNCHANGED <<members, shell, outbox>>
      BY <1>2 DEF StartGeneration, CanBeginGenerating, Begin
    <2>2. b \in Batches
      <3>1. ready \in Seq(Batches) /\ ready # <<>>
        BY <1>2 DEF StartGeneration, Unretried, PublishingInvariant, TypeOK
      <3>. QED  BY <3>1, HeadTailProperties
    <2>3. row[b] \in RowType /\ RowIsSound(row[b]) /\ epoch \in 0 .. MaxEpoch
      BY <2>2 DEF Unretried, PublishingInvariant, SettlingInvariant, TypeOK, RowsAreSound
    <2>4. /\ Steady(row[b], Generating(row[b], epoch))
          /\ Generating(row[b], epoch).status = "generating"
      BY <2>1, <2>3, SteadyRows DEF Generating, RowType
    <2>5. RowsSteady /\ NothingFails
      BY <2>1, <2>2, <2>4, OneRowSteady DEF NothingFails
    <2>6. GenerationAtBarrier'
      BY <2>1, <2>2, <2>3, <2>5
         DEF GenerationAtBarrier, RowsSteady, Steady, RowIsSound
    <2>. QED  BY <2>1, <2>5, <2>6, SteadyGoesOnward, ShellsSame, OnwardStep
  <1>. QED  BY <1>1, <1>2 DEF DrainStep

LEMMA RetryAfterBackoffSteady ==
  ASSUME Unretried, RetryAfterBackoff
  PROVE  SettlingInvariant' /\ RowsSteady
  <1>. DEFINE b == gen.b
              s == Generating(RetryPrepared(row[b]), epoch)
  <1>1. /\ gen.phase = "backoff" /\ row[b].status = "generating"
        /\ row' = [row EXCEPT ![b] = s]
        /\ gen'.phase = "hidden" /\ gen'.b = b
        /\ mode' = "up" /\ UNCHANGED <<members, shell, outbox>>
    BY DEF RetryAfterBackoff, CanStillRetry, CanPrepareRetry, Begin, genRest
  <1>2. /\ b \in Batches /\ row[b] \in RowType /\ RowIsSound(row[b])
        /\ epoch \in 0 .. MaxEpoch
    BY <1>1, SoundGenBatch
  <1>3. Steady(row[b], s) /\ s.status = "generating"
    BY <1>1, <1>2, SteadyRows DEF Generating, RetryPrepared, RowType
  <1>4. RowsSteady /\ NothingFails
    <2>. HIDE DEF s
    <2>. QED  BY <1>1, <1>2, <1>3, OneRowSteady DEF NothingFails
  <1>5. GenerationAtBarrier'
    BY <1>1, <1>2, <1>4
       DEF GenerationAtBarrier, RowsSteady, Steady, RowIsSound
  <1>. QED  BY <1>1, <1>4, <1>5, SteadyGoesOnward, ShellsSame, OnwardStep

\* The message is stored for a batch that no other step has settled otherwise.
LEMMA CreateShellSteady ==
  ASSUME Unretried, CreateShell \/ CreateShellAndLose
  PROVE  SettlingInvariant' /\ RowsSteady
  <1>. DEFINE b == gen.b
  <1>1. /\ gen.phase \in {"opening", "reopening"} /\ UNCHANGED genRest
        /\ \A c \in Batches \ {b} : shell'[c] = shell[c]
    BY DEF CreateShell, CreateShellAndLose, Unretried, PublishingInvariant, TypeOK
  <1>2. /\ b \in Batches /\ RowIsSound(row[b]) /\ mode # "down"
        /\ row[b].status = "publishing" /\ row[b].visible
    BY <1>1, SoundGenBatch
       DEF Unretried, SettlingInvariant, GenerationAtBarrier, RowIsSound
  <1>3. /\ row' = row
        /\ gen'.phase = "idle" \/ (gen'.phase = "visible" /\ gen'.b = b)
    <2>1. CASE CreateShell
      BY <2>1 DEF CreateShell, Unretried, PublishingInvariant, TypeOK, GenType
    <2>2. CASE CreateShellAndLose
      BY <2>2, <1>1, <1>2, BenignAbortSteady DEF CreateShellAndLose, genRest
    <2>. QED  BY <2>1, <2>2
  <1>4. RowsSteady  BY <1>1, <1>3, RowsSame DEF genRest
  <1>5. GenerationAtBarrier'
    BY <1>1, <1>2, <1>3 DEF GenerationAtBarrier, genRest
  <1>6. HandsOverFinished'
    <2>1. b \notin outbox
      BY <1>2 DEF Unretried, SettlingInvariant, HandsOverFinished
    <2>. QED  BY <1>1, <1>3, <2>1
              DEF Unretried, PublishingInvariant, SettlingInvariant, TypeOK,
                  HandsOverFinished, genRest
  <1>7. PublishedNeverFails'
    BY <1>1, <1>2, <1>3
       DEF Unretried, SettlingInvariant, PublishedNeverFails, HasShell
  <1>. QED  BY <1>4, <1>5, <1>6, <1>7, SteadyGoesOnward, OnwardStep

\* The steps behind the barrier.  A message that is stored keeps its batch from
\* failing: whoever may still fail the row may also complete it.
LEMMA VisibleSteady ==
  ASSUME Unretried, FinishContent \/ CompleteReply \/ FailVisible
  PROVE  SettlingInvariant' /\ RowsSteady
  <1>. DEFINE b == gen.b
  <1>1. /\ gen.phase \in {"visible", "sent"} /\ UNCHANGED <<members, outbox, mode>>
    BY DEF FinishContent, CompleteReply, FailVisible, genRest
  <1>2. /\ b \in Batches /\ row[b] \in RowType /\ RowIsSound(row[b])
        /\ epoch \in 0 .. MaxEpoch /\ epoch # 0 /\ mode # "down" /\ row[b].visible
    BY <1>1, SoundGenBatch DEF Unretried, SettlingInvariant, GenerationAtBarrier
  <1>3. /\ \A c \in Batches : shell'[c].copies = shell[c].copies
        /\ \A c \in Batches : shell[c].status = "sent" => shell'[c].status = "sent"
    <2>1. shell' = shell \/ shell' = [shell EXCEPT ![b].status = "sent"]
      BY DEF FinishContent, CompleteReply, FailVisible
    <2>2. shell \in [Batches -> ShellType]
      BY DEF Unretried, PublishingInvariant, TypeOK
    <2>3. /\ [shell[b] EXCEPT !.status = "sent"].copies = shell[b].copies
          /\ [shell[b] EXCEPT !.status = "sent"].status = "sent"
      BY <1>2, <2>2 DEF ShellType
    <2>. QED  BY <1>2, <2>1, <2>2, <2>3
  <1>4. CASE row' = row
    <2>1. RowsSteady /\ NothingFails  BY <1>1, <1>4, RowsSame
    <2>2. GenerationAtBarrier'
      <3>1. CASE FinishContent
        <4>1. gen'.phase = "sent" /\ gen'.b = b /\ shell'[b].status = "sent"
          BY <1>2, <3>1 DEF FinishContent, Unretried, PublishingInvariant, TypeOK,
                            GenType, ShellType
        <4>. QED  BY <1>1, <1>2, <1>4, <4>1 DEF GenerationAtBarrier
      <3>2. CASE CompleteReply
        <4>1. PICK p \in BOOLEAN : row' = [row EXCEPT ![b] = Completed(row[b], p)]
          BY <3>2 DEF CompleteReply
        <4>2. row[b].status = "publishing" /\ row'[b].status = "completed"
          BY <1>2, <3>2, <4>1
             DEF CompleteReply, CanComplete, Completed, RowType, Unretried,
                 PublishingInvariant, TypeOK
        <4>. QED  BY <1>4, <4>2
      <3>3. CASE FailVisible
        BY <3>3, <1>2, <1>1 DEF FailVisible, NoGen, GenerationAtBarrier
      <3>. QED  BY <3>1, <3>2, <3>3
    <2>3. HandsOverFinished' /\ PublishedNeverFails'
      BY <1>1, <1>3, <1>4
         DEF Unretried, PublishingInvariant, SettlingInvariant, TypeOK,
             HandsOverFinished, PublishedNeverFails, HasShell
    <2>. QED  BY <2>1, <2>2, <2>3, SteadyGoesOnward, OnwardStep
  <1>5. CASE CompleteReply \/ (FailVisible /\ HasShell(b) /\ CanComplete(row[b], gen.rev, epoch))
    <2>1. PICK p \in BOOLEAN : row' = [row EXCEPT ![b] = Completed(row[b], p)]
      BY <1>5 DEF CompleteReply, FailVisible
    <2>2. row[b].status = "publishing"
      BY <1>5 DEF CompleteReply, CanComplete
    <2>3. /\ Steady(row[b], Completed(row[b], p))
          /\ Completed(row[b], p).status = "completed"
          /\ Completed(row[b], p).linked
      BY <1>2, <2>2, SteadyRows DEF Completed, RowType
    <2>4. RowsSteady /\ NothingFails /\ row'[b].status = "completed" /\ row'[b].linked
      BY <1>1, <1>2, <2>1, <2>3, OneRowSteady DEF NothingFails
    <2>5. GenerationAtBarrier'
      <3>1. CASE CompleteReply
        <4>1. gen'.phase = "completed" /\ gen'.b = b /\ shell' = shell
              /\ shell[b].status = "sent"
          BY <3>1 DEF CompleteReply, Unretried, PublishingInvariant, TypeOK, GenType,
                      SettlingInvariant, GenerationAtBarrier
        <4>. QED  BY <1>1, <1>2, <2>4, <4>1 DEF GenerationAtBarrier
      <3>2. CASE FailVisible
        BY <3>2, <1>1, <1>2 DEF FailVisible, NoGen, GenerationAtBarrier
      <3>. QED  BY <1>5, <3>1, <3>2
    <2>6. HandsOverFinished' /\ PublishedNeverFails'
      BY <1>1, <1>3, <2>4
         DEF Unretried, PublishingInvariant, SettlingInvariant, TypeOK, RowsSteady,
             Steady, Onward, NothingFails, HandsOverFinished, PublishedNeverFails,
             HasShell
    <2>. QED  BY <2>4, <2>5, <2>6, SteadyGoesOnward, OnwardStep
  <1>6. CASE /\ FailVisible
             /\ ~(HasShell(b) /\ CanComplete(row[b], gen.rev, epoch))
             /\ row' # row
    <2>1. /\ row' = [row EXCEPT ![b] = Failed(row[b])]
          /\ CanFail(row[b], gen.rev, epoch)
          /\ shell' = shell /\ gen'.phase = "idle"
      BY <1>6 DEF FailVisible, NoGen
    <2>2. row[b].status = "publishing" /\ ~HasShell(b)
      BY <1>2, <1>6, <2>1 DEF CanFail, CanComplete, RowIsSound
    <2>3. Steady(row[b], Failed(row[b]))
      BY <1>2, <2>2, SteadyRows
    <2>4. RowsSteady /\ \A c \in Batches \ {b} : row'[c] = row[c]
      BY <1>1, <1>2, <2>1, <2>3, OneRowSteady
    <2>5. GenerationAtBarrier'  BY <2>1 DEF GenerationAtBarrier
    <2>6. HandsOverFinished'
      BY <1>1, <2>1, <2>4, SteadyGoesOnward, ShellsSame
    <2>7. PublishedNeverFails'
      BY <2>1, <2>2, <2>4
         DEF Unretried, SettlingInvariant, PublishedNeverFails, HasShell
    <2>. QED  BY <2>4, <2>5, <2>6, <2>7, SteadyGoesOnward, OnwardStep
  <1>. QED
    <2>1. FinishContent => row' = row  BY DEF FinishContent
    <2>. QED  BY <1>4, <1>5, <1>6, <2>1

LEMMA HandOverSteady ==
  ASSUME Unretried, HandOver
  PROVE  SettlingInvariant' /\ RowsSteady
  <1>1. /\ gen.phase = "completed" /\ gen'.phase = "idle"
        /\ outbox' = outbox \cup {gen.b}
        /\ UNCHANGED <<row, members, shell>>
    BY DEF HandOver, NoGen
  <1>2. RowsSteady /\ NothingFails  BY <1>1, RowsSame
  <1>3. GenerationAtBarrier'  BY <1>1 DEF GenerationAtBarrier
  <1>4. HandsOverFinished' /\ PublishedNeverFails'
    BY <1>1 DEF Unretried, SettlingInvariant, GenerationAtBarrier,
                HandsOverFinished, PublishedNeverFails, HasShell
  <1>. QED  BY <1>2, <1>3, <1>4, SteadyGoesOnward, OnwardStep

\* The two steps that settle a waiting batch: its barrier opens, or its hidden
\* generation fails.
LEMMA OpenBarrierSettles ==
  ASSUME Unretried, OpenBarrier
  PROVE  SettlingInvariant' /\ Settles(gen.b) /\ row'[gen.b].visible
  <1>. DEFINE b == gen.b
              s == Publishing(row[b], epoch)
  <1>1. /\ gen.phase = "hidden" /\ row[b].status = "generating" /\ ~row[b].visible
        /\ row' = [row EXCEPT ![b] = s]
        /\ UNCHANGED <<members, shell, outbox, mode>>
    BY DEF OpenBarrier, CanBeginPublishing, genRest
  <1>2. /\ b \in Batches /\ row[b] \in RowType /\ epoch \in 0 .. MaxEpoch
        /\ mode # "down"
    BY <1>1, SoundGenBatch
  <1>3. s.visible /\ s.status = "publishing" /\ s.linked = row[b].linked
    BY <1>2 DEF Publishing, RowType
  <1>4. row'[b] = s /\ \A c \in Batches \ {b} : row'[c] = row[c]
    BY <1>1, <1>2 DEF Unretried, PublishingInvariant, TypeOK
  <1>5. gen'.phase \in {"opening", "reopening"} /\ gen'.b = b
    BY DEF OpenBarrier, Unretried, PublishingInvariant, TypeOK, GenType
  <1>6. Settles(b)
    BY <1>1, <1>3, <1>4
       DEF Settles, Waits, Onward, RowIsSound, OpenStatuses
  <1>7. RowsOnward  BY <1>2, <1>6, SteadyGoesOnward
  <1>8. GenerationAtBarrier'
    BY <1>1, <1>2, <1>3, <1>4, <1>5 DEF GenerationAtBarrier
  <1>9. NothingFails  BY <1>3, <1>4 DEF NothingFails
  <1>. QED  BY <1>1, <1>3, <1>4, <1>6, <1>7, <1>8, <1>9, ShellsSame, OnwardStep

LEMMA FailHiddenSettles ==
  ASSUME Unretried, FailHidden
  PROVE  /\ SettlingInvariant'
         /\ RowsSteady \/ /\ gen.b \in Batches
                          /\ Settles(gen.b)
                          /\ ~row'[gen.b].visible
                          /\ row'[gen.b].status = "failed"
  <1>. DEFINE b == gen.b
              s == Failed(row[b])
  <1>1. /\ gen.phase = "hidden" /\ gen'.phase = "idle"
        /\ UNCHANGED <<members, shell, outbox>>
    BY DEF FailHidden, NoGen, genRest
  <1>2. /\ b \in Batches /\ row[b] \in RowType /\ RowIsSound(row[b])
        /\ epoch # 0 /\ ~row[b].visible
    BY <1>1, SoundGenBatch DEF Unretried, SettlingInvariant, GenerationAtBarrier
  <1>3. CASE row' = row
    <2>1. RowsSteady /\ NothingFails  BY <1>1, <1>3, RowsSame
    <2>. QED  BY <1>1, <2>1, CalmStep DEF GenCalm
  <1>4. CASE row' # row
    <2>1. row' = [row EXCEPT ![b] = s] /\ CanFail(row[b], gen.rev, epoch)
      BY <1>4 DEF FailHidden
    <2>2. row[b].status = "generating"
      BY <1>2, <2>1 DEF CanFail, RowIsSound
    <2>3. /\ s.status = "failed" /\ s.visible = row[b].visible /\ s.owner = 0
          /\ s.linked = row[b].linked
      BY <1>2 DEF Failed, RowType
    <2>4. row'[b] = s /\ \A c \in Batches \ {b} : row'[c] = row[c]
      BY <1>2, <2>1 DEF Unretried, PublishingInvariant, TypeOK
    <2>5. Settles(b)
      BY <1>1, <1>2, <2>2, <2>3, <2>4
         DEF Settles, Waits, Onward, RowIsSound, OpenStatuses
    <2>6. RowsOnward  BY <1>2, <2>5, SteadyGoesOnward
    <2>7. GenerationAtBarrier'  BY <1>1 DEF GenerationAtBarrier
    <2>8. HandsOverFinished'  BY <1>1, <2>6, ShellsSame
    <2>9. PublishedNeverFails'
      BY <1>1, <1>2, <2>4
         DEF Unretried, PublishingInvariant, SettlingInvariant,
             ShellsBehindBarrier, PublishedNeverFails, HasShell
    <2>. QED  BY <1>2, <2>3, <2>4, <2>5, <2>6, <2>7, <2>8, <2>9, OnwardStep
  <1>. QED  BY <1>3, <1>4

\* A new message joins the one batch that waits or opens one when none does.
Admits(b, m) ==
  /\ m \notin Accepted
  /\ members' = [members EXCEPT ![b] = @ \cup {m}]
  /\ Waits(row[b]) \/ row[b].status = "none"
  /\ Waits(row'[b]) /\ RowIsSound(row'[b])
  /\ \A c \in Batches : b < c => row[c].status = "none"
  /\ \A c \in Batches : c < b => row[c].status # "none"
  /\ \A c \in Batches \ {b} : row'[c] = row[c] /\ ~Waits(row[c])

LEMMA AcceptAdmits ==
  ASSUME Unretried, NEW m \in Messages, Accept(m)
  PROVE  \E b \in Batches : Admits(b, m)
  <1>. USE DEF Unretried, SettlingInvariant
  <1>0. /\ row \in [Batches -> RowType] /\ m \notin Accepted
        /\ \A c \in Batches : RowIsSound(row[c])
    BY DEF PublishingInvariant, TypeOK, RowsAreSound, Accept
  <1>1. CASE AcceptAppended(m) \/ AcceptInterrupt(m)
    <2>1. PICK b \in Batches, s \in RowType :
            /\ Waits(row[b])
            /\ row' = [row EXCEPT ![b] = s]
            /\ s.status = "collecting" /\ ~s.visible /\ s.owner = 0
            /\ AddMember(b, m)
      <3>1. CASE AcceptAppended(m)
        <4>1. PICK b \in Batches :
                /\ row[b].status \in {"collecting", "queued"} /\ ~row[b].visible
                /\ row' = [row EXCEPT ![b] = Appended(row[b])]
                /\ AddMember(b, m)
          BY <3>1 DEF AcceptAppended, CanAppend
        <4>2. /\ Appended(row[b]) \in RowType
              /\ Appended(row[b]).status = "collecting"
              /\ ~Appended(row[b]).visible
          BY <1>0, <4>1, AdmissionRow
        <4>3. Appended(row[b]).owner = 0
          BY <1>0, <4>1 DEF Appended, RowType, RowIsSound
        <4>. QED  BY <4>1, <4>2, <4>3 DEF Waits, OpenStatuses
      <3>2. CASE AcceptInterrupt(m)
        <4>1. PICK b \in Batches :
                /\ row[b].status = "generating" /\ ~row[b].visible
                /\ row' = [row EXCEPT ![b] = Interrupted(row[b])]
                /\ AddMember(b, m)
          BY <3>2 DEF AcceptInterrupt, CanInterrupt
        <4>2. /\ Interrupted(row[b]) \in RowType
              /\ Interrupted(row[b]).status = "collecting"
              /\ ~Interrupted(row[b]).visible
          BY <1>0, <4>1, AdmissionRow
        <4>3. Interrupted(row[b]).owner = 0
          BY <1>0, <4>1 DEF Interrupted, RowType
        <4>. QED  BY <4>1, <4>2, <4>3 DEF Waits, OpenStatuses
      <3>. QED  BY <1>1, <3>1, <3>2
    <2>2. row'[b] = s /\ \A c \in Batches \ {b} : row'[c] = row[c]
      BY <1>0, <2>1
    <2>3. \A c \in Batches : b < c => row[c].status = "none"
      BY <2>1 DEF WaitingIsNewest, Waits
    <2>4. \A c \in Batches \ {b} : ~Waits(row[c])
      BY <2>1, <2>3 DEF WaitingIsNewest, Waits, OpenStatuses, Batches
    <2>5. \A c \in Batches : c < b => row[c].status # "none"
      BY <2>1 DEF RowsInOrder, Waits, OpenStatuses
    <2>. QED  BY <1>0, <2>1, <2>2, <2>3, <2>4, <2>5
              DEF Admits, AddMember, Waits, RowIsSound, OpenStatuses
  <1>2. CASE AcceptNewBatch(m)
    <2>1. PICK b \in Batches :
            /\ IsNextBatch(b)
            /\ row' = [row EXCEPT ![b] = NewRow]
            /\ AddMember(b, m)
      BY <1>2 DEF AcceptNewBatch
    <2>2. row'[b] = NewRow /\ \A c \in Batches \ {b} : row'[c] = row[c]
      BY <1>0, <2>1
    <2>3. row[b].status = "none" /\ \A c \in Batches : b < c => row[c].status = "none"
      BY <2>1 DEF IsNextBatch, RowsInOrder
    <2>4. ASSUME NEW c \in Batches, Waits(row[c])  PROVE FALSE
      <3>1. IsOpenBatch(c)
        BY <2>4 DEF IsOpenBatch, Waits, OpenStatuses, WaitingIsNewest
      <3>2. JoinsNone(c)  BY <1>2, <3>1 DEF AcceptNewBatch
      <3>. QED  BY <1>0, <2>4, <3>2
                DEF JoinsNone, CanInterrupt, Waits, OpenStatuses, RowIsSound
    <2>5. Waits(NewRow) /\ RowIsSound(NewRow)
      BY DEF NewRow, NoRow, Waits, OpenStatuses, RowIsSound
    <2>6. \A c \in Batches : c < b => row[c].status # "none"
      BY <2>1 DEF IsNextBatch
    <2>. QED  BY <1>0, <2>1, <2>2, <2>3, <2>4, <2>5, <2>6 DEF Admits, AddMember
  <1>. QED  BY <1>1, <1>2 DEF Accept

LEMMA AcceptSettles ==
  ASSUME Unretried, NEW m \in Messages, Accept(m)
  PROVE  SettlingInvariant'
  <1>. USE DEF Unretried, SettlingInvariant
  <1>1. PICK b \in Batches : Admits(b, m)
    BY AcceptAdmits
  <1>2. /\ row \in [Batches -> RowType] /\ members \in [Batches -> SUBSET Messages]
        /\ \A c \in Batches : RowIsSound(row[c])
        /\ UNCHANGED <<shell, outbox, mode>> /\ mode # "down"
    BY DEF PublishingInvariant, TypeOK, RowsAreSound, Accept, AtRest
  <1>3. /\ members'[b] = members[b] \cup {m}
        /\ \A c \in Batches \ {b} : members'[c] = members[c]
    BY <1>1, <1>2 DEF Admits
  <1>4. RowsAreSound'
    BY <1>1, <1>2 DEF RowsAreSound, Admits
  <1>5. RowsInOrder'
    <2>. SUFFICES ASSUME NEW c \in Batches, NEW d \in Batches, c < d,
                         row'[d].status # "none"
                  PROVE  row'[c].status # "none"
      BY DEF RowsInOrder
    <2>1. CASE c = b
      BY <1>1, <2>1 DEF Admits, Waits, OpenStatuses
    <2>2. CASE c # b /\ d # b
      BY <1>1, <2>2 DEF Admits, RowsInOrder
    <2>3. CASE c # b /\ d = b
      BY <1>1, <2>3 DEF Admits
    <2>. QED  BY <2>1, <2>2, <2>3
  <1>6. MembersApart'
    <2>1. \A c \in Batches : m \notin members[c]
      BY <1>1 DEF Admits, Accepted
    <2>2. \A c \in Batches : row'[c].status = "none" <=> members'[c] = {}
      BY <1>1, <1>3 DEF Admits, Waits, OpenStatuses, MembersApart
    <2>3. \A c, d \in Batches : c # d => members'[c] \cap members'[d] = {}
      BY <1>3, <2>1 DEF MembersApart
    <2>. QED  BY <2>2, <2>3 DEF MembersApart
  <1>7. WaitingIsNewest'
    <2>. SUFFICES ASSUME NEW c \in Batches, NEW d \in Batches, c < d,
                         Waits(row'[c])
                  PROVE  row'[d].status = "none"
      BY DEF WaitingIsNewest, Waits
    <2>1. c = b  BY <1>1 DEF Admits
    <2>. QED  BY <1>1, <2>1 DEF Admits, Batches
  <1>8. /\ gen'.phase = gen.phase /\ gen'.b = gen.b
    BY DEF Accept, AcceptAppended, AcceptInterrupt, AcceptNewBatch,
           PublishingInvariant, TypeOK, GenType
  <1>9. ~row[b].visible /\ ~row'[b].visible /\ row'[b].status # "failed"
        /\ row[b].status \notin {"publishing", "completed"}
    BY <1>1, <1>2 DEF Admits, Waits, OpenStatuses, RowIsSound
  <1>10. GenerationAtBarrier'
    <2>1. CASE gen.phase = "idle"
      BY <1>8, <2>1 DEF GenerationAtBarrier
    <2>2. CASE gen.phase # "idle" /\ gen.b # b
      BY <1>1, <1>2, <1>8, <2>2
         DEF GenerationAtBarrier, Admits, PublishingInvariant, TypeOK
    <2>3. CASE gen.phase # "idle" /\ gen.b = b
      BY <1>1, <1>2, <1>8, <1>9, <2>3 DEF GenerationAtBarrier
    <2>. QED  BY <2>1, <2>2, <2>3
  <1>11. HandsOverFinished' /\ PublishedNeverFails'
    BY <1>1, <1>2, <1>9
       DEF HandsOverFinished, PublishedNeverFails, HasShell, Admits,
           PublishingInvariant, TypeOK
  <1>. QED  BY <1>4, <1>5, <1>6, <1>7, <1>10, <1>11

LEMMA InitSettling == Init => SettlingInvariant
  <1>1. RowIsSound(NoRow)  BY DEF NoRow, RowIsSound
  <1>. QED  BY <1>1
       DEF Init, NoRow, NoGen, NoShell, SettlingInvariant, RowsAreSound, RowsInOrder,
           MembersApart, GenerationAtBarrier, WaitingIsNewest, OpenStatuses,
           HandsOverFinished, PublishedNeverFails, HasShell

\* Every step admits a message, settles the batch that waits, or settles nothing.
Outcome ==
  \/ RowsSteady
  \/ \E b \in Batches :
       /\ Settles(b)
       /\ row'[b].visible \/ row'[b].status = "failed"
  \/ \E b \in Batches, m \in Messages : Admits(b, m)

LEMMA NextUnretried ==
  ASSUME Unretried, [Next]_vars, userRetries' = 0
  PROVE  SettlingInvariant' /\ Outcome
  <1>. USE DEF Outcome
  <1>1. CASE UNCHANGED vars
    <2>1. GenCalm
      BY <1>1 DEF vars, GenCalm, Unretried, SettlingInvariant, GenerationAtBarrier
    <2>. QED  BY <1>1, <2>1, RowsSame, CalmStep DEF vars
  <1>2. ASSUME NEW m \in Messages, Accept(m)
        PROVE  SettlingInvariant' /\ Outcome
    BY <1>2, AcceptAdmits, AcceptSettles
  <1>3. ASSUME NEW b \in Batches, TimerFires(b) \/ LeaseExpires(b) \/ Stall(b)
        PROVE  SettlingInvariant' /\ Outcome
    BY <1>3, TimersAndLeasesSteady
  <1>4. ASSUME NEW b \in Batches, UserRetry(b)
        PROVE  FALSE
    BY <1>4 DEF UserRetry, Unretried
  <1>5. CASE DrainStep \/ Heartbeat
    BY <1>5, DrainSteady, HeartbeatSteady
  <1>6. CASE GenerationStep
    <2>1. CASE OpenBarrier
      BY <2>1, OpenBarrierSettles, SoundGenBatch DEF OpenBarrier
    <2>2. CASE FailHidden
      BY <2>2, FailHiddenSettles
    <2>3. CASE \/ LoseBarrier \/ NoticeAbort \/ RetryFenced \/ AbandonBackoff
               \/ LoseCompletion \/ FailHandOver \/ TimeOut \/ LoseShell
      BY <2>3, EndsSteady
    <2>4. CASE \/ RetryAfterBackoff \/ CreateShell \/ CreateShellAndLose
               \/ FinishContent \/ CompleteReply \/ FailVisible \/ HandOver
      BY <2>4, RetryAfterBackoffSteady, CreateShellSteady, VisibleSteady,
         HandOverSteady
    <2>. QED  BY <1>6, <2>1, <2>2, <2>3, <2>4 DEF GenerationStep
  <1>7. CASE Sweep \/ Restart \/ Stop \/ Crash
    BY <1>7, ProcessSteady
  <1>. QED  BY <1>1, <1>2, <1>3, <1>4, <1>5, <1>6, <1>7 DEF Next

LEMMA NextSettling ==
  PublishingInvariant /\ SettlingInvariant /\ [Next]_vars => SettlingInvariant'
  <1>. SUFFICES ASSUME PublishingInvariant, SettlingInvariant, [Next]_vars,
                       userRetries' = 0
                PROVE  SettlingInvariant'
    BY DEF SettlingInvariant
  <1>1. userRetries = 0
    <2>1. userRetries' = userRetries \/ userRetries' = userRetries + 1
      BY DEF Next, vars, Accept, TimerFires, LeaseExpires, Stall, UserRetry,
             DrainStep, StartGeneration, SkipReady, GenerationStep, OpenBarrier,
             LoseBarrier, NoticeAbort, TimeOut, FailHidden, AbandonBackoff,
             RetryAfterBackoff, RetryFenced, CreateShell, CreateShellAndLose,
             LoseShell, FinishContent, CompleteReply, LoseCompletion, HandOver,
             FailHandOver, FailVisible, genRest, Heartbeat, Sweep, Restart, Stop,
             Crash
    <2>. QED  BY <2>1 DEF PublishingInvariant, TypeOK
  <1>. QED  BY <1>1, NextUnretried DEF Unretried

\* As long as no user has retried a batch, the order of admission and what is
\* said of a published reply hold together, in every state.
THEOREM SettlingInvariantHolds == Spec => []SettlingInvariant
  <1>. QED  BY InitSettling, NextSettling, PublishingInvariantHolds, PTL DEF Spec

\* Until a user retries, at most one batch waits for its barrier and it is the
\* newest, and appendOrCreateMessage() never meets an open row that can neither
\* take the message nor step aside.
THEOREM AdmissionIsOrdered == Spec => [](userRetries = 0 => AdmissionOrder)
  <1>1. SettlingInvariant => (userRetries = 0 => AdmissionOrder)
    BY DEF SettlingInvariant, AdmissionOrder, AdmissionTerminates, IsOpenBatch,
           CanAppend, RowsAreSound, RowIsSound
  <1>. QED  BY <1>1, SettlingInvariantHolds, PTL

\* When no user retries, what is published is handed over finished, never failed
\* afterwards and never generated again, whatever errors, lost leases, sweeps
\* and restarts intervene.
THEOREM PublishedStaysFinal ==
  ASSUME MaxUserRetries = 0
  PROVE  Spec => PublishedIsFinal
  <1>. DEFINE NoStepBack ==
         \A b \in Batches :
           row[b].visible \/ row[b].status \in {"completed", "failed"}
             => row'[b].status \in {"publishing", "completed", "failed"}
  <1>1. PublishingInvariant => userRetries = 0
    BY DEF PublishingInvariant, TypeOK
  <1>2. PublishingInvariant /\ SettlingInvariant => HandsOverFinished /\ PublishedNeverFails
    BY <1>1 DEF SettlingInvariant
  <1>3. /\ PublishingInvariant /\ PublishingInvariant'
        /\ SettlingInvariant /\ [Next]_vars
        => [NoStepBack]_row
    <2>. SUFFICES ASSUME PublishingInvariant, PublishingInvariant',
                         SettlingInvariant, [Next]_vars, NEW b \in Batches,
                         row[b].visible \/ row[b].status \in {"completed", "failed"}
                  PROVE  row'[b].status \in {"publishing", "completed", "failed"}
      OBVIOUS
    <2>1. userRetries = 0 /\ userRetries' = 0
      BY DEF PublishingInvariant, TypeOK
    <2>2. Outcome  BY <2>1, NextUnretried DEF Unretried
    <2>3. CASE RowsOnward
      <3>1. row'[b] \in RowType  BY DEF PublishingInvariant, TypeOK
      <3>2. Onward(row[b], row'[b])  BY <2>3 DEF RowsOnward
      <3>. QED  BY <3>1, <3>2 DEF Onward, RowIsSound, RowType, Statuses
    <2>4. CASE \E c \in Batches, m \in Messages : Admits(c, m)
      <3>1. PICK c \in Batches : \E m \in Messages : Admits(c, m)  BY <2>4
      <3>2. RowIsSound(row[b]) /\ row[b] \in RowType
        BY <2>1 DEF SettlingInvariant, RowsAreSound, PublishingInvariant, TypeOK
      <3>3. row[c].status # "none" => ~row[c].visible /\ row[c].status \in OpenStatuses
        BY <3>1 DEF Admits, Waits
      <3>4. b # c
        BY <2>1, <3>2, <3>3 DEF RowIsSound, OpenStatuses
      <3>. QED  BY <3>1, <3>2, <3>4 DEF Admits, RowIsSound, RowType, Statuses
    <2>. QED  BY <2>1, <2>2, <2>3, <2>4, SteadyGoesOnward DEF Outcome, Unretried
  <1>. QED  BY <1>2, <1>3, PublishingInvariantHolds, SettlingInvariantHolds, PTL
            DEF Spec, PublishedIsFinal, NeverPulledBack

(***************************************************************************)
(* The coordinator implements Conversation, step by step.                  *)
(***************************************************************************)
LEMMA InitConversation == Init => Abstract!Init
  BY DEF Init, Abstract!Init, MembersOf, WaitingBatches, CommittedBatches,
         DroppedBatches, NoRow, OpenStatuses

Drops(r) == r.status = "failed" /\ ~r.visible

\* A row that neither waits nor is visible can only have been dropped.
LEMMA SteadyMapped ==
  ASSUME NEW r \in RowType, NEW s, Steady(r, s)
  PROVE  /\ Waits(s) <=> Waits(r)
         /\ s.visible = r.visible
         /\ Drops(s) <=> Drops(r)
  BY DEF Steady, Onward, Waits, Drops, RowType, Statuses, OpenStatuses

LEMMA SteadyStutters ==
  ASSUME Unretried, RowsSteady
  PROVE  UNCHANGED Abstract!cvars
  <1>1. \A b \in Batches : row[b] \in RowType /\ Steady(row[b], row'[b])
    BY DEF Unretried, PublishingInvariant, TypeOK, RowsSteady
  <1>2. /\ WaitingBatches' = WaitingBatches
        /\ CommittedBatches' = CommittedBatches
        /\ DroppedBatches' = DroppedBatches
    BY <1>1, SteadyMapped DEF WaitingBatches, CommittedBatches, DroppedBatches,
                              Waits, Drops
  <1>. QED  BY <1>2 DEF RowsSteady, Abstract!cvars, MembersOf

\* All that waits is in the batch that is settled.
LEMMA SettlesTogether ==
  ASSUME Unretried, NEW b \in Batches, Settles(b),
         row'[b].visible \/ row'[b].status = "failed"
  PROVE  Abstract!Commit \/ Abstract!GiveUp
  <1>. USE DEF Unretried, SettlingInvariant
  <1>1. /\ Waits(row[b]) /\ ~Waits(row'[b]) /\ members' = members
        /\ \A c \in Batches \ {b} : row'[c] = row[c]
    BY DEF Settles
  <1>2. \A c \in Batches \ {b} : ~Waits(row[c])
    BY <1>1 DEF WaitingIsNewest, Waits, OpenStatuses, Batches
  <1>3. WaitingBatches = {b} /\ WaitingBatches' = {}
    BY <1>1, <1>2 DEF WaitingBatches, Waits
  <1>4. /\ MembersOf(WaitingBatches) = members[b]
        /\ MembersOf(WaitingBatches)' = {}
        /\ members[b] # {}
    BY <1>1, <1>3 DEF MembersOf, MembersApart, Waits, OpenStatuses
  <1>5. CASE row'[b].visible
    <2>1. /\ CommittedBatches' = CommittedBatches \cup {b}
          /\ DroppedBatches' = DroppedBatches
      BY <1>1, <1>5 DEF CommittedBatches, DroppedBatches, Waits, OpenStatuses
    <2>2. /\ MembersOf(CommittedBatches)' = MembersOf(CommittedBatches) \cup members[b]
          /\ MembersOf(DroppedBatches)' = MembersOf(DroppedBatches)
      BY <1>1, <2>1 DEF MembersOf
    <2>. QED  BY <1>4, <2>2 DEF Abstract!Commit
  <1>6. CASE ~row'[b].visible /\ row'[b].status = "failed"
    <2>1. /\ CommittedBatches' = CommittedBatches
          /\ DroppedBatches' = DroppedBatches \cup {b}
      BY <1>1, <1>6 DEF CommittedBatches, DroppedBatches, Waits, OpenStatuses
    <2>2. /\ MembersOf(CommittedBatches)' = MembersOf(CommittedBatches)
          /\ MembersOf(DroppedBatches)' = MembersOf(DroppedBatches) \cup members[b]
      BY <1>1, <2>1 DEF MembersOf
    <2>. QED  BY <1>4, <2>2 DEF Abstract!GiveUp
  <1>. QED  BY <1>5, <1>6

LEMMA AdmitsSays ==
  ASSUME Unretried, NEW b \in Batches, NEW m \in Messages, Admits(b, m)
  PROVE  Abstract!Say(m)
  <1>. USE DEF Unretried, SettlingInvariant
  <1>1. /\ members'[b] = members[b] \cup {m}
        /\ \A c \in Batches \ {b} : members'[c] = members[c] /\ row'[c] = row[c]
                                    /\ ~Waits(row[c])
        /\ \A c \in Batches : m \notin members[c]
        /\ Waits(row'[b]) /\ ~row[b].visible /\ row[b].status # "failed"
    BY DEF Admits, Accepted, PublishingInvariant, TypeOK, MembersApart, RowsAreSound,
           RowIsSound, Waits, OpenStatuses
  <1>2. WaitingBatches' = {b} /\ WaitingBatches \subseteq {b}
    BY <1>1 DEF WaitingBatches, Waits
  <1>3. MembersOf(WaitingBatches) = members[b]
    <2>1. CASE Waits(row[b])
      BY <1>2, <2>1 DEF MembersOf, WaitingBatches, Waits
    <2>2. CASE ~Waits(row[b])
      <3>1. members[b] = {}
        BY <2>2 DEF Admits, MembersApart
      <3>2. WaitingBatches = {}
        BY <1>2, <2>2 DEF WaitingBatches, Waits
      <3>. QED  BY <3>1, <3>2 DEF MembersOf
    <2>. QED  BY <2>1, <2>2
  <1>4. MembersOf(WaitingBatches)' = members[b] \cup {m}
    BY <1>1, <1>2 DEF MembersOf
  <1>5. /\ CommittedBatches' = CommittedBatches /\ b \notin CommittedBatches
        /\ DroppedBatches' = DroppedBatches /\ b \notin DroppedBatches
    BY <1>1 DEF CommittedBatches, DroppedBatches, Waits, OpenStatuses
  <1>6. /\ MembersOf(CommittedBatches)' = MembersOf(CommittedBatches)
        /\ MembersOf(DroppedBatches)' = MembersOf(DroppedBatches)
    BY <1>1, <1>5 DEF MembersOf, CommittedBatches, DroppedBatches
  <1>7. m \notin MembersOf(WaitingBatches) \cup MembersOf(CommittedBatches)
                   \cup MembersOf(DroppedBatches)
    BY <1>1 DEF MembersOf, WaitingBatches, CommittedBatches, DroppedBatches
  <1>. QED  BY <1>3, <1>4, <1>6, <1>7 DEF Abstract!Say

\* When no user retries, every step of the coordinator with its batches, fences,
\* leases, timers and crashes is a step of Conversation or leaves it as it is:
\* messages wait, and are settled together by a reply or by giving up.
THEOREM CoordinatorConverses ==
  ASSUME MaxUserRetries = 0
  PROVE  Spec => Abstract!Spec
  <1>1. PublishingInvariant => userRetries = 0
    BY DEF PublishingInvariant, TypeOK
  <1>2. /\ PublishingInvariant /\ PublishingInvariant'
        /\ SettlingInvariant /\ [Next]_vars
        => [Abstract!Next]_(Abstract!cvars)
    <2>. SUFFICES ASSUME PublishingInvariant, PublishingInvariant',
                         SettlingInvariant, [Next]_vars
                  PROVE  Abstract!Next \/ UNCHANGED Abstract!cvars
      OBVIOUS
    <2>1. Unretried /\ Outcome
      <3>1. userRetries = 0 /\ userRetries' = 0
        BY DEF PublishingInvariant, TypeOK
      <3>. QED  BY <3>1, NextUnretried DEF Unretried
    <2>. QED  BY <2>1, SteadyStutters, SettlesTogether, AdmitsSays
              DEF Outcome, Abstract!Next
  <1>. QED  BY <1>2, InitConversation, PublishingInvariantHolds,
               SettlingInvariantHolds, PTL DEF Spec, Abstract!Spec
===============================================================================
