--------------------------- MODULE VideoTasksProofs ---------------------------
(***************************************************************************)
(* For any tasks, limits and crashes: a task that is not settled has a job *)
(* or a step, what was said of it is true and was said once, an outcome    *)
(* stands, and a deleted task is not spoken of.  A step changes one task,  *)
(* so the invariant is judged task by task.                                *)
(*                                                                         *)
(* BillingInvariant, on top of it: what the vendor bills of a task whose   *)
(* id is not known was counted as a failure or lost with its process.      *)
(***************************************************************************)
EXTENDS VideoTasks, TLAPS

Phases == Waiting \cup Words \cup {"ending"}
Row == [status : Statuses, remote : BOOLEAN, attempts : Nat]

PhaseOf(t) == IF step.task = t THEN step.phase ELSE "idle"

Silent(said) == said["clip"] = 0 /\ said["sorry"] = 0

\* A task with row r, n jobs, the follow-ups said and the phase ph of its step.
\* A step that is about to end has left a job behind (Moves); nothing was said
\* of a task that may still be settled (Quiet); the word under way is the
\* outcome in the row (Meant).
Moves(r, n, ph, isUnplanned) ==
  r.status \in {"queued", "running"} =>
    n > 0 \/ ph \notin {"idle", "ending"} \/ isUnplanned

True(r, said) ==
  /\ said["clip"] + said["sorry"] <= 1
  /\ said["clip"] > 0 => r.status \in {"succeeded", "gone"}
  /\ said["sorry"] > 0 => r.status \in {"failed", "gone"}

Quiet(r, said, ph) ==
  r.status \in {"none", "queued", "running"} \/ ph \in Waiting \cup Words => Silent(said)

Meant(r, ph) ==
  /\ ph = "clip" => r.status = "succeeded"
  /\ ph = "sorry" => r.status = "failed"
  /\ ph # "idle" => r.status # "none"

Good(r, n, said, ph, isNew, isUnplanned) ==
  /\ Moves(r, n, ph, isUnplanned) /\ True(r, said) /\ Quiet(r, said, ph)
  /\ Meant(r, ph)
  /\ isNew => r.status = "none"

GoodTask(t) ==
  Good(task[t], jobs[t], spoken[t], PhaseOf(t), t \in creating, t \in unplanned)

VideoInvariant == TypeOK /\ \A t \in Tasks : GoodTask(t)

-------------------------------------------------------------------------------
LEMMA InvariantGivesProperties ==
  VideoInvariant => ChainUnbroken /\ SpokenOnce
  <1>. SUFFICES ASSUME VideoInvariant, NEW t \in Tasks
                PROVE  MovesOn(t) /\ Truthful(t)
    BY DEF ChainUnbroken, SpokenOnce
  <1>1. GoodTask(t)  BY DEF VideoInvariant
  <1>2. MovesOn(t)
    BY <1>1 DEF GoodTask, Good, Moves, PhaseOf, MovesOn, Active
  <1>3. Truthful(t)  BY <1>1 DEF GoodTask, Good, True, Truthful
  <1>. QED  BY <1>2, <1>3

LEMMA InitKeeps == Init => VideoInvariant
  <1>. SUFFICES ASSUME Init PROVE VideoInvariant  OBVIOUS
  <1>1. TypeOK
    BY VideoConstants
    DEF Init, TypeOK, VideoConstants, NoRow, Idle, Statuses, Words
  <1>2. ASSUME NEW t \in Tasks PROVE GoodTask(t)
    BY DEF Init, GoodTask, Good, Moves, True, Quiet, Meant, Silent, PhaseOf, NoRow,
           Idle, Waiting, Words
  <1>. QED  BY <1>1, <1>2 DEF VideoInvariant

-------------------------------------------------------------------------------
\* Tasks whose share of the state does not change stay good.
Same(t) ==
  /\ task'[t] = task[t] /\ jobs'[t] = jobs[t] /\ spoken'[t] = spoken[t]
  /\ PhaseOf(t)' = PhaseOf(t)
  /\ (t \in creating)' => t \in creating
  /\ t \in unplanned => (t \in unplanned)'

LEMMA SameIsGood ==
  ASSUME NEW t, GoodTask(t), Same(t)
  PROVE  GoodTask(t)'
  BY DEF Same, GoodTask, Good, Moves, True, Quiet, Meant, Silent

LEMMA OneTask ==
  ASSUME VideoInvariant, TypeOK', NEW t \in Tasks, GoodTask(t)',
         \A u \in Tasks \ {t} : Same(u)
  PROVE  VideoInvariant'
  BY SameIsGood DEF VideoInvariant

LEMMA Types ==
  ASSUME TypeOK, NEW t \in Tasks
  PROVE  /\ task \in [Tasks -> Row] /\ task[t] \in Row /\ jobs[t] \in Nat
         /\ spoken[t] \in [Words -> Nat] /\ spoken[t]["clip"] \in Nat
         /\ spoken[t]["sorry"] \in Nat
         /\ task[t].status \in Statuses /\ task[t].attempts \in Nat
  BY DEF TypeOK, Row, Words

\* An answer to a call of step t: the row is r unless it was deleted, n jobs are
\* added, and the step goes on in phase ph.
LEMMA AnswerKeeps ==
  ASSUME VideoInvariant, NEW t \in Tasks, step.phase \in Waiting, step.task = t,
         NEW r \in Row, NEW ph \in Phases, NEW n \in {0, 1},
         r.status # "none", Update(t, r),
         jobs' = [jobs EXCEPT ![t] = @ + n], step' = At(ph, t),
         ph \in Words => Exists(t) /\ r.status = IF ph = "clip" THEN "succeeded" ELSE "failed",
         ph = "ending" => n = 1 \/ ~Exists(t) \/ r.status \notin {"queued", "running"},
         billed' \in [Tasks -> Nat], UNCHANGED rest
  PROVE  VideoInvariant'
  <1>1. TypeOK /\ GoodTask(t)  BY DEF VideoInvariant
  <1>2. PhaseOf(t) = step.phase /\ PhaseOf(t)' = ph
    BY DEF PhaseOf, At
  <1>3. TypeOK'
    <2>1. task' \in [Tasks -> Row]  BY <1>1, Types DEF Update
    <2>2. jobs' \in [Tasks -> Nat]  BY <1>1 DEF TypeOK
    <2>3. step' \in [phase : Phases, task : Tasks]  BY DEF At
    <2>. QED  BY <1>1, <2>1, <2>2, <2>3 DEF TypeOK, rest, Row, Phases
  <1>4. jobs'[t] = jobs[t] + n /\ jobs[t] \in Nat
    BY <1>1 DEF TypeOK
  <1>5. task'[t] = IF Exists(t) THEN r ELSE task[t]
    BY <1>1 DEF Update, TypeOK
  <1>6. Silent(spoken[t]) /\ task[t].status # "none" /\ spoken'[t] = spoken[t]
    BY <1>1, <1>2 DEF GoodTask, Good, Quiet, Meant, Waiting, rest
  <1>7. GoodTask(t)'
    <2>1. task'[t].status \in {"queued", "running"} =>
            jobs'[t] > 0 \/ ph \notin {"idle", "ending"}
      <3>1. ph # "idle"  BY DEF Phases, Waiting, Words
      <3>2. CASE ph = "ending" /\ n = 1  BY <1>4, <3>2
      <3>3. CASE ph = "ending" /\ n # 1  BY <1>5, <3>3 DEF Exists
      <3>. QED  BY <3>1, <3>2, <3>3
    <2>2. True(task'[t], spoken'[t])  BY <1>6 DEF True, Silent
    <2>3. Quiet(task'[t], spoken'[t], ph)  BY <1>6 DEF Quiet
    <2>4. Meant(task'[t], ph)  BY <1>5, <1>6 DEF Meant, Exists, Words
    <2>5. t \notin creating'  BY <1>1, <1>6 DEF GoodTask, Good, rest
    <2>. QED  BY <1>2, <2>1, <2>2, <2>3, <2>4, <2>5 DEF GoodTask, Good, Moves
  <1>8. \A u \in Tasks \ {t} : Same(u)
    BY <1>1 DEF Same, Update, At, PhaseOf, TypeOK, rest
  <1>. QED  BY <1>3, <1>7, <1>8, OneTask

\* Settle() with an outcome and the word that goes with it.
LEMMA SettleKeeps ==
  ASSUME VideoInvariant, NEW t \in Tasks, step.phase \in Waiting, step.task = t,
         NEW r \in Row, NEW word \in Words,
         Settle(t, r, IF word = "clip" THEN "succeeded" ELSE "failed", word),
         billed' \in [Tasks -> Nat], UNCHANGED rest
  PROVE  VideoInvariant'
  <1>. DEFINE outcome == IF word = "clip" THEN "succeeded" ELSE "failed"
              s == [r EXCEPT !.status = outcome]
              ph == IF IsSpoken(t) THEN word ELSE "ending"
  <1>1. TypeOK  BY DEF VideoInvariant
  <1>2. s \in Row /\ s.status = outcome /\ outcome \in {"succeeded", "failed"}
    BY DEF Row, Statuses
  <1>3. ph \in Phases /\ (ph \in Words => Exists(t) /\ ph = word)
    BY DEF Phases, IsSpoken, Words
  <1>4. Update(t, s) /\ step' = At(ph, t) /\ jobs' = jobs  BY DEF Settle
  <1>5. jobs' = [jobs EXCEPT ![t] = @ + 0]  BY <1>1, <1>4 DEF TypeOK
  <1>6. ph \in Words => s.status = IF ph = "clip" THEN "succeeded" ELSE "failed"
    BY <1>2, <1>3
  <1>. HIDE DEF outcome, s, ph
  <1>. QED  BY <1>2, <1>3, <1>4, <1>5, <1>6, AnswerKeeps

LEMMA FailKeeps ==
  ASSUME VideoInvariant, NEW t \in Tasks, step.phase \in Waiting, step.task = t,
         Fail(t), billed' \in [Tasks -> Nat], UNCHANGED rest
  PROVE  VideoInvariant'
  <1>1. task[t] \in Row  BY Types DEF VideoInvariant
  <1>2. Settle(t, task[t], IF "sorry" = "clip" THEN "succeeded" ELSE "failed", "sorry")
    BY DEF Fail
  <1>. QED  BY <1>1, <1>2, SettleKeeps DEF Words

LEMMA StepErrorKeeps ==
  ASSUME VideoInvariant, NEW t \in Tasks, step.phase \in Waiting, step.task = t,
         StepError(t), billed' \in [Tasks -> Nat], UNCHANGED rest
  PROVE  VideoInvariant'
  <1>1. CASE TriesLeft(t)
    <2>. DEFINE s == [task[t] EXCEPT !.attempts = @ + 1]
    <2>1. TypeOK /\ GoodTask(t) /\ task[t] \in Row  BY Types DEF VideoInvariant
    <2>2. task[t].status # "none"
      BY <2>1 DEF GoodTask, Good, Meant, PhaseOf, Waiting
    <2>3. s \in Row /\ s.status # "none"  BY <2>1, <2>2 DEF Row
    <2>4. Update(t, s) /\ jobs' = [jobs EXCEPT ![t] = @ + 1] /\ step' = At("ending", t)
      BY <1>1 DEF StepError, Schedule
    <2>. HIDE DEF s
    <2>. QED  BY <2>3, <2>4, AnswerKeeps DEF Phases, Words
  <1>2. CASE ~TriesLeft(t)  BY <1>2, FailKeeps DEF StepError
  <1>. QED  BY <1>1, <1>2

LEMMA ApplyKeeps ==
  ASSUME VideoInvariant, NEW t \in Tasks, step.phase \in Waiting, step.task = t,
         NEW r \in Row, r.status # "none",
         NEW snapshot \in {"running", "failed", "cancelled", "succeeded"},
         Apply(t, r, snapshot), billed' \in [Tasks -> Nat], UNCHANGED rest
  PROVE  VideoInvariant'
  <1>. TypeOK  BY DEF VideoInvariant
  <1>0. jobs' = jobs => jobs' = [jobs EXCEPT ![t] = @ + 0]  BY DEF TypeOK
  <1>1. CASE snapshot = "running"
    <2>. DEFINE s == [r EXCEPT !.status = "running", !.attempts = 0]
    <2>1. s \in Row /\ s.status # "none"  BY DEF Row, Statuses
    <2>2. Update(t, s) /\ jobs' = [jobs EXCEPT ![t] = @ + 1] /\ step' = At("ending", t)
      BY <1>1 DEF Apply, Schedule
    <2>. HIDE DEF s
    <2>. QED  BY <2>1, <2>2, AnswerKeeps DEF Phases, Words
  <1>2. CASE snapshot = "failed"
    <2>1. Settle(t, r, IF "sorry" = "clip" THEN "succeeded" ELSE "failed", "sorry")
      BY <1>2 DEF Apply
    <2>. QED  BY <2>1, SettleKeeps DEF Words
  <1>3. CASE snapshot = "cancelled"
    <2>. DEFINE s == [r EXCEPT !.status = "cancelled"]
    <2>1. s \in Row /\ s.status = "cancelled"  BY DEF Row, Statuses
    <2>2. Update(t, s) /\ jobs' = jobs /\ step' = At("ending", t)
      BY <1>3 DEF Apply
    <2>. HIDE DEF s
    <2>. QED  BY <1>0, <2>1, <2>2, AnswerKeeps DEF Phases, Words
  <1>4. CASE snapshot = "succeeded"
    <2>1. Update(t, r) /\ jobs' = jobs /\ step' = At("downloading", t)
      BY <1>4 DEF Apply
    <2>. QED  BY <1>0, <2>1, AnswerKeeps DEF Phases, Waiting, Words
  <1>. QED  BY <1>1, <1>2, <1>3, <1>4

LEMMA CallsKeep ==
  ASSUME VideoInvariant, NEW t \in Tasks, Calls(t)
  PROVE  VideoInvariant'
  <1>1. TypeOK /\ GoodTask(t) /\ task[t] \in Row  BY Types DEF VideoInvariant
  <1>2. step.phase \in Waiting /\ step.task = t
    BY DEF Calls, GivenUp, FrameRead, Submitted, SubmitTimesOut, Polled, Downloaded,
           CallFails, Rejected, In, Waiting
  <1>3. task[t].status # "none"
    BY <1>1, <1>2 DEF GoodTask, Good, Meant, PhaseOf, Waiting
  <1>4. billed' \in [Tasks -> Nat] /\ UNCHANGED rest
    <2>1. billed' = billed \/ billed' = [billed EXCEPT ![t] = @ + 1]
      BY DEF Calls, GivenUp, FrameRead, Submitted, SubmitTimesOut, Polled, Downloaded,
             CallFails, Rejected
    <2>2. UNCHANGED rest
      BY DEF Calls, GivenUp, FrameRead, Submitted, SubmitTimesOut, Polled, Downloaded,
             CallFails, Rejected, rest
    <2>. QED  BY <1>1, <2>1, <2>2 DEF TypeOK
  <1>5. CASE GivenUp(t) \/ Rejected(t)
    BY <1>2, <1>4, <1>5, FailKeeps DEF GivenUp, Rejected
  <1>6. CASE SubmitTimesOut(t) \/ CallFails(t)
    BY <1>2, <1>4, <1>6, StepErrorKeeps DEF SubmitTimesOut, CallFails
  <1>7. CASE FrameRead(t)
    <2>1. CASE t \in frame
      <3>1. step' = At("submitting", t) /\ task' = task /\ jobs' = jobs
        BY <1>7, <2>1 DEF FrameRead
      <3>2. Update(t, task[t]) /\ jobs' = [jobs EXCEPT ![t] = @ + 0]
        BY <1>1, <3>1 DEF Update, TypeOK
      <3>. QED  BY <1>1, <1>2, <1>3, <1>4, <3>1, <3>2, AnswerKeeps DEF Phases, Waiting, Words
    <2>2. CASE t \notin frame
      BY <1>2, <1>4, <1>7, <2>2, FailKeeps DEF FrameRead
    <2>. QED  BY <2>1, <2>2
  <1>8. CASE Downloaded(t)
    <2>1. Settle(t, task[t], IF "clip" = "clip" THEN "succeeded" ELSE "failed", "clip")
      BY <1>8 DEF Downloaded
    <2>. QED  BY <1>1, <1>2, <1>4, <2>1, SettleKeeps DEF Words
  <1>9. ASSUME NEW r \in Row, r.status # "none", Answered(t, r)
        PROVE  VideoInvariant'
    BY <1>2, <1>4, <1>9, ApplyKeeps, StepErrorKeeps DEF Answered
  <1>10. CASE Submitted(t) \/ Polled(t)
    <2>1. [status |-> "running", remote |-> TRUE, attempts |-> 0] \in Row
      BY DEF Row, Statuses
    <2>. QED  BY <1>1, <1>3, <1>9, <1>10, <2>1 DEF Submitted, Polled
  <1>. QED  BY <1>5, <1>6, <1>7, <1>8, <1>10 DEF Calls

-------------------------------------------------------------------------------
LEMMA InsertKeeps ==
  ASSUME VideoInvariant, NEW t \in Tasks, task[t].status = "none", Insert(t),
         frame' \subseteq Tasks, creating' \subseteq creating \ {t},
         UNCHANGED <<spoken, billed, late, step, unplanned, mode, epoch>>
  PROVE  VideoInvariant'
  <1>1. TypeOK /\ GoodTask(t)  BY DEF VideoInvariant
  <1>2. TypeOK'
    <2>1. task' \in [Tasks -> Row]  BY <1>1, Types DEF Insert, Row, Statuses
    <2>2. jobs' \in [Tasks -> Nat]  BY <1>1 DEF Insert, TypeOK
    <2>. QED  BY <1>1, <2>1, <2>2 DEF TypeOK, Row
  <1>3. task'[t].status = "queued" /\ jobs'[t] > 0
    BY <1>1, Types DEF Insert, Row, TypeOK
  <1>4. Silent(spoken[t]) /\ PhaseOf(t) = "idle"
    BY <1>1 DEF GoodTask, Good, Quiet, Meant
  <1>5. GoodTask(t)'
    <2>1. PhaseOf(t)' = "idle" /\ spoken' = spoken /\ t \notin creating'
      BY <1>4 DEF PhaseOf
    <2>2. True(task'[t], spoken'[t])  BY <1>4, <2>1 DEF True, Silent
    <2>. QED  BY <1>3, <1>4, <2>1, <2>2 DEF GoodTask, Good, Moves, Quiet, Meant
  <1>6. \A u \in Tasks \ {t} : Same(u)
    BY <1>1 DEF Same, Insert, PhaseOf, TypeOK
  <1>. QED  BY <1>2, <1>5, <1>6, OneTask

LEMMA CreateKeeps ==
  ASSUME VideoInvariant, NEW t \in Tasks,
         Create(t) \/ CreateWithPersona(t) \/ PersonaSaved(t)
  PROVE  VideoInvariant'
  <1>1. TypeOK /\ GoodTask(t)  BY DEF VideoInvariant
  <1>2. CASE Create(t)
    <2>1. t \notin creating
      BY <1>1, <1>2, VideoConstants DEF Create, TypeOK, VideoConstants
    <2>. QED  BY <1>1, <1>2, <2>1, InsertKeeps DEF Create, TypeOK
  <1>3. CASE CreateWithPersona(t)
    <2>1. TypeOK'  BY <1>1, <1>3 DEF CreateWithPersona, TypeOK
    <2>2. GoodTask(t)'
      BY <1>1, <1>3 DEF CreateWithPersona, GoodTask, Good, Moves, Quiet, Meant, PhaseOf
    <2>3. \A u \in Tasks \ {t} : Same(u)
      BY <1>3 DEF CreateWithPersona, Same, PhaseOf
    <2>. QED  BY <2>1, <2>2, <2>3, OneTask
  <1>4. CASE PersonaSaved(t)
    <2>1. task[t].status = "none"  BY <1>1, <1>4 DEF PersonaSaved, GoodTask, Good
    <2>. QED  BY <1>1, <1>4, <2>1, InsertKeeps DEF PersonaSaved, TypeOK
  <1>. QED  BY <1>2, <1>3, <1>4

\* The row of t moves to a status that nobody has to work on.
LEMMA StatusKeeps ==
  ASSUME VideoInvariant, NEW t \in Tasks, NEW r \in Row,
         task' = [task EXCEPT ![t] = r], TypeOK',
         r.status \in {"cancelled", "gone"}, step.phase \notin Words,
         r.status = "cancelled" => Active(t), task[t].status # "none",
         UNCHANGED <<jobs, spoken, creating, step, unplanned>>
  PROVE  VideoInvariant'
  <1>1. TypeOK /\ GoodTask(t)  BY DEF VideoInvariant
  <1>2. task'[t] = r /\ PhaseOf(t)' = PhaseOf(t) /\ PhaseOf(t) \notin Words
    BY <1>1 DEF TypeOK, PhaseOf, Words
  <1>3. r.status = "cancelled" => Silent(spoken[t])
    BY <1>1 DEF Active, GoodTask, Good, Quiet
  <1>4. GoodTask(t)'
    <2>1. True(task'[t], spoken'[t])
      <3>1. CASE r.status = "cancelled"  BY <1>2, <1>3, <3>1 DEF True, Silent
      <3>2. CASE r.status = "gone"
        BY <1>1, <1>2, <3>2 DEF GoodTask, Good, True
      <3>. QED  BY <3>1, <3>2
    <2>2. Quiet(task'[t], spoken'[t], PhaseOf(t)')
      BY <1>1, <1>2 DEF GoodTask, Good, Quiet
    <2>3. Meant(task'[t], PhaseOf(t)')
      BY <1>1, <1>2 DEF GoodTask, Good, Meant, Words
    <2>4. t \notin creating'  BY <1>1 DEF GoodTask, Good
    <2>. QED  BY <1>2, <2>1, <2>2, <2>3, <2>4 DEF GoodTask, Good, Moves
  <1>5. \A u \in Tasks \ {t} : Same(u)
    BY <1>1 DEF Same, PhaseOf, TypeOK
  <1>. QED  BY <1>4, <1>5, OneTask

LEMMA CancelKeeps ==
  ASSUME VideoInvariant, NEW t \in Tasks, Cancel(t)
  PROVE  VideoInvariant'
  <1>. DEFINE r == [task[t] EXCEPT !.status = "cancelled"]
  <1>1. TypeOK /\ task[t] \in Row  BY Types DEF VideoInvariant
  <1>2. r \in Row /\ r.status = "cancelled"  BY <1>1 DEF Row, Statuses
  <1>3. task' = [task EXCEPT ![t] = r] /\ step.phase \notin Words
    BY DEF Cancel, ThreadIsFree, Holding, Words
  <1>4. task[t].status # "none"  BY DEF Cancel, Active
  <1>. HIDE DEF r
  <1>5. TypeOK'  BY <1>1, <1>2, <1>3 DEF Cancel, TypeOK, Row
  <1>. QED  BY <1>2, <1>3, <1>4, <1>5, StatusKeeps DEF Cancel

LEMMA DeleteKeeps ==
  ASSUME VideoInvariant, NEW t \in Tasks, Delete(t)
  PROVE  VideoInvariant'
  <1>. DEFINE r == [task[t] EXCEPT !.status = "gone", !.remote = FALSE]
  <1>1. TypeOK /\ task[t] \in Row  BY Types DEF VideoInvariant
  <1>2. r \in Row /\ r.status = "gone"  BY <1>1 DEF Row, Statuses
  <1>3. task' = [task EXCEPT ![t] = r] /\ step.phase \notin Words
    BY <1>1 DEF Delete, ThreadIsFree, Holding, Words, Row
  <1>4. task[t].status # "none"  BY DEF Delete, Terminal
  <1>. HIDE DEF r
  <1>5. TypeOK'  BY <1>1, <1>2, <1>3 DEF Delete, TypeOK, Row
  <1>. QED  BY <1>2, <1>3, <1>4, <1>5, StatusKeeps DEF Delete

LEMMA UntouchedKeeps ==
  ASSUME VideoInvariant, TypeOK',
         UNCHANGED <<task, jobs, spoken, creating, step, unplanned>>
  PROVE  VideoInvariant'
  BY SameIsGood DEF VideoInvariant, Same, PhaseOf

LEMMA NothingTouchedKeeps ==
  ASSUME VideoInvariant, NEW t \in Tasks, LoseFrame(t) \/ Expire(t)
  PROVE  VideoInvariant'
  <1>1. TypeOK'  BY DEF VideoInvariant, LoseFrame, Expire, TypeOK
  <1>. QED  BY <1>1, UntouchedKeeps DEF LoseFrame, Expire

-------------------------------------------------------------------------------
(***************************************************************************)
(* The worker.                                                             *)
(***************************************************************************)
\* A job of t is taken; the step ends at once or begins in phase ph.
LEMMA WorkerKeeps ==
  ASSUME VideoInvariant, NEW t \in Tasks, Worker(t)
  PROVE  VideoInvariant'
  <1>1. TypeOK /\ GoodTask(t) /\ task[t] \in Row  BY Types DEF VideoInvariant
  <1>2. step = Idle /\ PhaseOf(t) = "idle" /\ jobs[t] \in Nat \ {0}
    BY <1>1 DEF Worker, StepNothing, Step, StepFails, Takes, PhaseOf, Idle, TypeOK
  <1>3. jobs' = [jobs EXCEPT ![t] = @ - 1] /\ jobs' \in [Tasks -> Nat]
    BY <1>1, <1>2 DEF Worker, StepNothing, Step, StepFails, TypeOK
  <1>4. UNCHANGED <<spoken, creating, unplanned>>
    BY DEF Worker, StepNothing, Step, StepFails, rest
  <1>5. CASE StepNothing(t)
    <2>1. TypeOK'  BY <1>1, <1>3, <1>5 DEF StepNothing, TypeOK
    <2>2. task' = task /\ step' = step /\ ~Active(t)
      BY <1>5 DEF StepNothing, CanStep
    <2>3. GoodTask(t)'
      BY <1>1, <1>4, <2>2 DEF GoodTask, Good, Moves, PhaseOf, Active
    <2>4. \A u \in Tasks \ {t} : Same(u)
      BY <1>1, <1>3, <1>4, <2>2 DEF Same, PhaseOf, TypeOK
    <2>. QED  BY <2>1, <2>3, <2>4, OneTask
  <1>6. CASE Step(t)
    <2>. DEFINE ph == NextPhase(t)
    <2>1. ph \in Waiting  BY DEF NextPhase, Waiting
    <2>2. task' = task /\ step' = At(ph, t) /\ Active(t)
      BY <1>6 DEF Step, CanStep
    <2>. HIDE DEF ph
    <2>3. PhaseOf(t)' = ph  BY <2>2 DEF PhaseOf, At
    <2>4. TypeOK'
      <3>1. step' \in [phase : Phases, task : Tasks]  BY <2>1, <2>2 DEF At, Phases
      <3>. QED  BY <1>1, <1>3, <1>6, <3>1 DEF Step, TypeOK, Phases
    <2>5. GoodTask(t)'
      <3>1. ph \notin {"idle", "ending", "clip", "sorry"}  BY <2>1 DEF Waiting
      <3>2. Silent(spoken[t])  BY <1>1, <2>2 DEF GoodTask, Good, Quiet, Active
      <3>. QED  BY <1>1, <1>4, <2>2, <2>3, <3>1, <3>2
                DEF GoodTask, Good, Moves, Quiet, Meant, Active
    <2>6. \A u \in Tasks \ {t} : Same(u)
      BY <1>1, <1>2, <1>3, <1>4, <2>2 DEF Same, PhaseOf, TypeOK, At, Idle
    <2>. QED  BY <2>4, <2>5, <2>6, OneTask
  <1>7. CASE StepFails(t)
    <2>. DEFINE r == [task[t] EXCEPT !.status = "failed"]
                ph == IF IsSpoken(t) THEN "sorry" ELSE "ending"
    <2>1. r \in Row /\ r.status = "failed"  BY <1>1 DEF Row, Statuses
    <2>2. ph \in {"sorry", "ending"}  OBVIOUS
    <2>3. task' = [task EXCEPT ![t] = r] /\ step' = At(ph, t) /\ Active(t)
      BY <1>7 DEF StepFails, CanStep
    <2>. HIDE DEF r, ph
    <2>4. TypeOK'
      <3>1. step' \in [phase : Phases, task : Tasks]
        BY <2>2, <2>3 DEF At, Phases, Words
      <3>. QED  BY <1>1, <1>3, <1>7, <2>1, <2>3, <3>1
                DEF StepFails, TypeOK, Phases, Row, rest
    <2>5. task'[t] = r /\ PhaseOf(t)' = ph  BY <1>1, <2>3 DEF TypeOK, PhaseOf, At
    <2>6. Silent(spoken[t])  BY <1>1, <2>3 DEF GoodTask, Good, Quiet, Active
    <2>7. GoodTask(t)'
      <3>1. True(task'[t], spoken'[t])  BY <1>4, <2>6 DEF True, Silent
      <3>2. t \notin creating'  BY <1>1, <1>4, <2>3 DEF GoodTask, Good, Active
      <3>. QED  BY <1>4, <2>1, <2>2, <2>5, <2>6, <3>1, <3>2
                DEF GoodTask, Good, Moves, Quiet, Meant
    <2>8. \A u \in Tasks \ {t} : Same(u)
      BY <1>1, <1>2, <1>3, <1>4, <2>3 DEF Same, PhaseOf, TypeOK, At, Idle
    <2>. QED  BY <2>4, <2>7, <2>8, OneTask
  <1>. QED  BY <1>5, <1>6, <1>7 DEF Worker

LEMMA NotifyKeeps ==
  ASSUME VideoInvariant, NEW t \in Tasks, Notify(t)
  PROVE  VideoInvariant'
  <1>. DEFINE w == step.phase
  <1>1. TypeOK /\ GoodTask(t) /\ w \in Words /\ step.task = t
    BY DEF VideoInvariant, Notify, In
  <1>2. PhaseOf(t) = w /\ PhaseOf(t)' = "ending"  BY <1>1 DEF Notify, PhaseOf, At
  <1>3. /\ Silent(spoken[t])
        /\ task[t].status = IF w = "clip" THEN "succeeded" ELSE "failed"
        /\ t \notin creating
    BY <1>1, <1>2 DEF GoodTask, Good, Quiet, Meant, Words
  <1>4. /\ spoken' \in [Tasks -> [Words -> Nat]]
        /\ spoken'[t] = [spoken[t] EXCEPT ![w] = @ + 1]
    BY <1>1, Types DEF Notify, TypeOK
  <1>5. /\ spoken'[t]["clip"] = IF w = "clip" THEN 1 ELSE 0
        /\ spoken'[t]["sorry"] = IF w = "sorry" THEN 1 ELSE 0
    BY <1>1, <1>3, <1>4, Types DEF Silent, Words
  <1>6. TypeOK'
    <2>1. step' \in [phase : Phases, task : Tasks]  BY DEF Notify, At, Phases
    <2>. QED  BY <1>1, <1>4, <2>1 DEF Notify, TypeOK, Phases
  <1>7. GoodTask(t)'
    <2>1. task' = task /\ jobs' = jobs /\ creating' = creating  BY DEF Notify
    <2>2. True(task[t], spoken'[t])  BY <1>1, <1>3, <1>5 DEF True, Words
    <2>3. task[t].status \notin {"none", "queued", "running"}  BY <1>3
    <2>. QED  BY <1>2, <1>3, <2>1, <2>2, <2>3
              DEF GoodTask, Good, Moves, Quiet, Meant, Waiting, Words
  <1>8. \A u \in Tasks \ {t} : Same(u)
    BY <1>1 DEF Notify, Same, PhaseOf, At, TypeOK
  <1>. QED  BY <1>6, <1>7, <1>8, OneTask

\* A step that ends has left a job behind, or nothing to do.
LEMMA JobDoneKeeps ==
  ASSUME VideoInvariant, JobDone
  PROVE  VideoInvariant'
  <1>1. TypeOK'  BY DEF VideoInvariant, JobDone, TypeOK, rest
  <1>2. ASSUME NEW t \in Tasks PROVE GoodTask(t)'
    <2>1. GoodTask(t)  BY DEF VideoInvariant
    <2>2. PhaseOf(t) \in {"idle", "ending"} /\ PhaseOf(t)' = "idle"
      BY DEF JobDone, PhaseOf, Idle
    <2>3. UNCHANGED <<task, jobs, spoken, creating, unplanned>>  BY DEF JobDone, rest
    <2>. QED  BY <2>1, <2>2, <2>3
              DEF GoodTask, Good, Moves, Quiet, Meant, Waiting, Words
  <1>. QED  BY <1>1, <1>2 DEF VideoInvariant

LEMMA RequeuedKeeps ==
  ASSUME TypeOK, NEW t \in Tasks
  PROVE  /\ Requeued \in [Tasks -> Nat]
         /\ PhaseOf(t) # "idle" => Requeued[t] > 0
         /\ Requeued[t] >= jobs[t]
  <1>1. CASE step = Idle  BY <1>1 DEF Requeued, PhaseOf, Idle, TypeOK
  <1>2. CASE step # Idle
    <2>1. step.task \in Tasks  BY <1>2 DEF TypeOK
    <2>. QED  BY <1>2, <2>1 DEF Requeued, PhaseOf, TypeOK
  <1>. QED  BY <1>1, <1>2

\* A task that the death of the process leaves alone.
LEMMA ForgottenIsGood ==
  ASSUME VideoInvariant, NEW t \in Tasks, jobs' = Requeued, step' = Idle,
         creating' = {}, spoken' = spoken, task'[t] = task[t],
         t \in unplanned => t \in unplanned'
  PROVE  GoodTask(t)'
  <1>1. TypeOK /\ GoodTask(t)  BY DEF VideoInvariant
  <1>2. PhaseOf(t)' = "idle"  BY DEF PhaseOf, Idle
  <1>3. jobs[t] \in Nat /\ jobs'[t] \in Nat /\ jobs'[t] >= jobs[t]
        /\ (PhaseOf(t) # "idle" => jobs'[t] > 0)
    BY <1>1, RequeuedKeeps, Types
  <1>4. Moves(task'[t], jobs'[t], PhaseOf(t)', t \in unplanned')
    BY <1>1, <1>3 DEF GoodTask, Good, Moves
  <1>5. True(task'[t], spoken'[t]) /\ Quiet(task'[t], spoken'[t], PhaseOf(t)')
    BY <1>1, <1>2 DEF GoodTask, Good, Quiet, Waiting, Words
  <1>6. Meant(task'[t], PhaseOf(t)') /\ t \notin creating'
    BY <1>2 DEF Meant
  <1>. QED  BY <1>4, <1>5, <1>6 DEF GoodTask, Good

LEMMA CrashKeeps ==
  ASSUME VideoInvariant, Crash
  PROVE  VideoInvariant'
  <1>1. TypeOK  BY DEF VideoInvariant
  <1>2. Requeued \in [Tasks -> Nat]
    <2>1. CASE step = Idle  BY <1>1, <2>1 DEF Requeued, TypeOK
    <2>2. CASE step # Idle  BY <1>1, <2>2 DEF Requeued, TypeOK
    <2>. QED  BY <2>1, <2>2
  <1>3. TypeOK'
    <2>1. billed' \in [Tasks -> Nat]  BY <1>1 DEF Crash, Unanswered, TypeOK
    <2>. QED  BY <1>1, <1>2, <2>1 DEF Crash, TypeOK
  <1>4. \A t \in Tasks : GoodTask(t)'  BY ForgottenIsGood DEF Crash
  <1>. QED  BY <1>3, <1>4 DEF VideoInvariant

LEMMA DieCreatingKeeps ==
  ASSUME VideoInvariant, NEW t \in Tasks, DieCreating(t)
  PROVE  VideoInvariant'
  <1>. DEFINE r == [task[t] EXCEPT !.status = "queued"]
  <1>1. TypeOK /\ GoodTask(t) /\ task[t] \in Row  BY Types DEF VideoInvariant
  <1>2. Requeued \in [Tasks -> Nat]
    <2>1. CASE step = Idle  BY <1>1, <2>1 DEF Requeued, TypeOK
    <2>2. CASE step # Idle  BY <1>1, <2>2 DEF Requeued, TypeOK
    <2>. QED  BY <2>1, <2>2
  <1>3. r \in Row /\ r.status = "queued"  BY <1>1 DEF Row, Statuses
  <1>4. task' = [task EXCEPT ![t] = r]  BY DEF DieCreating
  <1>5. task[t].status = "none"  BY <1>1 DEF DieCreating, GoodTask, Good
  <1>. HIDE DEF r
  <1>6. TypeOK'
    <2>1. billed' \in [Tasks -> Nat]  BY <1>1 DEF DieCreating, Unanswered, TypeOK
    <2>2. task' \in [Tasks -> Row]  BY <1>1, <1>3, <1>4 DEF TypeOK, Row
    <2>. QED  BY <1>1, <1>2, <2>1, <2>2 DEF DieCreating, TypeOK, Row
  <1>7. GoodTask(t)'
    <2>1. task'[t] = r /\ PhaseOf(t)' = "idle" /\ spoken' = spoken
      BY <1>1, <1>4 DEF DieCreating, PhaseOf, Idle, TypeOK
    <2>2. Silent(spoken[t])  BY <1>1, <1>5 DEF GoodTask, Good, Quiet
    <2>3. True(task'[t], spoken'[t])  BY <2>1, <2>2 DEF True, Silent
    <2>4. t \in unplanned' /\ t \notin creating'  BY DEF DieCreating
    <2>. QED  BY <1>3, <2>1, <2>2, <2>3, <2>4
              DEF GoodTask, Good, Moves, Quiet, Meant
  <1>8. ASSUME NEW u \in Tasks \ {t} PROVE GoodTask(u)'
    <2>1. task'[u] = task[u]  BY <1>1, <1>4 DEF TypeOK
    <2>. QED  BY <2>1, ForgottenIsGood DEF DieCreating
  <1>. QED  BY <1>6, <1>7, <1>8 DEF VideoInvariant

DownCanRestart == mode = "down" => epoch < MaxEpoch

LEMMA DownKeeps == DownCanRestart /\ [Next]_vars => DownCanRestart'
  <1>. SUFFICES ASSUME DownCanRestart, [Next]_vars PROVE DownCanRestart'
    OBVIOUS
  <1>1. CASE UNCHANGED <<mode, epoch>>  BY <1>1 DEF DownCanRestart
  <1>2. CASE Crash \/ \E t \in Tasks : DieCreating(t)
    BY <1>2 DEF Crash, DieCreating, DownCanRestart
  <1>3. CASE Restart  BY <1>3 DEF Restart, DownCanRestart
  <1>4. CASE UNCHANGED vars  BY <1>1, <1>4 DEF vars
  <1>5. CASE JobDone  BY <1>1, <1>5 DEF JobDone, rest
  <1>6. ASSUME NEW t \in Tasks, Admin(t) \/ Expire(t) \/ Notify(t)
        PROVE  DownCanRestart'
    BY <1>1, <1>6 DEF Admin, Create, CreateWithPersona, PersonaSaved, Cancel, Delete,
                      LoseFrame, Expire, Notify
  <1>7. ASSUME NEW t \in Tasks, Worker(t)
        PROVE  DownCanRestart'
    BY <1>1, <1>7 DEF Worker, StepNothing, Step, StepFails, rest
  <1>8. ASSUME NEW t \in Tasks, Calls(t)
        PROVE  DownCanRestart'
    <2>1. UNCHANGED rest
      BY <1>8 DEF Calls, GivenUp, FrameRead, Submitted, SubmitTimesOut, Polled,
                  Downloaded, CallFails, Rejected
    <2>. QED  BY <1>1, <2>1 DEF rest
  <1>. QED  BY <1>2, <1>3, <1>4, <1>5, <1>6, <1>7, <1>8 DEF Next

LEMMA RestartKeeps ==
  ASSUME VideoInvariant, DownCanRestart, Restart
  PROVE  VideoInvariant'
  <1>1. TypeOK'
    BY VideoConstants
    DEF VideoInvariant, DownCanRestart, Restart, TypeOK, VideoConstants
  <1>. QED  BY <1>1, UntouchedKeeps DEF Restart

-------------------------------------------------------------------------------
LEMMA StepKeeps ==
  VideoInvariant /\ DownCanRestart /\ [Next]_vars => VideoInvariant'
  <1>. SUFFICES ASSUME VideoInvariant, DownCanRestart, [Next]_vars PROVE VideoInvariant'
    OBVIOUS
  <1>1. CASE UNCHANGED vars
    <2>1. TypeOK'  BY <1>1 DEF VideoInvariant, TypeOK, vars
    <2>. QED  BY <1>1, <2>1, UntouchedKeeps DEF vars
  <1>2. ASSUME NEW t \in Tasks, Admin(t) \/ Expire(t)
        PROVE  VideoInvariant'
    BY <1>2, CreateKeeps, CancelKeeps, DeleteKeeps, NothingTouchedKeeps DEF Admin
  <1>3. ASSUME NEW t \in Tasks, Worker(t) \/ Calls(t) \/ Notify(t)
        PROVE  VideoInvariant'
    BY <1>3, WorkerKeeps, CallsKeep, NotifyKeeps
  <1>4. ASSUME NEW t \in Tasks, DieCreating(t)
        PROVE  VideoInvariant'
    BY <1>4, DieCreatingKeeps
  <1>5. CASE JobDone \/ Crash \/ Restart
    BY <1>5, JobDoneKeeps, CrashKeeps, RestartKeeps
  <1>. QED  BY <1>1, <1>2, <1>3, <1>4, <1>5 DEF Next

\* VideoGenerationService: the whole state of a task is consistent, always.
THEOREM VideoInvariantHolds == Spec => []VideoInvariant
  <1>1. Init => DownCanRestart  BY DEF Init, DownCanRestart
  <1>. QED  BY <1>1, InitKeeps, DownKeeps, StepKeeps, PTL DEF Spec

\* step() and schedule(): a task that is not settled never loses its last job.
THEOREM ChainNeverBreaks == Spec => []ChainUnbroken
  BY VideoInvariantHolds, InvariantGivesProperties, PTL

\* notify(): what was said of a task is true, and was said once.
THEOREM OutcomeIsSpokenOnce == Spec => []SpokenOnce
  BY VideoInvariantHolds, InvariantGivesProperties, PTL

-------------------------------------------------------------------------------
(***************************************************************************)
(* What a step may never do.                                               *)
(***************************************************************************)
StaysOver(t) ==
  task[t].status \in Terminal /\ step.task # t =>
    task'[t].status \in {task[t].status, "cancelled", "gone"}

StaysSilent(t) == task[t].status = "gone" => spoken'[t] = spoken[t]

\* A call of step u changes no row but that of u.
LEMMA CallsChangeOne ==
  ASSUME TypeOK, NEW u \in Tasks, Calls(u), NEW t \in Tasks, t # u
  PROVE  task'[t] = task[t]
  <1>1. ASSUME NEW r, Update(u, r) PROVE task'[t] = task[t]
    BY <1>1 DEF Update, TypeOK
  <1>2. ASSUME Fail(u) PROVE task'[t] = task[t]
    BY <1>1, <1>2 DEF Fail, Settle
  <1>3. ASSUME StepError(u) PROVE task'[t] = task[t]
    BY <1>1, <1>2, <1>3 DEF StepError
  <1>4. ASSUME NEW r, Answered(u, r) PROVE task'[t] = task[t]
    <2>1. CASE Exists(u)
      <3>1. PICK s \in {"running", "failed", "cancelled", "succeeded"} : Apply(u, r, s)
        BY <1>4, <2>1 DEF Answered
      <3>. QED  BY <1>1, <3>1 DEF Apply, Settle
    <2>2. CASE ~Exists(u)  BY <1>3, <1>4, <2>2 DEF Answered
    <2>. QED  BY <2>1, <2>2
  <1>5. CASE Downloaded(u)  BY <1>1, <1>5 DEF Downloaded, Settle
  <1>6. CASE FrameRead(u)  BY <1>2, <1>6 DEF FrameRead
  <1>. QED  BY <1>2, <1>3, <1>4, <1>5, <1>6
            DEF Calls, GivenUp, Submitted, SubmitTimesOut, Polled, CallFails, Rejected

LEMMA StepIsFinal ==
  ASSUME VideoInvariant, Next, NEW t \in Tasks
  PROVE  StaysOver(t) /\ StaysSilent(t)
  <1>1. TypeOK /\ GoodTask(t) /\ task[t] \in Row  BY Types DEF VideoInvariant
  <1>2. task'[t] = task[t] => StaysOver(t)  BY DEF StaysOver
  <1>3. spoken' = spoken => StaysSilent(t)  BY DEF StaysSilent
  <1>4. ASSUME NEW u \in Tasks, Admin(u) \/ Expire(u)
        PROVE  StaysOver(t) /\ StaysSilent(t)
    <2>1. u \in creating => task[u].status = "none"
      BY DEF VideoInvariant, GoodTask, Good
    <2>2. CASE Create(u) \/ PersonaSaved(u)
      <3>1. task' = [task EXCEPT ![u].status = "queued"] /\ spoken' = spoken
        BY <2>2 DEF Create, PersonaSaved, Insert
      <3>2. task[u].status = "none"  BY <2>1, <2>2 DEF Create, PersonaSaved
      <3>. QED  BY <1>1, <1>3, <3>1, <3>2 DEF StaysOver, Terminal, TypeOK
    <2>3. CASE Cancel(u) \/ Delete(u)
      <3>1. spoken' = spoken  BY <2>3 DEF Cancel, Delete
      <3>. QED  BY <1>1, <1>3, <2>3, <3>1
                DEF Cancel, Delete, StaysOver, TypeOK, Row
    <2>4. CASE CreateWithPersona(u) \/ LoseFrame(u) \/ Expire(u)
      BY <1>2, <1>3, <2>4 DEF CreateWithPersona, LoseFrame, Expire
    <2>. QED  BY <1>4, <2>2, <2>3, <2>4 DEF Admin
  <1>5. ASSUME NEW u \in Tasks, Worker(u)
        PROVE  StaysOver(t) /\ StaysSilent(t)
    <2>1. spoken' = spoken  BY <1>5 DEF Worker, StepNothing, Step, StepFails, rest
    <2>2. CASE StepFails(u)
      BY <1>1, <1>3, <2>1, <2>2
      DEF StepFails, CanStep, Active, StaysOver, Terminal, TypeOK
    <2>. QED  BY <1>2, <1>3, <1>5, <2>1, <2>2 DEF Worker, StepNothing, Step
  <1>6. ASSUME NEW u \in Tasks, Calls(u)
        PROVE  StaysOver(t) /\ StaysSilent(t)
    <2>1. step.task = u
      BY <1>6 DEF Calls, GivenUp, FrameRead, Submitted, SubmitTimesOut, Polled,
                  Downloaded, CallFails, Rejected, In
    <2>2. spoken' = spoken
      BY <1>6 DEF Calls, GivenUp, FrameRead, Submitted, SubmitTimesOut, Polled,
                  Downloaded, CallFails, Rejected, rest
    <2>3. StaysOver(t)
      BY <1>1, <1>2, <1>6, <2>1, CallsChangeOne DEF StaysOver
    <2>. QED  BY <1>3, <2>2, <2>3
  <1>7. ASSUME NEW u \in Tasks, Notify(u)
        PROVE  StaysOver(t) /\ StaysSilent(t)
    <2>1. task' = task  BY <1>7 DEF Notify
    <2>2. CASE t = u
      <3>1. task[t].status # "gone"
        BY <1>1, <1>7, <2>2 DEF Notify, In, GoodTask, Good, Meant, PhaseOf, Words
      <3>. QED  BY <1>2, <2>1, <3>1 DEF StaysSilent
    <2>3. CASE t # u
      BY <1>1, <1>2, <1>7, <2>1, <2>3 DEF Notify, StaysSilent, TypeOK
    <2>. QED  BY <2>2, <2>3
  <1>8. ASSUME NEW u \in Tasks, DieCreating(u)
        PROVE  StaysOver(t) /\ StaysSilent(t)
    <2>1. task[u].status = "none"
      BY <1>8 DEF VideoInvariant, GoodTask, Good, DieCreating
    <2>. QED  BY <1>1, <1>3, <1>8, <2>1 DEF DieCreating, StaysOver, Terminal, TypeOK
  <1>9. CASE JobDone \/ Crash \/ Restart
    BY <1>2, <1>3, <1>9 DEF JobDone, Crash, Restart, rest
  <1>. QED  BY <1>4, <1>5, <1>6, <1>7, <1>8, <1>9 DEF Next

\* step(), apply() and notify(): a job left over does not start a settled task
\* again, and nothing is published for a deleted one.
THEOREM OutcomesAreFinal == Spec => OutcomeIsFinal
  <1>1. VideoInvariant /\ [Next]_vars =>
          [\A t \in Tasks : StaysOver(t)]_vars /\ [\A t \in Tasks : StaysSilent(t)]_vars
    BY StepIsFinal
  <1>2. [][\A t \in Tasks : StaysOver(t)]_vars => OutcomeStays
    BY DEF OutcomeStays, StaysOver
  <1>3. [][\A t \in Tasks : StaysSilent(t)]_vars => DeletedIsSilent
    BY DEF DeletedIsSilent, StaysSilent
  <1>. QED  BY <1>1, <1>2, <1>3, VideoInvariantHolds, PTL DEF Spec, OutcomeIsFinal

-------------------------------------------------------------------------------
(***************************************************************************)
(* What the vendor bills: b generations of a task with row r and phase ph, *)
(* in epoch e after d deaths of the process.                               *)
(***************************************************************************)
\* No job will submit the task again.
Closed(r, ph) ==
  /\ r.status \in {"queued", "running"} => r.remote
  /\ ph \notin {"reading", "submitting"}

Bills(r, b, ph, e, d) ==
  /\ r.attempts < MaxStepFailures
  /\ r.status = "none" => b = 0
  /\ ~Closed(r, ph) => b <= r.attempts + d
  /\ ph = "polling" => r.remote \/ r.status = "gone"
  /\ b <= MaxStepFailures + e - 1

BillsOf(t) == Bills(task[t], billed[t], PhaseOf(t), epoch, Deaths)

LEMMA BillingByTask == BillingInvariant <=> \A t \in Tasks : BillsOf(t)
  <1>1. ASSUME NEW t \in Tasks
        PROVE  /\ ~Closed(task[t], PhaseOf(t)) <=>
                    \/ Active(t) /\ ~task[t].remote
                    \/ step.task = t /\ step.phase \in {"reading", "submitting"}
               /\ PhaseOf(t) = "polling" <=> step.task = t /\ step.phase = "polling"
    BY DEF Closed, PhaseOf, Active
  <1>. QED  BY <1>1 DEF BillingInvariant, BillsOf, Bills, Exists

LEMMA BillingByTaskThen == BillingInvariant' <=> \A t \in Tasks : BillsOf(t)'
  <1>1. BillingInvariant' <=> (\A t \in Tasks : BillsOf(t))'
    BY BillingByTask, PTL
  <1>. QED  BY <1>1

LEMMA BillTypes ==
  ASSUME VideoInvariant
  PROVE  /\ MaxStepFailures \in Nat \ {0} /\ epoch \in Nat \ {0} /\ Deaths \in Nat
         /\ mode = "up" => Deaths = epoch - 1
         /\ \A t \in Tasks : billed[t] \in Nat /\ task[t] \in Row /\ task[t].attempts \in Nat
  BY VideoConstants, Types DEF VideoConstants, VideoInvariant, TypeOK, Deaths, Row

\* Nothing is billed: the row is r, then s.
LEMMA BillsMove ==
  ASSUME NEW r, NEW s, NEW ph, NEW q, NEW b \in Nat, NEW e \in Nat \ {0}, NEW d \in Nat,
         r.attempts \in Nat, s.attempts \in Nat, MaxStepFailures \in Nat \ {0},
         Bills(r, b, ph, e, d), s.attempts < MaxStepFailures,
         s.status = "none" => r.status = "none",
         q = "polling" => s.remote \/ s.status = "gone",
         \/ Closed(s, q) \/ r.status = "none"
         \/ ~Closed(r, ph) /\ s.attempts >= r.attempts
  PROVE  Bills(s, b, q, e, d)
  BY DEF Bills

\* The submission under way is billed.
LEMMA BillsMore ==
  ASSUME NEW r, NEW s, NEW q, NEW b \in Nat, NEW e \in Nat \ {0},
         r.attempts \in Nat, s.attempts \in Nat, MaxStepFailures \in Nat \ {0},
         Bills(r, b, "submitting", e, e - 1), s.attempts < MaxStepFailures,
         s.status # "none", q # "polling",
         Closed(s, q) \/ s.attempts > r.attempts
  PROVE  Bills(s, b + 1, q, e, e - 1)
  BY DEF Bills, Closed

\* The process dies; a submission under way may be billed all the same.
LEMMA BillsDie ==
  ASSUME NEW r, NEW ph, NEW b \in Nat, NEW e \in Nat \ {0}, NEW n \in {0, 1},
         r.attempts \in Nat, MaxStepFailures \in Nat \ {0},
         Bills(r, b, ph, e, e - 1), n = 1 => ph = "submitting" /\ r.status # "none"
  PROVE  Bills(r, b + n, "idle", e, e)
  BY DEF Bills, Closed

LEMMA BillsAgain ==
  ASSUME NEW r, NEW ph, NEW b \in Nat, NEW e \in Nat \ {0}, MaxStepFailures \in Nat,
         Bills(r, b, ph, e, e)
  PROVE  Bills(r, b, ph, e + 1, e)
  BY DEF Bills

-------------------------------------------------------------------------------
\* What a call of step u makes of its task.
AfterCall(u) ==
  /\ task'[u].attempts < MaxStepFailures /\ task'[u].status # "none"
  /\ PhaseOf(u)' \notin {"reading", "polling"}
  /\ \/ Closed(task'[u], PhaseOf(u)')
     \/ /\ Closed(task[u], PhaseOf(u)) => Closed(task'[u], PhaseOf(u)')
        /\ task'[u].attempts > task[u].attempts

LEMMA UpdatedRow ==
  ASSUME TypeOK, NEW u \in Tasks, NEW r, Update(u, r)
  PROVE  task'[u] = IF Exists(u) THEN r ELSE task[u]
  BY DEF Update, TypeOK

LEMMA SettleIsClosed ==
  ASSUME VideoInvariant, NEW u \in Tasks, BillsOf(u), NEW r \in Row,
         r.attempts < MaxStepFailures,
         NEW outcome \in {"failed", "succeeded"}, NEW word \in Words,
         Settle(u, r, outcome, word)
  PROVE  AfterCall(u)
  <1>. DEFINE s == [r EXCEPT !.status = outcome]
  <1>1. TypeOK  BY DEF VideoInvariant
  <1>2. s.status = outcome /\ s.attempts = r.attempts  BY DEF Row
  <1>3. task'[u] = IF Exists(u) THEN s ELSE task[u]
    BY <1>1, UpdatedRow DEF Settle
  <1>4. PhaseOf(u)' \in Words \cup {"ending"}
    BY DEF Settle, At, PhaseOf
  <1>. HIDE DEF s
  <1>5. CASE Exists(u)
    BY <1>2, <1>3, <1>4, <1>5 DEF AfterCall, Closed, Words
  <1>6. CASE ~Exists(u)
    BY <1>3, <1>4, <1>6 DEF AfterCall, Closed, Words, Exists, BillsOf, Bills
  <1>. QED  BY <1>5, <1>6

LEMMA FailIsClosed ==
  ASSUME VideoInvariant, NEW u \in Tasks, BillsOf(u), Fail(u)
  PROVE  AfterCall(u)
  BY BillTypes, SettleIsClosed DEF Fail, BillsOf, Bills, Words

LEMMA StepErrorCounts ==
  ASSUME VideoInvariant, NEW u \in Tasks, BillsOf(u), task[u].status # "none",
         StepError(u)
  PROVE  AfterCall(u)
  <1>1. CASE ~TriesLeft(u)  BY <1>1, FailIsClosed DEF StepError
  <1>2. CASE TriesLeft(u)
    <2>. DEFINE s == [task[u] EXCEPT !.attempts = @ + 1]
    <2>1. TypeOK /\ task[u] \in Row /\ task[u].attempts \in Nat
      BY BillTypes DEF VideoInvariant
    <2>2. /\ s.status = task[u].status /\ s.attempts = task[u].attempts + 1
          /\ s.remote = task[u].remote
      BY <2>1 DEF Row
    <2>3. Update(u, s) /\ step' = At("ending", u)
      BY <1>2 DEF StepError, Schedule
    <2>. HIDE DEF s
    <2>4. task'[u] = IF Exists(u) THEN s ELSE task[u]  BY <2>1, <2>3, UpdatedRow
    <2>5. PhaseOf(u)' = "ending"  BY <2>3 DEF At, PhaseOf
    <2>6. CASE Exists(u)
      BY <1>2, <2>1, <2>2, <2>4, <2>5, <2>6 DEF AfterCall, Closed, TriesLeft
    <2>7. CASE ~Exists(u)
      BY <2>4, <2>5, <2>7 DEF AfterCall, Closed, Exists, BillsOf, Bills
    <2>. QED  BY <2>6, <2>7
  <1>. QED  BY <1>1, <1>2

LEMMA AnswerIsClosed ==
  ASSUME VideoInvariant, NEW u \in Tasks, BillsOf(u), task[u].status # "none",
         NEW r \in Row, r.attempts < MaxStepFailures, r.status # "none",
         Exists(u) => r.remote, Answered(u, r)
  PROVE  AfterCall(u)
  <1>1. CASE ~Exists(u)  BY <1>1, StepErrorCounts DEF Answered
  <1>2. CASE Exists(u)
    <2>1. PICK snapshot \in {"running", "failed", "cancelled", "succeeded"} :
            Apply(u, r, snapshot)
      BY <1>2 DEF Answered
    <2>2. TypeOK /\ MaxStepFailures \in Nat \ {0}  BY BillTypes DEF VideoInvariant
    <2>3. CASE snapshot = "running"
      <3>. DEFINE s == [r EXCEPT !.status = "running", !.attempts = 0]
      <3>1. s.status = "running" /\ s.attempts = 0 /\ s.remote = r.remote  BY DEF Row
      <3>2. Update(u, s) /\ step' = At("ending", u)
        BY <2>1, <2>3 DEF Apply, Schedule
      <3>. HIDE DEF s
      <3>3. task'[u] = s  BY <1>2, <2>2, <3>2, UpdatedRow
      <3>4. PhaseOf(u)' = "ending"  BY <3>2 DEF At, PhaseOf
      <3>. QED  BY <1>2, <2>2, <3>1, <3>3, <3>4 DEF AfterCall, Closed
    <2>4. CASE snapshot = "failed"
      BY <2>1, <2>4, SettleIsClosed DEF Apply, Words
    <2>5. CASE snapshot = "cancelled"
      <3>. DEFINE s == [r EXCEPT !.status = "cancelled"]
      <3>1. s.status = "cancelled" /\ s.attempts = r.attempts  BY DEF Row
      <3>2. Update(u, s) /\ step' = At("ending", u)
        BY <2>1, <2>5 DEF Apply
      <3>. HIDE DEF s
      <3>3. task'[u] = s  BY <1>2, <2>2, <3>2, UpdatedRow
      <3>4. PhaseOf(u)' = "ending"  BY <3>2 DEF At, PhaseOf
      <3>. QED  BY <3>1, <3>3, <3>4 DEF AfterCall, Closed
    <2>6. CASE snapshot = "succeeded"
      <3>1. Update(u, r) /\ step' = At("downloading", u)
        BY <2>1, <2>6 DEF Apply
      <3>2. task'[u] = r  BY <1>2, <2>2, <3>1, UpdatedRow
      <3>3. PhaseOf(u)' = "downloading"  BY <3>1 DEF At, PhaseOf
      <3>. QED  BY <1>2, <3>2, <3>3 DEF AfterCall, Closed
    <2>. QED  BY <2>1, <2>3, <2>4, <2>5, <2>6
  <1>. QED  BY <1>1, <1>2

\* A call that bills nothing, and one that was billed.
LEMMA CallBillsNothing ==
  ASSUME VideoInvariant, VideoInvariant', NEW u \in Tasks, BillsOf(u), AfterCall(u),
         UNCHANGED <<billed, mode, epoch>>
  PROVE  BillsOf(u)'
  <1>1. task'[u].attempts \in Nat  BY DEF VideoInvariant, TypeOK
  <1>2. Deaths' = Deaths  BY DEF Deaths
  <1>3. Bills(task[u], billed[u], PhaseOf(u), epoch, Deaths)  BY DEF BillsOf
  <1>. DEFINE s == task'[u]
              q == PhaseOf(u)'
  <1>4. /\ s.attempts < MaxStepFailures /\ s.status # "none" /\ q # "polling"
        /\ \/ Closed(s, q)
           \/ ~Closed(task[u], PhaseOf(u)) /\ s.attempts >= task[u].attempts
    BY <1>1, BillTypes DEF AfterCall
  <1>. HIDE DEF s, q
  <1>5. Bills(s, billed[u], q, epoch, Deaths)
    BY <1>1, <1>3, <1>4, BillTypes, BillsMove DEF s
  <1>. QED  BY <1>2, <1>5 DEF BillsOf, s, q

LEMMA CallIsBilled ==
  ASSUME VideoInvariant, VideoInvariant', NEW u \in Tasks, BillsOf(u), AfterCall(u),
         In({"submitting"}, u), billed' = [billed EXCEPT ![u] = @ + 1],
         UNCHANGED <<mode, epoch>>
  PROVE  BillsOf(u)'
  <1>1. task'[u].attempts \in Nat  BY DEF VideoInvariant, TypeOK
  <1>2. PhaseOf(u) = "submitting" /\ mode = "up"  BY DEF In, PhaseOf
  <1>3. Deaths' = Deaths /\ Deaths = epoch - 1  BY <1>2, BillTypes DEF Deaths
  <1>4. billed'[u] = billed[u] + 1  BY DEF VideoInvariant, TypeOK
  <1>5. Bills(task[u], billed[u], "submitting", epoch, epoch - 1)
    BY <1>2, <1>3 DEF BillsOf
  <1>6. Bills(task'[u], billed[u] + 1, PhaseOf(u)', epoch, epoch - 1)
    BY <1>1, <1>5, BillTypes, BillsMore DEF AfterCall
  <1>. QED  BY <1>3, <1>4, <1>6 DEF BillsOf

LEMMA CallsKeepBills ==
  ASSUME VideoInvariant, VideoInvariant', NEW u \in Tasks, BillsOf(u), Calls(u)
  PROVE  BillsOf(u)'
  <1>1. /\ step.phase \in Waiting /\ step.task = u /\ mode = "up"
        /\ UNCHANGED rest
    BY DEF Calls, GivenUp, FrameRead, Submitted, SubmitTimesOut, Polled, Downloaded,
           CallFails, Rejected, In, Waiting
  <1>2. UNCHANGED <<mode, epoch>>  BY <1>1 DEF rest
  <1>3. GoodTask(u) /\ TypeOK /\ task[u] \in Row /\ task[u].attempts \in Nat
    BY BillTypes DEF VideoInvariant
  <1>4. task[u].status # "none"
    BY <1>1, <1>3 DEF GoodTask, Good, Meant, PhaseOf, Waiting
  <1>5. CASE GivenUp(u) \/ Rejected(u)
    BY <1>2, <1>5, FailIsClosed, CallBillsNothing DEF GivenUp, Rejected
  <1>6. CASE CallFails(u)
    BY <1>2, <1>4, <1>6, StepErrorCounts, CallBillsNothing DEF CallFails
  <1>7. CASE SubmitTimesOut(u)
    BY <1>2, <1>4, <1>7, StepErrorCounts, CallIsBilled DEF SubmitTimesOut
  <1>8. CASE FrameRead(u)
    <2>1. CASE u \notin frame
      BY <1>2, <1>8, <2>1, FailIsClosed, CallBillsNothing DEF FrameRead
    <2>2. CASE u \in frame
      <3>1. task' = task /\ billed' = billed /\ PhaseOf(u)' = "submitting"
        BY <1>8, <2>2 DEF FrameRead, At, PhaseOf
      <3>2. PhaseOf(u) = "reading" /\ Deaths' = Deaths
        BY <1>1, <1>2, <1>8 DEF FrameRead, In, PhaseOf, Deaths
      <3>3. ~Closed(task[u], "reading")  BY DEF Closed
      <3>. QED  BY <1>2, <1>3, <3>1, <3>2, <3>3 DEF BillsOf, Bills
    <2>. QED  BY <2>1, <2>2
  <1>9. CASE Downloaded(u)
    <2>1. task[u].attempts < MaxStepFailures  BY DEF BillsOf, Bills
    <2>2. AfterCall(u)
      BY <1>3, <1>9, <2>1, SettleIsClosed DEF Downloaded, Words
    <2>. QED  BY <1>2, <1>9, <2>2, CallBillsNothing DEF Downloaded
  <1>10. CASE Submitted(u)
    <2>. DEFINE r == [status |-> "running", remote |-> TRUE, attempts |-> 0]
    <2>1. /\ r \in Row /\ r.attempts < MaxStepFailures /\ r.remote
          /\ r.status # "none"
      BY BillTypes DEF Row, Statuses
    <2>2. Answered(u, r)  BY <1>10 DEF Submitted
    <2>. HIDE DEF r
    <2>3. AfterCall(u)  BY <1>4, <2>1, <2>2, AnswerIsClosed
    <2>. QED  BY <1>2, <1>10, <2>3, CallIsBilled DEF Submitted
  <1>11. CASE Polled(u)
    <2>1. PhaseOf(u) = "polling"  BY <1>11 DEF Polled, In, PhaseOf
    <2>2. task[u].attempts < MaxStepFailures /\ (Exists(u) => task[u].remote)
      BY <2>1 DEF BillsOf, Bills, Exists
    <2>3. AfterCall(u)
      BY <1>3, <1>4, <1>11, <2>2, AnswerIsClosed DEF Polled
    <2>. QED  BY <1>2, <1>11, <2>3, CallBillsNothing DEF Polled
  <1>. QED  BY <1>5, <1>6, <1>7, <1>8, <1>9, <1>10, <1>11 DEF Calls

-------------------------------------------------------------------------------
\* The shares of the other tasks do not change.
LEMMA OthersBills ==
  ASSUME NEW t, BillsOf(t), task'[t] = task[t], billed'[t] = billed[t],
         PhaseOf(t)' = PhaseOf(t), UNCHANGED <<mode, epoch>>
  PROVE  BillsOf(t)'
  BY DEF BillsOf, Deaths

\* Steps that call nobody.
LEMMA QuietKeepsBills ==
  ASSUME VideoInvariant, VideoInvariant', BillingInvariant,
         \/ JobDone
         \/ \E u \in Tasks : Admin(u) \/ Expire(u) \/ Worker(u) \/ Notify(u)
  PROVE  BillingInvariant'
  <1>1. /\ UNCHANGED <<billed, mode, epoch>>
    BY DEF JobDone, Admin, Create, CreateWithPersona, PersonaSaved, Cancel, Delete,
           LoseFrame, Expire, Worker, StepNothing, Step, StepFails, Notify, rest
  <1>2. Deaths' = Deaths  BY <1>1 DEF Deaths
  <1>3. \A t \in Tasks : BillsOf(t) /\ GoodTask(t)
    BY BillingByTask DEF VideoInvariant
  <1>4. TypeOK  BY DEF VideoInvariant
  \* The row of t, its phase, and what BillsMove asks of them.
  <1>5. ASSUME NEW t \in Tasks,
               task'[t].attempts = task[t].attempts,
               task'[t].status = "none" => task[t].status = "none",
               PhaseOf(t)' = "polling" => task'[t].remote \/ task'[t].status = "gone",
               \/ Closed(task'[t], PhaseOf(t)') \/ task[t].status = "none"
               \/ ~Closed(task[t], PhaseOf(t))
        PROVE  BillsOf(t)'
    <2>1. task[t].attempts \in Nat /\ task[t].attempts < MaxStepFailures
      BY <1>3, BillTypes DEF BillsOf, Bills
    <2>2. Bills(task[t], billed[t], PhaseOf(t), epoch, Deaths)  BY <1>3 DEF BillsOf
    <2>. DEFINE s == task'[t]
                q == PhaseOf(t)'
    <2>3. /\ s.attempts \in Nat /\ s.attempts < MaxStepFailures
          /\ s.attempts >= task[t].attempts
          /\ s.status = "none" => task[t].status = "none"
          /\ q = "polling" => s.remote \/ s.status = "gone"
          /\ \/ Closed(s, q) \/ task[t].status = "none"
             \/ ~Closed(task[t], PhaseOf(t)) /\ s.attempts >= task[t].attempts
      BY <1>5, <2>1
    <2>. HIDE DEF s, q
    <2>4. Bills(s, billed[t], q, epoch, Deaths)
      BY <2>1, <2>2, <2>3, BillTypes, BillsMove
    <2>. QED  BY <1>1, <1>2, <2>4 DEF BillsOf, s, q
  <1>6. ASSUME NEW u \in Tasks, Create(u) \/ PersonaSaved(u), NEW t \in Tasks
        PROVE  BillsOf(t)'
    <2>1. step' = step /\ task' = [task EXCEPT ![u].status = "queued"]
      BY <1>6 DEF Create, PersonaSaved, Insert
    <2>2. PhaseOf(t)' = PhaseOf(t)  BY <2>1 DEF PhaseOf
    <2>3. CASE t = u
      <3>1. task[t].status = "none"
        BY <1>3, <1>6, <2>3 DEF Create, PersonaSaved, GoodTask, Good
      <3>2. task'[t].attempts = task[t].attempts /\ task'[t].status = "queued"
        BY <1>4, <2>1, <2>3 DEF TypeOK
      <3>3. PhaseOf(t) = "idle"  BY <1>3, <3>1 DEF GoodTask, Good, Meant
      <3>. QED  BY <1>5, <2>2, <3>1, <3>2, <3>3
    <2>4. CASE t # u
      BY <1>1, <1>3, <1>4, <2>1, <2>2, <2>4, OthersBills DEF TypeOK
    <2>. QED  BY <2>3, <2>4
  <1>7. ASSUME NEW u \in Tasks, Cancel(u) \/ Delete(u), NEW t \in Tasks
        PROVE  BillsOf(t)'
    <2>1. step' = step  BY <1>7 DEF Cancel, Delete
    <2>2. PhaseOf(t)' = PhaseOf(t)  BY <2>1 DEF PhaseOf
    <2>3. CASE t = u
      <3>1. /\ task'[t].attempts = task[t].attempts
            /\ \/ task'[t].status = "cancelled" /\ task'[t].remote = task[t].remote
               \/ task'[t].status = "gone"
            /\ task[t].status # "none"
        BY <1>4, <1>7, <2>3 DEF Cancel, Delete, TypeOK, Active, Terminal
      <3>2. PhaseOf(t) = "polling" => task[t].remote \/ task[t].status = "gone"
        BY <1>3 DEF BillsOf, Bills
      <3>3. task[t].status # "gone"
        BY <1>7, <2>3 DEF Cancel, Delete, Active, Terminal
      <3>4. Closed(task[t], PhaseOf(t)) => Closed(task'[t], PhaseOf(t)')
        BY <2>2, <3>1 DEF Closed
      <3>. QED  BY <1>5, <2>2, <3>1, <3>2, <3>3, <3>4
    <2>4. CASE t # u
      BY <1>1, <1>3, <1>4, <1>7, <2>2, <2>4, OthersBills DEF Cancel, Delete, TypeOK
    <2>. QED  BY <2>3, <2>4
  <1>8. ASSUME NEW u \in Tasks, CreateWithPersona(u) \/ LoseFrame(u) \/ Expire(u),
               NEW t \in Tasks
        PROVE  BillsOf(t)'
    <2>1. task' = task /\ step' = step
      BY <1>8 DEF CreateWithPersona, LoseFrame, Expire
    <2>2. PhaseOf(t)' = PhaseOf(t)  BY <2>1 DEF PhaseOf
    <2>. QED  BY <1>1, <1>3, <2>1, <2>2, OthersBills
  <1>9. ASSUME NEW u \in Tasks, Worker(u), NEW t \in Tasks
        PROVE  BillsOf(t)'
    <2>1. step = Idle  BY <1>9 DEF Worker, StepNothing, Step, StepFails, Takes
    <2>2. PhaseOf(t) = "idle"  BY <2>1 DEF PhaseOf, Idle
    <2>3. CASE StepNothing(u)
      <3>1. task' = task /\ step' = step  BY <2>3 DEF StepNothing
      <3>2. PhaseOf(t)' = PhaseOf(t)  BY <3>1 DEF PhaseOf
      <3>. QED  BY <1>1, <1>3, <3>1, <3>2, OthersBills
    <2>4. CASE Step(u)
      <3>1. task' = task /\ step' = At(NextPhase(u), u) /\ Active(u)
        BY <2>4 DEF Step, CanStep
      <3>2. CASE t = u
        <4>1. PhaseOf(t)' = NextPhase(u)  BY <3>1, <3>2 DEF At, PhaseOf
        <4>2. NextPhase(u) = "polling" => task[u].remote  BY DEF NextPhase
        <4>3. NextPhase(u) \in {"reading", "submitting"} => ~task[u].remote
          BY DEF NextPhase
        <4>4. Closed(task'[t], PhaseOf(t)') \/ ~Closed(task[t], PhaseOf(t))
          BY <3>1, <3>2, <4>1, <4>3 DEF Closed, Active
        <4>. QED  BY <1>5, <3>1, <3>2, <4>1, <4>2, <4>4
      <3>3. CASE t # u
        <4>1. PhaseOf(t)' = PhaseOf(t)  BY <2>2, <3>1, <3>3 DEF At, PhaseOf
        <4>. QED  BY <1>1, <1>3, <3>1, <4>1, OthersBills
      <3>. QED  BY <3>2, <3>3
    <2>5. CASE StepFails(u)
      <3>1. /\ task' = [task EXCEPT ![u].status = "failed"] /\ step'.task = u
            /\ step'.phase \in {"sorry", "ending"}
        BY <2>5 DEF StepFails, At
      <3>2. CASE t = u
        <4>1. /\ PhaseOf(t)' \in {"sorry", "ending"}
              /\ task'[t].status = "failed" /\ task'[t].attempts = task[t].attempts
          BY <1>4, <3>1, <3>2 DEF PhaseOf, TypeOK
        <4>. QED  BY <1>5, <4>1 DEF Closed
      <3>3. CASE t # u
        <4>1. PhaseOf(t)' = PhaseOf(t) /\ task'[t] = task[t]
          BY <1>4, <2>2, <3>1, <3>3 DEF PhaseOf, TypeOK
        <4>. QED  BY <1>1, <1>3, <4>1, OthersBills
      <3>. QED  BY <3>2, <3>3
    <2>. QED  BY <1>9, <2>3, <2>4, <2>5 DEF Worker
  <1>10. ASSUME JobDone \/ \E u \in Tasks : Notify(u), NEW t \in Tasks
         PROVE  BillsOf(t)'
    <2>1. task' = task /\ step'.phase \in {"ending", "idle"}
      BY <1>10 DEF JobDone, Notify, At, Idle
    <2>2. PhaseOf(t)' \in {"ending", "idle"}  BY <2>1 DEF PhaseOf
    <2>3. Closed(task[t], PhaseOf(t)) => Closed(task'[t], PhaseOf(t)')
      BY <2>1, <2>2 DEF Closed
    <2>. QED  BY <1>5, <2>1, <2>2, <2>3
  <1>11. \A t \in Tasks : BillsOf(t)'
    BY <1>6, <1>7, <1>8, <1>9, <1>10 DEF Admin
  <1>. QED  BY <1>11, BillingByTaskThen

\* The share of a task in Unanswered.
LEMMA DeathKeepsBills ==
  ASSUME VideoInvariant, NEW t \in Tasks, BillsOf(t), mode = "up", mode' = "down",
         epoch' = epoch, step' = Idle, Unanswered
  PROVE  /\ Bills(task[t], billed'[t], PhaseOf(t)', epoch', Deaths')
         /\ task[t].status = "none" => billed'[t] = 0
  <1>1. TypeOK /\ GoodTask(t)  BY DEF VideoInvariant
  <1>2. Deaths = epoch - 1 /\ Deaths' = epoch  BY DEF Deaths
  <1>3. PhaseOf(t)' = "idle"  BY DEF PhaseOf, Idle
  <1>4. PICK n \in {0, 1} :
          /\ billed'[t] = billed[t] + n
          /\ n = 1 => PhaseOf(t) = "submitting" /\ task[t].status # "none"
    <2>1. CASE UNCHANGED billed
      <3>1. billed'[t] = billed[t] + 0  BY <2>1, BillTypes
      <3>. QED  BY <3>1
    <2>2. CASE /\ step.phase = "submitting"
               /\ billed' = [billed EXCEPT ![step.task] = @ + 1]
      <3>1. CASE step.task = t
        <4>1. billed'[t] = billed[t] + 1 /\ PhaseOf(t) = "submitting"
          BY <1>1, <2>2, <3>1 DEF TypeOK, PhaseOf
        <4>2. task[t].status # "none"  BY <1>1, <4>1 DEF GoodTask, Good, Meant
        <4>. QED  BY <4>1, <4>2
      <3>2. CASE step.task # t
        <4>1. billed'[t] = billed[t] + 0  BY <1>1, <2>2, <3>2, BillTypes DEF TypeOK
        <4>. QED  BY <4>1
      <3>. QED  BY <3>1, <3>2
    <2>. QED  BY <2>1, <2>2 DEF Unanswered
  <1>5. Bills(task[t], billed[t] + n, "idle", epoch, epoch)
    BY <1>2, <1>4, BillTypes, BillsDie DEF BillsOf
  <1>6. task[t].status = "none" => billed'[t] = 0
    <2>. SUFFICES ASSUME task[t].status = "none" PROVE billed'[t] = 0
      OBVIOUS
    <2>1. n = 0 /\ billed[t] = 0  BY <1>4 DEF BillsOf, Bills
    <2>. QED  BY <1>4, <2>1
  <1>. QED  BY <1>2, <1>3, <1>4, <1>5, <1>6

LEMMA DeathsKeepBilling ==
  ASSUME VideoInvariant, BillingInvariant, Crash \/ \E u \in Tasks : DieCreating(u)
  PROVE  BillingInvariant'
  <1>1. /\ mode = "up" /\ mode' = "down" /\ epoch' = epoch /\ step' = Idle
        /\ Unanswered
    BY DEF Crash, DieCreating, ThreadIsFree
  <1>2. ASSUME NEW t \in Tasks
        PROVE  BillsOf(t)'
    <2>1. BillsOf(t) /\ GoodTask(t) /\ TypeOK  BY BillingByTask DEF VideoInvariant
    <2>2. /\ Bills(task[t], billed'[t], PhaseOf(t)', epoch', Deaths')
          /\ task[t].status = "none" => billed'[t] = 0
      BY <1>1, <2>1, DeathKeepsBills
    <2>3. CASE task'[t] = task[t]  BY <2>2, <2>3 DEF BillsOf
    <2>4. CASE task'[t] # task[t]
      <3>1. PICK u \in Tasks : DieCreating(u)  BY <2>4 DEF Crash
      <3>2. t = u  BY <2>1, <2>4, <3>1 DEF DieCreating, TypeOK
      <3>3. task[t].status = "none"
        BY <2>1, <3>1, <3>2 DEF DieCreating, GoodTask, Good
      <3>4. task'[t].status = "queued" /\ task'[t].attempts = task[t].attempts
        BY <2>1, <3>1, <3>2 DEF DieCreating, TypeOK
      <3>5. PhaseOf(t)' = "idle" /\ billed'[t] = 0 /\ Deaths' \in Nat
        BY <1>1, <2>2, <3>3, BillTypes DEF PhaseOf, Idle, Deaths
      <3>. QED  BY <1>1, <2>2, <3>4, <3>5, BillTypes DEF BillsOf, Bills
    <2>. QED  BY <2>3, <2>4
  <1>. QED  BY <1>2, BillingByTaskThen

LEMMA RestartKeepsBilling ==
  ASSUME VideoInvariant, BillingInvariant, Restart
  PROVE  BillingInvariant'
  <1>1. /\ UNCHANGED <<task, billed, step>> /\ epoch' = epoch + 1
        /\ Deaths = epoch /\ Deaths' = epoch
    BY BillTypes DEF Restart, Deaths
  <1>2. ASSUME NEW t \in Tasks PROVE BillsOf(t)'
    <2>1. PhaseOf(t)' = PhaseOf(t)  BY <1>1 DEF PhaseOf
    <2>2. Bills(task[t], billed[t], PhaseOf(t), epoch, epoch)
      BY <1>1, BillingByTask DEF BillsOf
    <2>. QED  BY <1>1, <2>1, <2>2, BillTypes, BillsAgain DEF BillsOf
  <1>. QED  BY <1>2, BillingByTaskThen

LEMMA CallsStayPut ==
  ASSUME NEW u \in Tasks, Calls(u)
  PROVE  step.task = u /\ step'.task = u
  <1>1. step.task = u
    BY DEF Calls, GivenUp, FrameRead, Submitted, SubmitTimesOut, Polled, Downloaded,
           CallFails, Rejected, In
  <1>2. ASSUME NEW ph, step' = At(ph, u) PROVE step'.task = u
    BY <1>2 DEF At
  <1>3. ASSUME Fail(u) PROVE step'.task = u
    BY <1>2, <1>3 DEF Fail, Settle
  <1>4. ASSUME StepError(u) PROVE step'.task = u
    BY <1>2, <1>3, <1>4 DEF StepError, Schedule
  <1>5. ASSUME NEW r, Answered(u, r) PROVE step'.task = u
    <2>1. CASE Exists(u)
      <3>1. PICK snapshot \in {"running", "failed", "cancelled", "succeeded"} :
              Apply(u, r, snapshot)
        BY <1>5, <2>1 DEF Answered
      <3>. QED  BY <1>2, <3>1 DEF Apply, Schedule, Settle
    <2>2. CASE ~Exists(u)  BY <1>4, <1>5, <2>2 DEF Answered
    <2>. QED  BY <2>1, <2>2
  <1>6. ASSUME FrameRead(u) PROVE step'.task = u
    BY <1>3, <1>6 DEF FrameRead, At
  <1>7. ASSUME Downloaded(u) PROVE step'.task = u
    BY <1>7 DEF Downloaded, Settle, At
  <1>. QED  BY <1>1, <1>3, <1>4, <1>5, <1>6, <1>7
            DEF Calls, GivenUp, Submitted, SubmitTimesOut, Polled, CallFails, Rejected

LEMMA BillingStep ==
  VideoInvariant /\ VideoInvariant' /\ BillingInvariant /\ [Next]_vars => BillingInvariant'
  <1>. SUFFICES ASSUME VideoInvariant, VideoInvariant', BillingInvariant, [Next]_vars
                PROVE  BillingInvariant'
    OBVIOUS
  <1>1. \A t \in Tasks : BillsOf(t)  BY BillingByTask
  <1>2. CASE UNCHANGED vars
    <2>1. \A t \in Tasks : PhaseOf(t)' = PhaseOf(t)  BY <1>2 DEF vars, PhaseOf
    <2>2. \A t \in Tasks : BillsOf(t)'  BY <1>1, <1>2, <2>1, OthersBills DEF vars
    <2>. QED  BY <2>2, BillingByTaskThen
  <1>3. ASSUME NEW u \in Tasks, Calls(u) PROVE BillingInvariant'
    <2>1. TypeOK /\ step.task = u /\ step'.task = u
      BY <1>3, CallsStayPut DEF VideoInvariant
    <2>2. UNCHANGED <<mode, epoch>>
      BY <1>3 DEF Calls, GivenUp, FrameRead, Submitted, SubmitTimesOut,
         Polled, Downloaded, CallFails, Rejected, rest
    <2>3. billed' = billed \/ billed' = [billed EXCEPT ![u] = @ + 1]
      BY <1>3 DEF Calls, GivenUp, FrameRead, Submitted, SubmitTimesOut, Polled,
         Downloaded, CallFails, Rejected
    <2>4. ASSUME NEW t \in Tasks PROVE BillsOf(t)'
      <3>1. CASE t = u  BY <1>1, <1>3, <3>1, CallsKeepBills
      <3>2. CASE t # u
        <4>1. task'[t] = task[t]  BY <1>3, <2>1, <3>2, CallsChangeOne
        <4>2. billed'[t] = billed[t] /\ PhaseOf(t)' = PhaseOf(t)
          BY <2>1, <2>3, <3>2 DEF TypeOK, PhaseOf
        <4>. QED  BY <1>1, <2>2, <4>1, <4>2, OthersBills
      <3>. QED  BY <3>1, <3>2
    <2>. QED  BY <2>4, BillingByTaskThen
  <1>4. CASE Restart  BY <1>4, RestartKeepsBilling
  <1>5. CASE Crash \/ \E u \in Tasks : DieCreating(u)  BY <1>5, DeathsKeepBilling
  <1>6. CASE \/ JobDone
             \/ \E u \in Tasks : Admin(u) \/ Expire(u) \/ Worker(u) \/ Notify(u)
    BY <1>6, QuietKeepsBills
  <1>. QED  BY <1>2, <1>3, <1>4, <1>5, <1>6 DEF Next

\* handleStepError() counts what createTask() may have started: the vendor never
\* bills a task more often than MAX_STEP_FAILURES and the deaths of the process
\* allow, however cancellations, deletions and jobs left over fall.
THEOREM BillsAreBounded == Spec => []BilledBounded
  <1>1. Init => BillingInvariant
    <2>. SUFFICES ASSUME Init PROVE BillingInvariant
      OBVIOUS
    <2>1. MaxStepFailures \in Nat \ {0}  BY VideoConstants DEF VideoConstants
    <2>. QED  BY <2>1 DEF Init, BillingInvariant, NoRow, Idle, Active, Deaths, Exists
  <1>2. BillingInvariant => BilledBounded  BY DEF BillingInvariant, BilledBounded
  <1>. QED  BY <1>1, <1>2, BillingStep, VideoInvariantHolds, PTL DEF Spec
===============================================================================
