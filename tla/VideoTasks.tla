------------------------------ MODULE VideoTasks ------------------------------
(***************************************************************************)
(* Video generation: VideoGenerationService with its table video_tasks, its *)
(* jobs video.generate and the chat follow-up of a settled task.            *)
(*                                                                         *)
(* A job advances one task by one step: submit it to the vendor, poll the  *)
(* vendor once, or download the clip.  Between the awaits of a step an     *)
(* admin may cancel or delete the task and other jobs may be scheduled, so *)
(* that a step acts on a row it read some time ago.  The lane has one      *)
(* slot: steps never overlap, but one task may have several jobs.          *)
(***************************************************************************)
EXTENDS Naturals, FiniteSets

CONSTANTS
  Tasks,           \* tasks that may be created
  Pictured,        \* those whose first frame is in the media library
  Persona,         \* those whose first frame is saved by create() itself
  Chat,            \* those a reply promised: their outcome is spoken
  MaxActive,       \* models.video.maxActiveTasks
  MaxStepFailures, \* MAX_STEP_FAILURES
  MaxEpoch         \* bound: incarnations of the process (crashes + 1)

ASSUME VideoConstants ==
  /\ Pictured \subseteq Tasks /\ Persona \subseteq Tasks \ Pictured
  /\ Chat \subseteq Tasks
  /\ MaxActive \in Nat \ {0} /\ MaxStepFailures \in Nat \ {0}
  /\ MaxEpoch \in Nat \ {0}

VARIABLES
  task,      \* durable: video_tasks
  jobs,      \* durable: pending jobs of each task
  frame,     \* durable: whether the first frame of a task is still on disk
  spoken,    \* durable: the follow-ups published for each task
  billed,    \* generations the vendor has started for each task
  late,      \* tasks older than maxWaitMs
  creating,  \* create() calls that are saving their first frame
  step,      \* the step under way, if any
  unplanned, \* tasks whose create() died before it scheduled a job
  mode, epoch

vars == <<task, jobs, frame, spoken, billed, late, creating, step, unplanned,
          mode, epoch>>

Statuses == {"none", "queued", "running", "succeeded", "failed", "cancelled", "gone"}
Terminal == {"succeeded", "failed", "cancelled"}
Words == {"clip", "sorry"}
Waiting == {"reading", "submitting", "polling", "downloading", "giving up"}

NoRow == [status |-> "none", remote |-> FALSE, attempts |-> 0]
Idle == [phase |-> "idle", task |-> "none"]
At(phase, t) == [phase |-> phase, task |-> t]

\* The statements after the last await of a step: only a crash comes between.
Holding == step.phase \in {"clip", "sorry", "ending"}
ThreadIsFree == mode = "up" /\ ~Holding

Active(t) == task[t].status \in {"queued", "running"}

Init ==
  /\ task = [t \in Tasks |-> NoRow]
  /\ jobs = [t \in Tasks |-> 0]
  /\ frame = Pictured
  /\ spoken = [t \in Tasks |-> [w \in Words |-> 0]]
  /\ billed = [t \in Tasks |-> 0]
  /\ late = {} /\ creating = {} /\ step = Idle /\ unplanned = {}
  /\ mode = "up" /\ epoch = 1

-------------------------------------------------------------------------------
(***************************************************************************)
(* create(), cancel(), delete() and the loss of a first frame.             *)
(***************************************************************************)
HasRoom == Cardinality({t \in Tasks : Active(t)}) < MaxActive

\* The two writes of create(): the row, and the job of the first step.
Insert(t) ==
  /\ task' = [task EXCEPT ![t].status = "queued"]
  /\ jobs' = [jobs EXCEPT ![t] = @ + 1]

Create(t) ==
  /\ ThreadIsFree /\ task[t].status = "none" /\ t \notin Persona
  /\ t \in Pictured => t \in frame
  /\ HasRoom
  /\ Insert(t)
  /\ UNCHANGED <<frame, spoken, billed, late, creating, step, unplanned, mode, epoch>>

\* The limit is checked before the picture is saved, not after.
CreateWithPersona(t) ==
  /\ ThreadIsFree /\ task[t].status = "none" /\ t \in Persona \ creating
  /\ HasRoom
  /\ creating' = creating \cup {t}
  /\ UNCHANGED <<task, jobs, frame, spoken, billed, late, step, unplanned, mode, epoch>>

PersonaSaved(t) ==
  /\ ThreadIsFree /\ t \in creating
  /\ creating' = creating \ {t}
  /\ frame' = frame \cup {t}
  /\ Insert(t)
  /\ UNCHANGED <<spoken, billed, late, step, unplanned, mode, epoch>>

\* The vendor is told as well, best-effort.
Cancel(t) ==
  /\ ThreadIsFree /\ Active(t)
  /\ task' = [task EXCEPT ![t].status = "cancelled"]
  /\ UNCHANGED <<jobs, frame, spoken, billed, late, creating, step, unplanned, mode, epoch>>

Delete(t) ==
  /\ ThreadIsFree /\ task[t].status \in Terminal
  /\ task' = [task EXCEPT ![t].status = "gone", ![t].remote = FALSE]
  /\ late' = late \ {t}
  /\ UNCHANGED <<jobs, frame, spoken, billed, creating, step, unplanned, mode, epoch>>

\* Once the task is submitted its frame is not looked at again.
\* Neither collectOrphans() nor the trash of the library knows video_tasks.
\* ON DELETE SET NULL turns the row into one without a first frame.
LoseFrame(t) ==
  /\ ThreadIsFree /\ t \in frame /\ ~task[t].remote
  /\ frame' = frame \ {t}
  /\ UNCHANGED <<task, jobs, spoken, billed, late, creating, step, unplanned, mode, epoch>>

Expire(t) ==
  /\ task[t].status \notin {"none", "gone"} /\ t \notin late
  /\ late' = late \cup {t}
  /\ UNCHANGED <<task, jobs, frame, spoken, billed, creating, step, unplanned, mode, epoch>>

-------------------------------------------------------------------------------
(***************************************************************************)
(* How a step ends.  An update of a deleted row changes nothing.           *)
(***************************************************************************)
Exists(t) == task[t].status # "gone"

Update(t, row) == task' = IF Exists(t) THEN [task EXCEPT ![t] = row] ELSE task

IsSpoken_Always(t) == t \in Chat

\* notify() is called only when the update found its row.
IsSpoken(t) == t \in Chat /\ Exists(t)

Settle(t, row, outcome, word) ==
  /\ Update(t, [row EXCEPT !.status = outcome])
  /\ step' = At(IF IsSpoken(t) THEN word ELSE "ending", t)
  /\ UNCHANGED jobs

Fail(t) == Settle(t, task[t], "failed", "sorry")

Schedule_Never(t) == step' = At("ending", t) /\ UNCHANGED jobs

Schedule(t) ==
  /\ jobs' = [jobs EXCEPT ![t] = @ + 1]
  /\ step' = At("ending", t)

TriesLeft_OneMore(t) == task[t].attempts < MaxStepFailures
TriesLeft(t) == task[t].attempts + 1 < MaxStepFailures

\* handleStepError() of an error that a retry may fix.
StepError(t) ==
  IF TriesLeft(t)
    THEN /\ Update(t, [task[t] EXCEPT !.attempts = @ + 1])
         /\ Schedule(t)
    ELSE Fail(t)

\* apply() of a snapshot the vendor answered with.  It does not ask whether the
\* task is still active: an answer in flight overtakes a cancellation.
Apply(t, row, snapshot) ==
  CASE snapshot = "running" ->
         /\ Update(t, [row EXCEPT !.status = "running", !.attempts = 0])
         /\ Schedule(t)
    [] snapshot = "failed" -> Settle(t, row, "failed", "sorry")
    [] snapshot = "cancelled" ->
         /\ Update(t, [row EXCEPT !.status = "cancelled"])
         /\ step' = At("ending", t)
         /\ UNCHANGED jobs
    [] snapshot = "succeeded" ->
         /\ Update(t, row)
         /\ step' = At("downloading", t)
         /\ UNCHANGED jobs

\* apply() throws when the row was deleted meanwhile: the step has failed.
Answered(t, row) ==
  IF Exists(t)
    THEN \E s \in {"running", "failed", "cancelled", "succeeded"} : Apply(t, row, s)
    ELSE StepError(t)

-------------------------------------------------------------------------------
(***************************************************************************)
(* step().                                                                 *)
(***************************************************************************)
Takes(t) == mode = "up" /\ step = Idle /\ jobs[t] > 0

CanStep_Any(t) == Exists(t)

\* A step of a terminal or deleted task does nothing.
CanStep(t) == Active(t)

StepNothing(t) ==
  /\ Takes(t) /\ ~CanStep(t)
  /\ jobs' = [jobs EXCEPT ![t] = @ - 1]
  /\ UNCHANGED <<task, frame, spoken, billed, late, creating, step, unplanned, mode, epoch>>

\* A task whose frame is gone has lost the reference to it as well.
NextPhase(t) ==
  CASE t \in late -> "giving up"
    [] t \notin late /\ task[t].remote -> "polling"
    [] t \notin late /\ ~task[t].remote /\ t \in frame -> "reading"
    [] t \notin late /\ ~task[t].remote /\ t \notin frame -> "submitting"

Step(t) ==
  /\ Takes(t) /\ CanStep(t)
  /\ t \in late => task[t].remote
  /\ jobs' = [jobs EXCEPT ![t] = @ - 1]
  /\ step' = At(NextPhase(t), t)
  /\ UNCHANGED <<task, frame, spoken, billed, late, creating, unplanned, mode, epoch>>

rest == <<frame, spoken, late, creating, unplanned, mode, epoch>>

\* No provider is configured any more, or nothing was submitted in time.
StepFails(t) ==
  /\ Takes(t) /\ CanStep(t)
  /\ task' = [task EXCEPT ![t].status = "failed"]
  /\ jobs' = [jobs EXCEPT ![t] = @ - 1]
  /\ step' = At(IF IsSpoken(t) THEN "sorry" ELSE "ending", t)
  /\ UNCHANGED <<billed, rest>>

In(phases, t) == mode = "up" /\ step.phase \in phases /\ step.task = t

\* cancelTask() of the vendor has answered or failed.
GivenUp(t) ==
  /\ In({"giving up"}, t)
  /\ Fail(t)
  /\ UNCHANGED <<billed, rest>>

FrameRead(t) ==
  /\ In({"reading"}, t)
  /\ IF t \in frame THEN step' = At("submitting", t) /\ UNCHANGED <<task, jobs>>
                    ELSE Fail(t)
  /\ UNCHANGED <<billed, rest>>

Submitted(t) ==
  /\ In({"submitting"}, t)
  /\ billed' = [billed EXCEPT ![t] = @ + 1]
  /\ Answered(t, [status |-> "running", remote |-> TRUE, attempts |-> 0])
  /\ UNCHANGED rest

\* HttpTimeoutError: the vendor may have started the generation all the same.
SubmitTimesOut(t) ==
  /\ In({"submitting"}, t)
  /\ billed' = [billed EXCEPT ![t] = @ + 1]
  /\ StepError(t)
  /\ UNCHANGED rest

Polled(t) ==
  /\ In({"polling"}, t)
  /\ Answered(t, task[t])
  /\ UNCHANGED <<billed, rest>>

Downloaded_AsPoll(t) ==
  /\ In({"downloading"}, t)
  /\ Update(t, [task[t] EXCEPT !.status = "running"])
  /\ step' = At("clip", t)
  /\ UNCHANGED <<jobs, billed, rest>>

\* The clip is saved in the library, then the row is updated.
Downloaded(t) ==
  /\ In({"downloading"}, t)
  /\ Settle(t, task[t], "succeeded", "clip")
  /\ UNCHANGED <<billed, rest>>

\* Unreachable, a 5xx, 429 or 408, or the media store is blocked.
CallFails(t) ==
  /\ In({"submitting", "polling", "downloading"}, t)
  /\ StepError(t)
  /\ UNCHANGED <<billed, rest>>

\* isPermanent(): rejected, not configured, not a video, too large, no space.
Rejected(t) ==
  /\ In({"submitting", "polling", "downloading"}, t)
  /\ Fail(t)
  /\ UNCHANGED <<billed, rest>>

\* The follow-up is one message, published in one transaction.
Notify(t) ==
  /\ In(Words, t)
  /\ spoken' = [spoken EXCEPT ![t][step.phase] = @ + 1]
  /\ step' = At("ending", t)
  /\ UNCHANGED <<task, jobs, frame, billed, late, creating, unplanned, mode, epoch>>

\* The worker marks the job done.
JobDone ==
  /\ mode = "up" /\ step.phase = "ending"
  /\ step' = Idle
  /\ UNCHANGED <<task, jobs, billed, rest>>

-------------------------------------------------------------------------------
(***************************************************************************)
(* The process dies; at boot a job that was running is pending again.  A   *)
(* step that had scheduled the next one leaves its task with two jobs.     *)
(***************************************************************************)
Requeued_Lost == jobs
Requeued ==
  IF step = Idle THEN jobs ELSE [jobs EXCEPT ![step.task] = @ + 1]

\* A submission nobody waits for any more may have been accepted.
Unanswered ==
  \/ UNCHANGED billed
  \/ /\ step.phase = "submitting"
     /\ billed' = [billed EXCEPT ![step.task] = @ + 1]

Crash ==
  /\ mode = "up" /\ epoch < MaxEpoch
  /\ mode' = "down" /\ creating' = {} /\ step' = Idle
  /\ jobs' = Requeued
  /\ Unanswered
  /\ UNCHANGED <<task, frame, spoken, late, unplanned, epoch>>

\* Between the two writes of create(): no job will ever look at the task.
DieCreating(t) ==
  /\ ThreadIsFree /\ epoch < MaxEpoch
  /\ \/ t \in creating
     \/ task[t].status = "none" /\ t \notin Persona /\ HasRoom
  /\ task' = [task EXCEPT ![t].status = "queued"]
  /\ unplanned' = unplanned \cup {t}
  /\ mode' = "down" /\ creating' = {} /\ step' = Idle
  /\ jobs' = Requeued
  /\ Unanswered
  /\ UNCHANGED <<frame, spoken, late, epoch>>

Restart ==
  /\ mode = "down"
  /\ mode' = "up" /\ epoch' = epoch + 1
  /\ UNCHANGED <<task, jobs, frame, spoken, billed, late, creating, step, unplanned>>

Admin(t) ==
  \/ Create(t) \/ CreateWithPersona(t) \/ PersonaSaved(t)
  \/ Cancel(t) \/ Delete(t) \/ LoseFrame(t)

Calls(t) ==
  \/ GivenUp(t) \/ FrameRead(t) \/ Submitted(t) \/ SubmitTimesOut(t)
  \/ Polled(t) \/ Downloaded(t) \/ CallFails(t) \/ Rejected(t)

Worker(t) == StepNothing(t) \/ Step(t) \/ StepFails(t)

Next ==
  \/ \E t \in Tasks : \/ Admin(t) \/ Expire(t) \/ Worker(t) \/ Calls(t)
                      \/ Notify(t) \/ DieCreating(t)
  \/ JobDone \/ Crash \/ Restart

Spec == Init /\ [][Next]_vars

\* Every request has a timeout, the queue hands out the jobs in their order,
\* a task grows old, and a supervisor starts the process again.
Fairness ==
  /\ \A t \in Tasks : /\ WF_vars(Calls(t)) /\ WF_vars(Notify(t))
                      /\ SF_vars(Worker(t)) /\ WF_vars(Expire(t))
  /\ WF_vars(JobDone) /\ WF_vars(Restart)

FairSpec == Spec /\ Fairness

-------------------------------------------------------------------------------
(***************************************************************************)
(* Properties                                                              *)
(***************************************************************************)
TypeOK ==
  /\ task \in [Tasks -> [status : Statuses, remote : BOOLEAN, attempts : Nat]]
  /\ jobs \in [Tasks -> Nat] /\ billed \in [Tasks -> Nat]
  /\ spoken \in [Tasks -> [Words -> Nat]]
  /\ frame \subseteq Tasks /\ late \subseteq Tasks
  /\ creating \subseteq Persona /\ unplanned \subseteq Tasks
  /\ step \in [phase : Waiting \cup Words \cup {"ending"}, task : Tasks] \cup {Idle}
  /\ mode \in {"up", "down"} /\ epoch \in 1 .. MaxEpoch

\* A task that is not settled has somebody to move it: a pending job or the
\* step under way.  Each step ends by scheduling the next, and a crash may fall
\* between any two of these writes; the only hole is create() itself.
MovesOn(t) == Active(t) => jobs[t] > 0 \/ step.task = t \/ t \in unplanned

ChainUnbroken == \A t \in Tasks : MovesOn(t)

\* What was said of a task agrees with what became of it, and is said once,
\* however many jobs of the task are left over and wherever it was cancelled.
Truthful(t) ==
  /\ spoken[t]["clip"] + spoken[t]["sorry"] <= 1
  /\ spoken[t]["clip"] > 0 => task[t].status \in {"succeeded", "gone"}
  /\ spoken[t]["sorry"] > 0 => task[t].status \in {"failed", "gone"}

SpokenOnce == \A t \in Tasks : Truthful(t)

\* An outcome stands: a job left over never starts a settled task again.  Only
\* a step that was under way when the task was cancelled may still change it.
OutcomeStays ==
  [][\A t \in Tasks :
       task[t].status \in Terminal /\ step.task # t =>
         task'[t].status \in {task[t].status, "cancelled", "gone"}]_vars

\* Nothing is published for a task after its record was deleted.
DeletedIsSilent ==
  [][\A t \in Tasks : task[t].status = "gone" => spoken'[t] = spoken[t]]_vars

\* A settled task stays as it is, and a deleted one is not spoken of.
OutcomeIsFinal == OutcomeStays /\ DeletedIsSilent

\* The vendor is never asked more often than the retries and the crashes allow.
BilledBounded ==
  \A t \in Tasks : billed[t] <= MaxStepFailures + epoch - 1

\* Why BilledBounded holds, as an inductive invariant: while the vendor's id of a
\* task is not known, every generation billed was counted as a failed attempt or
\* lost with its process; from then on nothing is submitted again.
Deaths == IF mode = "down" THEN epoch ELSE epoch - 1

BillingInvariant ==
  \A t \in Tasks :
    /\ task[t].attempts < MaxStepFailures
    /\ task[t].status = "none" => billed[t] = 0
    /\ \/ Active(t) /\ ~task[t].remote
       \/ step.task = t /\ step.phase \in {"reading", "submitting"}
       => billed[t] <= task[t].attempts + Deaths
    /\ step.task = t /\ step.phase = "polling" => task[t].remote \/ ~Exists(t)
    /\ billed[t] <= MaxStepFailures + epoch - 1

\* Every task that has a job settles, and stays settled.
EveryTaskSettles ==
  \A t \in Tasks : (Active(t) /\ t \notin unplanned) ~> [](~Active(t))
===============================================================================
