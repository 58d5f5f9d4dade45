# Specifications of SOOYA

SOOYA is a chat companion: one Node process with one SQLite database that takes
messages of one user (from QQ or the web), answers them with language models, and
delivers the answers back to QQ.  Beside the conversation it lives a simulated life,
speaks of it unasked, remembers plans of the user, makes videos, and files what was
said in an external memory.  This directory holds TLA+ specifications of the parts of
its server (`src/packages/server/src`) where ordering, failure and restart decide
whether the outcome is right; the TLC runs that check them; and proofs for TLAPS of
all their safety properties.  Paths below are relative to `src/packages/server/src`.

Contents: [components](#components) · [modules](#modules) ·
[how the models correspond to the code](#how-the-models-correspond-to-the-code) ·
[runs](#runs-and-what-they-show) · [fairness](#fairness) ·
[proofs](#proofs) · [disagreements with the documentation](#disagreements-between-code-and-documentation) ·
[not modelled](#what-is-not-modelled) · [plan](#plan)

To check a run: `tlc -config Reply_safety.cfg MCReplyCoordinator` (the pairs are in
`PROJECT.json`, `runs`).  To check the proofs: `tlapm` on `ReplyCoordinatorProofs.tla`,
`JobQueueProofs.tla`, `QqInboundProofs.tla`, `QqDeliveryProofs.tla`,
`VideoTasksProofs.tla`, `StorageProofs.tla`, `ProactiveProofs.tla` and
`LifeAndMemoryProofs.tla`.

## Components

The process is single-threaded: two pieces of code interleave only where one of
them awaits, and a crash may come between any two durable writes.  SQLite
transactions are synchronous.  So the unit of every model is the stretch of code
between two awaits, cut further where a crash between two writes matters.

| Component | State | Operations | Talks to | Hard behaviour | Correct when |
|---|---|---|---|---|---|
| Reply batches (`db/repos/reply-batch.repo.ts`) | `reply_batches`, `reply_batch_messages` | fenced UPDATEs: append, interrupt, beginGenerating, beginPublishing, complete, fail, prepareRetry, requeue, retry, recoverOpen | coordinator, ingress | revision, lease and barrier fences against stale writers | one reply per batch, to all its messages |
| Reply coordinator (`core/reply-coordinator.ts`) | one generation, ready queue, timers, proactive queue | onMessageAccepted, schedule, drain, startGeneration, handleGenerationFailure, recover, stop, retryBatch | batches, replier, app | interrupts, timeouts with backoff, sweep against a live generation, crash at each stage | every message settles; published replies are kept and handed over |
| Message ingress (`core/message-ingress.ts`) | – | accept | batches, coordinator | admission and wake-up in one turn of the event loop | a message joins exactly one batch |
| Replier (`core/replier.ts`) | the assistant message | generateText, openBarrier, createShell, publishGeneratedReply | providers, messages | the publish barrier is opened from a stream callback | at most one message per barrier |
| Boot and maintenance (`app.ts`) | timers | recovery at boot, sweeps, onCompleted, close | all | recovery of state that is in use | recovery loses nothing |
| Job queue and worker (`core/jobs*`, `db/repos/misc.repo.ts`) | `jobs`; active jobs | enqueue, claimNext, complete, fail, recoverStuck, pump, stop, executeWithContract | handlers | lanes, abort and observe timeouts, retries, crash | no job twice at once, none lost |
| QQ delivery outbox (`channels/qq/outbound.ts`, `db/repos/channel-delivery.repo.ts`) | `channel_delivery` with step progress | deliver, classifyFailure, due scan, manual retry, recoverInFlight | jobs, QQ platform | lost answers, duplicate jobs, crash between sends | shown once, in order, completely |
| QQ inbound (`channels/qq/channel.ts`, `inbound.ts`, `mapping.ts`) | `channel_event`, `channel_identity` | handleDispatch | ingress, QQ platform | repeated and overlapping events, downloads, quotes | stored once, from the owner only, nothing lost |
| QQ client and media (`channels/qq/client.ts`, ...) | token | HTTP, signatures, splitting | – | – | data and I/O |
| Proactive messages (`core/proactive*.ts`, the proactive queue of the coordinator) | `proactive_attempts`, `moments`; queue and active delivery | evaluate, run, runCommitmentCandidate, enqueueProactive, cancelProactive | coordinator, jobs, life | runs that overlap, a user who speaks while one is composed, a crash between moment and message | an event is told once, and yields to the user |
| Commitments (`core/future`, `db/repos/commitment.repo.ts`) | `commitments`, `commitment_extraction_runs` | analyze and apply, time-driven transitions, admin routes | jobs | an analysis applied to rows that changed meanwhile; lease against retry and restart | chains stay whole, no receipt without an analysis, no reminder silenced |
| Video tasks (`core/video`) | `video_tasks`, first frames | create, step (submit, poll, download), cancel, delete, follow-up | jobs, vendor, coordinator | cancel against a step in flight, a crash between two writes of a step | every task goes on to one outcome, spoken once |
| Memory, Ombre memory (`core/ombre-memory.ts`, `core/memory.ts`) | `ombre_commits`, watermark of the dreams | commit, reconcile, dream, admin retry | jobs, tool runtime, MCP | lost answers, repeated calls, a crash inside the loop of calls | receipts tell the truth |
| MCP connections, tool runtime (`mcp`, `agent`) | connection, tool registry | connect, refresh, callTool, prepare | external servers | one reconnect shared by its callers, tools that leave the registry | every call ends |
| Life engine (`core/life2`) and location (`core/location`) | `life_state`, `life_plans`, trip, visits, places | tick, onActivityResolved, startTravel, settleTravelIfDue, override, city switch, plan routes | jobs, admin | trips settled by readers, interventions between ticks, a tick of a dozen transactions cut by a crash | only where she is a visit is open; a plan has one outcome; no trip lasts for ever |
| Storage, media, backup (`core/storage.ts`, `media`, `backup`) | media rows and files, cleanup report, exclusive lock | save, delete, trash, collect, cleanup, backup, restore | database handle | clean-up against use; restore under running work; stale previews | referenced files survive, rows have files |
| Voice tasks (`core/voice`) | `voice_generations` | create, step, cancel | vendors | – | no production caller |
| Visible thoughts (`core/thoughts`) | `thoughts` | present, onUserActivity, settle | coordinator, outbox | a thought that comes late | shown with its reply or not at all |
| Event bus, SSE (`events/bus.ts`) | `events` | publish, replay, prune | all | cursor against prune and fan-out | no event invisible |
| Stickers, relationship, context, configuration, providers, admin routes, web console | various | – | – | mostly heuristics, data and I/O | – |

`PROJECT.json` lists all of them with their files, and under `hazards` each place
where something can go wrong that a test would hardly reach.

## Modules

| Module | Role | Lines it stands for |
|---|---|---|
| `ReplyBatches` | the fenced UPDATE statements on a row of `reply_batches`, as pairs of a condition and a result | `db/repos/reply-batch.repo.ts` |
| `ReplyCoordinator` | admission, timers, drain loop, generation, barrier, publication, hand-over, leases, sweep, stop, crash, restart, user retry; EXTENDS `ReplyBatches` | `core/reply-coordinator.ts`, `core/message-ingress.ts`, `core/replier.ts` (barrier and publication), `app.ts` (recovery, hand-over) |
| `Conversation` | the abstract promise to the user: messages wait, are settled together, and never wait again | – (specification only; `ReplyCoordinator` implements it) |
| `JobQueue` | `jobs` table, lanes, claims, handler contract, retries, stop, crash, recovery, deletions | `core/jobs.ts`, `core/jobs/*.ts`, `core/job-priority.ts`, `db/repos/misc.repo.ts` |
| `QqDelivery` | the outbox: steps of a message, claims, thought, bubbles, media with fallback, retries, due scan, manual retry, recovery; the platform's side is external | `channels/qq/outbound.ts`, `channels/qq/bubbles.ts`, `db/repos/channel-delivery.repo.ts` |
| `QqInbound` | a dispatch from the platform to the stored message | `channels/qq/channel.ts`, `inbound.ts`, `mapping.ts`, `db/repos/channel-event.repo.ts` |
| `VideoTasks` | a task from its creation to its outcome: jobs, steps, vendor, first frame, cancel, deletion, follow-up | `core/video/*.ts`, `db/repos/video-task.repo.ts`, `core/jobs.ts` |
| `Storage` | media rows and files: save, removal, collection, cleanup with its report, the exclusive lock, backup and restore | `core/storage.ts`, `media/*.ts`, `backup/*.ts`, `db/repos/media.repo.ts` |
| `Initiative` | proactive runs with attempts and moments, and the proactive queue | `core/proactive*.ts`, `core/reply-coordinator.ts`, `db/repos/proactive.repo.ts`, `moment.repo.ts` |
| `Commitments` | plans of the user: analysis, receipts, transitions, rescheduling chains, admin | `core/future/*.ts`, `db/repos/commitment.repo.ts`, `core/jobs.ts` |
| `Location` | where she is, the trip, her visits, as the sequence of worlds an operation leaves behind | `core/location/*.ts`, `db/repos/location.repo.ts` |
| `Life` | `tick()` over `Location` (EXTENDS), plans, arrivals, repairs, the admin, a crash after any write | `core/life2/engine.ts`, `db/repos/life.repo.ts`, `routes/life-admin.ts`, `routes/features/life.routes.ts` |
| `OmbreMemory` | receipts of the external memory, the loop of tool calls, the connection, dreams | `core/ombre-memory.ts`, `db/repos/ombre.repo.ts`, `agent/tool-runtime.ts`, `mcp/manager.ts`, `mcp/connection.ts` |
| `MC*` | values of the constants for TLC | – |
| `ReplyCoordinatorProofs`, `JobQueueProofs`, `QqInboundProofs`, `QqDeliveryProofs`, `VideoTasksProofs`, `StorageProofs`, `ProactiveProofs` (of `Commitments` and `Initiative`), `LifeAndMemoryProofs` (of `Life` with `Location`, and `OmbreMemory`) | theorems and their proofs | – |

`ReplyCoordinator` is composed of `ReplyBatches`, `Life` of `Location`; the others are
checked alone.  They meet where one enqueues what another takes: `HandOver` of
`ReplyCoordinator` enqueues the jobs of a turn (`Enqueue` of `JobQueue`; `qq.deliver`
for `HandOver` of `QqDelivery`, `future.analyze` for `Commitments`,
`ombre.memory_commit` for `HandOver` of `OmbreMemory`), `Accept` of `QqInbound` leads
to `Accept` of `ReplyCoordinator`, and the `batch` of `Initiative` is the open batch
of `ReplyCoordinator`.  `VideoTasks`, `Commitments` and `OmbreMemory` take of
`JobQueue` what `JobQueueProofs` establishes: one handler for a claimed job, claimed
again after a death, given up after its attempts.

`Commitments` and `OmbreMemory` name their specification, initial states and steps after
themselves (`CommitmentsSpec`, `MemorySpec`), because a module of proofs extends each of them
together with another one that has `Spec`.

Definitions whose name ends in an underscore and a word (`CanInterrupt_NeedsLease`,
`Timeout_Detaches`) are not part of the models: each is a plausible mistake in the
code, and putting it in the place of the definition it is named after must break a
property.  `PROJECT.json` says which (`mutants`); every property has one.

## How the models correspond to the code

**Atomicity.**  Node runs one piece of code until it awaits, and better-sqlite3 is
synchronous.  An action is therefore a stretch of code between two awaits, with
everything it writes.  Where a crash between two durable writes of such a stretch
can be told apart afterwards, the stretch is cut there, and the phases of the cut are
not served by timers or requests (`AtRest` in `ReplyCoordinator`, `ThreadIsFree` in
`QqInbound`).

**`ReplyCoordinator`.**  `row` is `reply_batches`, `members`
`reply_batch_messages`, `shell` the assistant messages of a batch with the messages
the model call had seen, `outbox` the batches for which `onCompleted()` enqueued
`qq.deliver`; these survive a crash.  `gen` is the generation the drain loop awaits,
with the revision and messages `startGeneration()` read; `ready` and `timer` are
`readyQueue` and the timers of `schedule()`; `epoch` numbers the incarnations of the
process and stands for `lease_owner`.  `Accept` is the ingress transaction and the
coordinator's `onMessageAccepted()` in one turn of the event loop, with its three
outcomes; `OpenBarrier`/`LoseBarrier` are `beginPublishing()`; `CreateShell`,
`FinishContent`, `CompleteReply`, `HandOver` are the durable writes of a
publication; `TimeOut`, `RetryAfterBackoff`, `RetryFenced`, `AbandonBackoff`,
`FailHidden`, `BenignAbort` are the branches of `handleGenerationFailure()`;
`Recover` is `recoverOpen()` followed by `schedule()` of what it returns, called at
`Restart` and by `Sweep`.  A lease is a Boolean: it lies in the future or not.  A
lease of a running generation only lapses when the process stood still (`Stall`).
The timestamps of `due_at` are nondeterministic.

**`JobQueue`.**  `job` is the table; a row deleted is `gone`.  `active`, `late` and
`aborted` are the worker's own view; `runs` counts handler invocations whether the
worker knows of them or not, so that a detached handler would show.  `Timeout` is the timer of
`executeWithContract()`, which signals and never settles the await; what happens
then is `HandlerReturns` and `HandlerThrows`.  `run_after` is the Boolean `delayed`.
The rows of one transaction share `born`; only the priority orders them.

**`QqDelivery`.**  `row` is `channel_delivery` with the keys of `progress_json` in
`done`; `slot` are the two slots of the critical lane and the await each stands at.
`GoOn` is the loop of `deliver()`: with the durable row given, the next step that is
not recorded, or `markSent()`.  `Bubbles`, `RoomForBubbles`, `Seq` and `Key` are the
arithmetic that maps a text to bubbles, step keys and `msg_seq`.  The platform
(`PlatformAccepts`, `shown`, `doubled`, `used`) is external: it shows a message when
it accepts it and refuses a `msg_seq` it has seen for the `msg_id`, as
`outbound.ts` expects.  Whether its answer arrives is another step.  The upload and
the sending of a media part are one request here.

**`QqInbound`.**  `event` is `channel_event`, `latest` the row a quoted QQ message
resolves to, `stored` the sequence of stored user messages by `client_msg_id`.
A dispatch awaits while it downloads attachments and while it registers received
files; all else holds the thread.

**`VideoTasks`.**  `task` is `video_tasks`, `jobs` counts the pending `video.generate`
jobs of a task, `step` is the one step under way in its lane, at the await it stands
at.  `Calls(t)` are the answers of the vendor, refusals, timeouts and deadlines
included, each with everything the step writes before its next await; a step reads
its row once, and writes after the await what it decided, whatever became of the row.
A submission the process dies over may or may not have reached the vendor.  `billed` and `spoken` count what the vendor was asked for and what was said.

**`Storage`.**  A medium has a row and a file; `save` and `removal` are between the
two.  `cleanup` works through the report of an earlier preview, `job` through the
list `collectOrphans()` has read; both look at the database again before each item,
as the code does.  `late` are references taken of a row somebody had decided to
delete before: the code does not protect them.  Backup and restore exchange the
database under a lock that the other writers respect only where the code asks them to.
A restore may be refused, fail before the copy, or die with the process while the database is
closed, which leaves the old one or the copy.

**`Initiative`.**  A run is known by its row in `proactive_attempts`.  `queue`,
`active` and `aborted` are the fields of the coordinator; `phase` says whether a run
waits, composes or words a commitment.  `Share`, `ShareUnsaid` and `ShareHalfDone`
are the two transactions of a delivery and what fails between them.  `heard` is a
history variable: the attempts older than the latest message of the user.

**`Commitments`.**  Titles are topics, dates are near enough to match or not.  A row has a
start, a date by which it is due, both or neither (`starts`, `due`: none, ahead, past or past its
grace), whether they are in order, whether it reminds and whether there is a latest moment
to do so; what the model may mention comes from `Mentions`.  `view` are the rows an analysis
has read before its call of the model; `Apply` judges what the model says of them
(one mention or one row it speaks of in an answer) against the rows of now, and what was written
before a throw stays.  `StartComes` and `DueComes` are the clock; `Tick` is the whole of
`applyTimeDrivenTransitions()`.

**`Location` and `Life`.**  An operation is a sequence of worlds, one for each write;
an action commits the last of them, and `Crash` any prefix.  `Read` is a reader that
settles a trip between two ticks.  Scores and random choices are `\E` over what the
code admits.  `Normalized` looks at where she is after she was moved home, where the code
looks at the place the trip began (`core/location/service.ts:366`); trips begin where she is.

**`OmbreMemory`.**  `receipt` is `ombre_commits.state`, `named` whether its detail
still names the messages, `work` the commit under way in the one slot of its lane.
`CallMade`, `CallAnswered`, `CallFails` and `CallBreaks` are one tool call with its
single reconnect; `answered` are the messages of which some call was answered, whatever
was called and whatever the answer says, because that is all the code looks at: a read counts, and
so does an answer marked as an error when the tool that dreams gives it (`EndDream`).  No tool of
the bridge has the name under which the reconciliation looks for one, so a receipt left
unproven is only ever called `uncertain` (`Unproven`).  `news` stands for the clock of
`completed_at`.

## Runs and what they show

The passing runs finish with no error.  A model has bounds on what users may do, and
a bounded model stops when they are used up: hence `CHECK_DEADLOCK FALSE`.  What
must not get stuck is stated as liveness instead.

| Run | Question | Bounds | States |
|---|---|---|---|
| `reply_safety` | does any fault of the code but the user retry cost or double a reply, mix batches, hand over what is unfinished, reopen a settled batch? | 3 messages, 3 batches, 1 crash, 1 stall, 1 timeout retry, symmetry of messages | 184,762 |
| `reply_settles` | does every message settle, and does the coordinator implement `Conversation`? | 2 messages, 2 batches, 1 crash, 1 stall | 18,362 |
| `reply_retry` | with user retries: is what is published handed over when nothing crashes or sweeps? | 3 messages, 3 batches, 2 user retries, 1 stall | 349,612 |
| `jobs` | overlap, lost claims, attempts, order of a turn's jobs, settled jobs, and does every job of a registered type end beside handlers that wait for ever? | 3 rows of 5 types in 4 lanes, 1 crash or stop | 51,798 |
| `qq` | doubled, reordered or missing fragments; budget of the `msg_id`; one executor; does every delivery end? | a reply and a proactive message, 2 waiting jobs for each, 4 messages for a `msg_id`, 2 attempts, 1 manual retry, 1 crash | 343,550 |
| `inbound` | one owner, stored once, nothing processed that is not stored, no event handled twice | 7 events of 3 users, one message under two ids, failing downloads, 1 clearing, 1 crash | 142,800 |
| `video` | does a task go on, to one outcome, spoken once, and is the vendor asked no more than retries and crashes allow? | 2 tasks (one in the chat, one with a saved first frame), 1 active at a time, 2 failures of a step, 1 crash | 717,242 |
| `storage` | do rows keep their files and references their rows, and does cleaning up end and come through? | 1 medium, 3 operations of the admin, 1 crash | 129,889 |
| `initiative` | is an event told once and with its moment, do queue and runs agree, does a share yield? | 2 events, 1 commitment, 3 attempts of which 1 is remembered, 1 crash | 317,876 |
| `commitments` | do chains stay whole, does a receipt mean an analysis, is no reminder silenced, does every plan with a due date end? | 2 messages, 1 topic, 1 row from what was said and 2 more from rescheduling, 2 tries, 1 crash | 374,511 |
| `life` | visits, plans, activities and trips, beside interventions | 2 places, 2 activities, 2 plans, 1 intervention or crash | 33,936 |
| `ombre` | do receipts and the watermark of the dreams say what the code knows, and does every commit end? | 2 batches, 2 tries, 2 calls, 1 retry by the admin, 1 clearing, 1 crash | 297,166 |

Why the bounds are enough.  *Reply*: three batches give an older terminal one, one
past its barrier and a newer one that collects, which is all that `IsOpenBatch()`
and the ready queue distinguish; three messages can be appended, interrupt and open
the next batch in one run; one crash at each point between two writes, one stall
against one sweep, and one automatic retry with its backoff exercise every branch.
A second crash finds the rows the first one could have left.  `reply_safety` leaves
out the user retry, a transition out of `failed` by intention (it would break
`PublishedIsFinal`); `reply_retry` adds it.
*Jobs*: three rows fill the lane of the two background jobs and leave one elsewhere;
`MaxAttempts` is 2 (3 in the program), a retry and a last attempt.  Each lane has a
registered type, as in production; the fifth type is a retired one, which no lane claims.
*QQ*: `MaxPassiveSends` is 4 (5 in the program), with texts short enough that a
thought and a picture leave too little room for the lines and splitting by paragraph
takes over, which five messages and a longer text would do as well.  With two waiting jobs
for a message both slots may hold a job of the same row, or one waits beside the other.
*Inbound*: the seven events cover each pair of interactions the code distinguishes
(same message twice, quote, other user, file, nothing to store).
*Video*: two tasks compete for one active place, and a task may have more jobs than
one; two failures are one that is retried and one that gives up.
*Storage*: files of different media do not touch each other, and every hazard is
between the writers of one medium; three operations are a preview, a cleanup of its
stale report and a backup or restore between them, or a backup, its restore and a cleanup.
*Initiative*: two events and a commitment let two runs wait behind a third; the
window of one attempt (50 in the program) lets an attempt slide out of sight.
*Commitments*: two messages about one topic can create, reschedule and meet the row
of the other while the model thinks.  Three rows are a chain with a middle that can be
deleted, and let the analyzer and the admin both try to give one row a successor: no bound but
the code (`CanSupersede`) stops the second.  Only one of the rows comes from what was said
(`MaxNoted`), so the run has one chain; `ChainsStayWhole` is proved for any number.
*Life*: two places that each fit one activity make every activity a trip; one
intervention or crash falls between any two writes, and the rest of the run shows
what becomes of it.
*Ombre*: one batch may be retried by the admin, the other not; two rounds are a call
that fails and one that succeeds, either way round.

Where a limit is exceeded by a death of the process, the property says by how much:
`AttemptsHonoured` (in `ClaimsAreKept`), `TypeOK` of `QqDelivery`, `BilledBounded`,
`RunOnce` of `OmbreMemory`.  No limit is looked at when a row is claimed again.

## Fairness

Weak fairness of each of these is all that liveness needs, and nothing is assumed of
users, admins, providers or crashes:

- **Reply**: armed timers fire and the drain loop runs (event loop); a generation takes a step,
  because the model call has `requestTimeoutMs` and every provider call a timeout;
  the lease of a dead process runs out (it is a point in time); the 30 minute
  maintenance interval comes round (`Sweep`); a stopped process exits, because
  `stop()` bounds its waiting; it is started again (`restart: unless-stopped`, or
  systemd's `Restart=on-failure`; after a deliberate stop, by the operator).
  The heartbeat is not fair: a generation that never renews its lease must still settle.
- **Jobs**: `pump()` runs every 800 ms and visits each lane; due rows become due;
  timers fire; a handler ends unless its type is `Hanging`, whose handlers may wait
  for ever; exit and restart as above.
  The fairness of `HandlerEnds` does not choose between return and failure.
- **QQ**: a waiting job is taken by one of the slots, each await of a delivery has
  a timeout, the due scan and the restart come.

- **Video**: a job is taken (strongly: the lane hands out its jobs in their order, so a
  waiting one comes up although it competes), calls of the vendor have a timeout, a
  task grows old, restart as above.
- **Storage**: disk and database answer, the maintenance job recurs, a holder of the
  lock goes on, restart.
- **Commitments**: time goes on and the maintenance job recurs; nothing is assumed of the
  analyzer.
- **Life**: the tick recurs, trips come due and activities run out.
- **Ombre**: the lane is served, calls of the model and of a tool and the attempt to
  connect have timeouts, restart.

## Proofs

Eight modules hold theorems; all are checked by TLAPS to the last leaf, for every value
of the constants that satisfies the assumptions the modules name
(`ConstantsAssumption`, `JobConstants`, `InboundConstants`, `DeliveryConstants`,
`VideoConstants`, `StorageConstants`, `CommitmentConstants`, `InitiativeConstants`,
`LocationConstants`, `LifeConstants`, `OmbreConstants`: limits are natural numbers, sets of
exceptions are subsets of what they are exceptions of, a name that stands for nothing is no
place, plan or activity; and
`TurnJobs`: the two jobs of a turn share a lane and the extraction has more priority, as
`core/job-priority.ts` and `core/jobs/lanes.ts` have it).  TLC evaluates them in each run.
Every safety property that a run checks is a theorem
(`AdmissionOrder` and `PublishedIsFinal` as long as no user retries, which is what the run
checks, too).

**`ReplyCoordinatorProofs`**, of `ReplyCoordinator!Spec` with user retries, errors and
sweeps all possible: `PublishingInvariantHolds`, and from it `TypesHold`,
`OneReplyPerBatch`, `ReplyAnswersItsBatch`.  `AtMostOneReply /\ AnswersWholeBatch` is
not inductive: nothing in it stops a second `CreateShell`.  The strengthening
`PublishingInvariant` says why there is none.  The barrier of a row is opened once and
never closed, and every shell stands behind it (`ShellsBehindBarrier`); a generation
whose revision is still that of its row knows all members of the batch
(`GenerationKnowsBatch`), because each statement that admits a message raises the
revision; between barrier and shell nothing else runs (`OpeningIsFresh`).
`BackoffHasRetries` and `DownCanRestart` carry the bounds of `TypeOK`.  The proof has
lemmas on what each UPDATE statement does to the fields of a row, one on steps that
keep what the invariant looks at (`RowsKept`, `GenCarried`), and one per action.

A user retry reopens a failed batch by intention, so what remains is said of the time
before one: `SettlingInvariantHolds`, of `SettlingInvariant`, with
`AdmissionIsOrdered` (`userRetries = 0` implies `AdmissionOrder`) and, when no user
retries at all (`MaxUserRetries = 0`), `PublishedStaysFinal` and the step simulation
`CoordinatorConverses`: `Spec` implements the safety part of `Conversation` for any
messages, batches, errors, sweeps and crashes.  The invariant relates the status of a row to
its barrier and its lease (`RowIsSound`), keeps the messages of two batches apart, and
says on which side of the barrier each phase of a generation stands.  For the simulation
each action is of one of three kinds (`Outcome`): it leaves every row as settled as it
was, settles the one batch that waits, or admits a message.

**`JobQueueProofs`**, of `JobQueue!Spec`: `WorkerInvariantHolds`, and from it
`TypeCorrect`, `NeverOverlaps`, `NoClaimLost`, `AttemptsAreHonoured`, their conjunction
`ClaimsStayKept`, and the action property `SettledForGood`.  `NoOverlap` speaks of
handler invocations, `Claim` looks at slots and rows only; `WorkerInvariant` ties them
together: an invocation for exactly each occupied slot, a slot only over a running or
deleted row (`HandlersHoldRows`), lanes within their limits (`LanesHaveRoom`).  For the
attempts it needs that a row waits only with an attempt left, or granted by a death of
the process (`PendingHasAttempt`); for new rows, that ids are given out without gaps
(`RowsComeInOrder`).  Statements on one row are lemmas on rows; `SlotReturned`,
`OneRow` and `SlotsKept` carry them over to the state.  `AnalyzerWaitsForExtraction` proves
`ExtractionGoesFirst` from `TurnJobs`: an extraction that was never tried is never put off
(`TurnInvariant`), so that `claimNext()` sees it, and takes it before the analyzer of its
own or a later turn.

**`QqInboundProofs`**: `OneUserOwnsIt`, `StoredExactlyOnceHolds`, `EventsAreHandledOnce`.
The invariant says of each dispatch under way that its author is the owner (`Owned`)
and, past `accept()`, that its message is in the conversation or was cleared from it
(`Consumed`): a second dispatch of the same message may be the one that stored it.

**`QqDeliveryProofs`**: `OneExecutorHasIt`, `NothingIsReadTwice`, `ReadInOrder`,
`BudgetIsKept`, from `DeliveryInvariantHolds`.  What the properties say of the fragments
the user has seen cannot be kept without what the row says of them, and that depends on
how the text is split, which depends on whether there is a thought.  The thought is
decided before the first bubble and recorded before it; from then on the split of a row
does not change (`Split`).  `RowIsTrue` says so: nothing but the thought is shown before it is
decided; a completed step was shown; bubbles are shown in their order; each fragment
of a passive reply has spent the `msg_seq` that is its own, so that a repetition is refused
by the platform.  `AtStep` says where a slot stands in it, `SlotsAreApart` that a row in
`sending` has exactly one slot.  The proof takes a row through each thing an attempt does
with it and frames the rest, one slot at a time.  `MAX_PASSIVE_SENDS` bounds what is sent
for a `msg_id`, except that the code has no limit on media parts: with more of them than that
the bound is one bubble and all of them (`LeastSends`).

**`VideoTasksProofs`**: `ChainNeverBreaks`, `OutcomeIsSpokenOnce`, `OutcomesAreFinal`.  A step
changes one task, so the invariant is a predicate on one row, its jobs, what was said
and the phase of its step: somebody will move it on (`Moves`), nothing was said of a
task that may still settle (`Quiet`), the word under way is the outcome in the row
(`Meant`), and what was said is true (`True`).  A lemma for each action judges the one
task; `Same` carries the others.  `BillsAreBounded` needs an invariant of its own: as long
as the id the vendor gave is not in the row, each generation billed is one of the
failures counted by `handleStepError()` or of the deaths of the process
(`BillingInvariant`); once it is, no step submits again.

**`StorageProofs`**: `FilesStayThere` and `NothingReferencedIsLost`, from
`StorageInvariantHolds`.  A cleanup works through a report that may be hours old, and the
invariant says what of it is still true: the id of a file taken for an orphan is used up
and has no row in the database that holds the report, be it the current one or a backup
(`OrphansAreGone`; by `IdsAreFresh` an id has its file before its row and is given to no
other medium, not even after a restore).  A save cannot have written such a file, because
none is under way while a report is made (`LockIsHeld`).  What somebody decided to delete had no counted reference then and has
no other now than late ones (`DoomedAreUnreferenced`).

**`ProactiveProofs`**, of `Commitments`: `ChainsStayWhole`, `ReceiptsAreTrue`, `NothingIsSilenced`.  Rows and
jobs are invariant each for itself.  For the rows, one lemma for each way a table of
rows is written (a row changed in place, appended, linked to its predecessor, deleted
with its neighbours relinked).  For the jobs: a waiting one has an attempt left or died
with the process, and one that waits beside a fresh lease was interrupted (`GoodJob`).

**`ProactiveProofs`**, of `Initiative`: `TellsLifeOnce`, `QueueStaysSound`, `UserComesFirst`.  What was said and
recorded is invariant whatever the queue does (`StoryInvariant`).  The queue needs that
nobody stands in it twice (`Distinct`), that phases and places agree (`Placed`, `Alone`),
and that all that may still be said was decided after the user spoke (`Yielding`); it
looks only at the subject of an attempt, which never changes (`SameSubjects`).

**`LifeAndMemoryProofs`**, of `Life` with `Location`: `LifeInvariantHolds`, and from it
`VisitsStayClosed`, `PlansStayKept` and the action property `BeginsWhereItFits`.  A tick is a
dozen transactions and a crash leaves the world between any two of them, so an invariant of
states is not enough: it is said of worlds, and an operation is proved to be a sequence of
them.  Three strengths are kept apart.  *Every* world a write leaves, hence every world
a crash may leave, is sound (`SoundWorlds`): a visit is open only where she is (`Closed`);
a plan is told once, is active while something carries it and is carried by nothing once
it was told (`PlanIsTrue`); a trip and the row behind it lead to the same place, which
is there (`TripIsTrue`).  At the *end* of an operation every active plan is carried, and
one that waits behind a trip that is over waits where she is (`Kept`).  And unless a crash
has *torn* them apart, a trip under way has the row "on the way" before it, and leads to
where its activity fits (`Whole`).  `OneOutcome` needs the first, `StartedIsCarried` the
second, `BegunWhereItFits` the third.  The lemmas go from the writes (what `startTravel()`,
an arrival, a departure or a new row does to a sound world) over their sequences (`Ends`: how a
tick may end, by each of its branches; `CutShort`: every prefix) to one lemma for each
action.  `Begun` carries through the sequences what began, so that no write after
an arrival moves her before the plan has begun.

**`LifeAndMemoryProofs`**, of `OmbreMemory`: `MemoryInvariantHolds` and `RecordsStayTrue`.  That
the tools of a batch run no more often than was granted (`RunOnce`) is not inductive,
because a receipt that lets them run is a run to come.  `RunsAreGranted` counts those in: the runs
there were, the one a receipt still lets begin (`Left`: there is none yet, or a death left it
`running` under no lane), those the admin has asked for and the lane has not begun.
Each action moves one from one term to another, and only a retry or a death adds to what is
granted.  `WorkIsTrue` relates the lane to queue, receipt and answers, so that a receipt
says "completed" only after a call was answered; `OutcomeIsTold` speaks of every batch
the lane is not at; `DreamIsTrue` says that the mark a dream will set was read before its
call of the tool.  What `RecordsStayTrue` does not say: that a completed receipt means a write,
or that what lies below the watermark was digested; the code knows neither.

Only model-checked: all liveness (`EveryMessageSettles`, `PublishedIsHandedOver`,
`EveryJobSettles`, `EveryDeliveryEnds`, `EveryTaskSettles`, `CleanupComesThrough`, `EveryPlanEnds`,
`RoadEnds`, `EveryCommitEnds`), which is out of the prover's reach under fairness; and the
fairness of `Conversation`, hence `ImplementsConversation` beyond its safety part.

## Disagreements between code and documentation

No run is kept for these; each was seen while modelling, most as a counterexample to
a stronger property than the one the runs check.

Replies and delivery:

- `recoverOpen()` completes every row in `publishing` with an open barrier, whatever its
  lease (`db/repos/reply-batch.repo.ts:331`).  The maintenance timer calls it while a
  generation of the same process is still publishing; that generation's `complete()`
  loses its fence and `onCompleted()` is never called: the reply is stored and never
  delivered to QQ.  `PublishedIsHandedOver` also fails after a crash behind the barrier,
  after an error behind it (`PublishErrors = TRUE`), and when an answer arrives with no
  await after its deadline and opens the barrier a second time (`SyncAnswer = TRUE`).
- At boot a row in `generating` is requeued only when the lease of the dead process has
  expired; it has up to 120 s left, so after a quick restart the message waits for the
  next 30 minute sweep (`reply-batch.repo.ts:326`).
- A crash between `beginPublishing()` and `createShell()` leaves a batch that recovery
  completes as partial with no assistant message.
- `retryBatch()` of a partial batch queues a row whose barrier is open: the generation
  can never open it again, and meanwhile admission finds an open batch it can neither
  append to nor leave.  No production code calls it.
- When the platform's answer to a bubble is lost, the retry repeats the `msg_seq`, is
  refused as a duplicate, and the refusal counts as permanent: the rest of the reply is
  never sent (`channels/qq/outbound.ts:281`).
- A delivery asked for before an owner is bound is skipped and never asked for again
  (`outbound.ts:87`).
- A message that quotes one deleted by an admin is refused and acknowledged, hence
  lost (`channels/qq/inbound.ts:79`).  A crash between `markReceived()` and `accept()` loses
  the message (`channel.ts:115`), one between `accept()` and `markProcessed()` its `msg_id`
  (`channel.ts:186`).  A message that is only a picture whose download fails is consumed
  without a trace in the conversation (`channel.ts:156`).

Jobs:

- `future.analyze` "runs strictly after memory extraction" (`core/job-priority.ts:33`)
  holds for the first claim only: while a failed extraction waits for its retry, the
  analyzer runs (`ExtractionGoesFirst` says no more than what is left, and that much is
  proved).
- "Unregistered rows ... are still surfaced and failed" (`core/jobs.ts:162`) would be true if
  some lane had no registered type.  With a type in every lane, as in production, no
  lane excludes the known types and a row of a retired type stays pending for ever;
  `EveryJobSettles` speaks of registered types only.

Proactive messages:

- Two overlapping runs mention one commitment twice: `runCommitmentCandidate()` publishes
  first and marks the attempt afterwards (`core/proactive.ts:507`), while
  `db/migrations.ts:910` says that a second sender "rolls the duplicate message back".
- The commitment path passes no abort signal and looks at no gate again; gates are not
  looked at again for deliveries that waited; `retryBatch()` opens a batch without
  `cancelProactive()`; a crash after the moment leaves it unsaid; a job that cannot be
  enqueued after the message is published leaves a `failed` attempt; a sent attempt
  slides out of `attempts.list(50)`, after which its commitment may be mentioned again.

Commitments:

- A reminder the admin reschedules gets no `latestReachOutAt`, so that it is archived in
  silence; rescheduling also moves completed and cancelled rows to `superseded`.
- A row without dates that the admin reschedules with `startsAt` only keeps `due_at` NULL
  (`routes/future-admin.ts:69`): it becomes due by its start (`db/repos/commitment.repo.ts:404`),
  and is never ended, since that asks for `due_at` (`commitment.repo.ts:435`); `core/future/service.ts:85`
  gives new rows a date lest there be an "immortal scheduled row".  `EveryPlanEnds` speaks of rows
  with a `due_at`.
- A process that dies during an analysis leaves its lease, and a retry within 15
  minutes finds it taken and ends well without a receipt (hence `interrupted` in
  `DoneMeansAnalyzed`); a throw while the answer is applied runs the analyzer again over rows
  already written.

Video:

- A cancellation is overtaken by a poll in flight (against `docs/API.md:69`); a task whose
  picture was deleted from the library is submitted without its first frame; a
  creation that times out at the vendor is repeated, and billed twice; a crash inside
  `create()` leaves a task without a job for ever (`unplanned`), one between outcome and
  follow-up a clip nobody is told of; `referencedMediaIds()` has no caller, and
  `collectOrphans()` looks at neither tasks nor file drafts.

Life:

- A crash between a plan made active and the row of "now" leaves the plan active for
  ever, and the trip then takes up the activity of before; an override, a city switch or
  a deleted destination on the way leaves the plan active (`dropped` and `touched` in the
  properties).  A PATCH without `planned_start` erases it (`routes/features/life.routes.ts:95`);
  finishing overwrites a cancellation by the admin; where the selector finds no place an
  activity begins where it does not fit; `normalizeLegacyData()` leaves the visit of a
  deleted place open when she is moved home.

Ombre memory:

- A reconnect repeats a call whose answer was lost, so that one write may be taken twice
  (`mcp/manager.ts:88`).  A commit made while the tools are out of the registry is marked
  `skipped` and can never be retried.  A read alone makes a receipt `completed` although
  nothing was written (against `core/ombre-memory.ts:151`).  The tool that dreams may answer with an
  error, which `callLifecycleTool()` hands back as text (`ombre-memory.ts:207`), and the
  watermark advances although nothing was digested (`core/jobs.ts:526`).  The reconciliation asks
  the registry for `ombre.breath_search` (`ombre-memory.ts:218`), which the bridge has
  registered as `ombre.breath.search` (`mcp/tool-bridge.ts:51`): it never finds it, and no lost
  call is ever found to have been taken.  When every call failed the
  receipt forgets its messages (`ombre-memory.ts:161`), and the retry of the admin is refused.
  A receipt left `running` by a death lets the tools run again without a look at the
  server; one whose chat was cleared stays `running` for ever.

## What is not modelled

Within the modelled parts:

- Reply: `acceptAndReply()` and its waiters; the non-interruptible legacy path; the
  cascade of an admin's chat clearing on batches; the statuses `superseded` and
  `cancelled`, whose statements have no caller.  Revision and status fences overlap while
  one process owns the database: some single fences can be dropped without effect.
- Jobs: `drain()` (no caller in production), priority overrides, and what the handlers
  of types without a module do.
- QQ: the limit of 20 rows of the due scan, `testSendToOwner()`, the two requests of
  a media upload, signatures and tokens, media jobs of inbound messages.
- Proactive: scores, weights, wording, pictures; the gates of other components (silent
  hours, sleep, daily cap) are inputs that may block any run.
- Commitments: parsing of dates and the matching of titles; answers of the model with several
  mentions or resolutions; `confirm()` has no caller.
- Storage: the choice of categories by the admin (always all), thumbnails and temporary
  files, old backups, trash retention (a row may always be old enough); a restore whose
  copy leaves half a database behind; the other awaits of the maintenance job, which may end it
  before the sweep (`core/jobs.ts:546`).
- Life: plans the admin creates as active or completed
  (`routes/features/life.routes.ts:54`); vitals, scores, themes, incidents, threads, the legacy engine; edges of the map
  and their minutes; weather.
- Ombre: reads for a reply, the legacy backend with embeddings; several calls in
  parallel (a round of several calls is several rounds); transport and sessions.

Components without a module are of four kinds: voice tasks, whose service has no
production caller (only a test helper registers its routes); visible thoughts and the
event bus, which are left of the plan; heuristics over text and scores (relationship,
context, stickers), where a model has nothing to decide; and I/O, configuration,
migrations, routes and user interface.  Most of the lines of the server are of the
last two kinds: the modules follow its control, and most of the code shapes prompts,
pictures, SQL schemas and answers of HTTP routes.

## Plan

Done: the inventory; the modules above with their runs; the proofs of `ReplyCoordinator`,
`JobQueue`, `QqInbound`, `QqDelivery`, `VideoTasks`, `Storage`, `Commitments`, `Initiative`,
`Life` with `Location`, and `OmbreMemory`.

Next, in this order:

1. Composition of `ReplyCoordinator`, `JobQueue` and `QqDelivery`: a message that was
   accepted is shown or reported as failed, with the job queue between hand-over and
   delivery; the abstract specification is `Conversation` with a `shown` part.
2. Visible thoughts between coordinator and outbox; the event bus with its cursor
   against pruning.
