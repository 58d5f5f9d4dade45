----------------------------- MODULE OmbreMemory -----------------------------
(***************************************************************************)
(* Long-term memory in an external server: OmbreMemoryBridge with its      *)
(* receipts ombre_commits, the job ombre.memory_commit, the loop of tool    *)
(* calls it runs, the connection to the server (McpManager, McpConnection)  *)
(* and the dreams that digest what was committed.                          *)
(*                                                                         *)
(* After a reply the model is asked what to remember, and calls tools of   *)
(* the server.  A call may be taken and its answer lost, the connection    *)
(* may be replaced under it by another caller, and the process may die.    *)
(* The receipt decides whether the tools are run again.                    *)
(*                                                                         *)
(* The lane of the job has one slot.  A round of the loop makes one call   *)
(* here; several calls of a round are as many rounds.                      *)
(***************************************************************************)
EXTENDS Naturals

CONSTANTS
  Batches,    \* answered batches whose exchange may be remembered
  MaxTries,   \* maxAttempts of the job
  MaxRounds,  \* TOOL_MAX_ROUNDS
  MaxRetries, \* bound: retries by the admin, of each receipt
  MaxEpoch    \* bound: incarnations of the process (crashes + 1)

ASSUME OmbreConstants ==
  /\ MaxTries \in Nat \ {0} /\ MaxRounds \in Nat \ {0}
  /\ MaxRetries \in [Batches -> Nat] /\ MaxEpoch \in Nat \ {0}

VARIABLES
  job, tries, \* durable: the job of each batch, and its attempts
  again,      \* durable: jobs waiting that the admin asked for
  current,    \* durable: the batches that exist, in the revision of their job
  receipt,    \* durable: ombre_commits.state
  named,      \* durable: receipts whose detail names the messages
  work,       \* the commit under way
  conn,       \* the connection to the server
  tools,      \* whether its tools are in the registry
  answered,   \* history: batches one of whose calls was answered without an error
  runs,       \* history: how often the tools were run for a batch
  retries,    \* history: retries by the admin
  news,       \* completions so far, as the clock of completed_at
  watermark,  \* durable: ombre.lastDreamCommitAt
  dream,      \* the job ombre.dream
  atCall,     \* history: completions when the last dream call answered was made
  mode, epoch

receipts == <<receipt, named, answered, runs>>
queue == <<job, tries, again, current, retries>>
connection == <<conn, tools>>
dreams == <<watermark, dream, atCall>>
process == <<mode, epoch>>

memoryVars == <<queue, receipts, work, connection, news, dreams, process>>

States == {"none", "running", "completed", "uncertain", "skipped"}
Outcomes == {"completed", "skipped", "uncertain"}
Phases == {"claimed", "thinking", "calling", "reconnecting", "done", "thrown"}

Idle == [phase |-> "idle"]
Claim(b, manual) ==
  [phase |-> "claimed", batch |-> b, manual |-> manual, round |-> 0, ok |-> FALSE,
   second |-> FALSE]

Awake == [phase |-> "none", at |-> 0, seen |-> 0]

\* Between two statements of one turn of the event loop only a crash comes.
Holding == work.phase \in {"claimed", "done", "thrown"}
ThreadIsFree == mode = "up" /\ ~Holding

MemoryInit ==
  /\ job = [b \in Batches |-> "none"] /\ tries = [b \in Batches |-> 0]
  /\ again = [b \in Batches |-> 0] /\ current = {}
  /\ receipt = [b \in Batches |-> "none"] /\ named = {}
  /\ work = Idle
  /\ conn \in {"ready", "degraded"} /\ tools = (conn = "ready")
  /\ answered = {}
  /\ runs = [b \in Batches |-> 0] /\ retries = [b \in Batches |-> 0]
  /\ news = 0 /\ watermark = 0 /\ dream = Awake /\ atCall = 0
  /\ mode = "up" /\ epoch = 1

-------------------------------------------------------------------------------
(***************************************************************************)
(* What asks for a commit, and what takes a batch away.                    *)
(***************************************************************************)
\* onCompleted(): the reply is published and its jobs are enqueued.
HandOver(b) ==
  /\ ThreadIsFree /\ job[b] = "none"
  /\ job' = [job EXCEPT ![b] = "pending"] /\ current' = current \cup {b}
  /\ UNCHANGED <<tries, again, retries, receipts, work, connection, news, dreams, process>>

\* Only what the receipt still names can be retried.
AdminRetry(b) ==
  /\ ThreadIsFree /\ retries[b] < MaxRetries[b]
  /\ receipt[b] = "uncertain" /\ b \in current /\ b \in named
  /\ again' = [again EXCEPT ![b] = @ + 1]
  /\ retries' = [retries EXCEPT ![b] = @ + 1]
  /\ UNCHANGED <<job, tries, current, receipts, work, connection, news, dreams, process>>

\* The admin clears the chat: the batches go with their messages.  Bound: once,
\* when every batch exists.
Clear ==
  /\ ThreadIsFree /\ current = Batches
  /\ current' = {}
  /\ UNCHANGED <<job, tries, again, retries, receipts, work, connection, news, dreams, process>>

-------------------------------------------------------------------------------
(***************************************************************************)
(* The receipt.                                                            *)
(***************************************************************************)
\* start() and mark() replace the detail with what they are given.
Write(state, names) ==
  /\ receipt' = [receipt EXCEPT ![work.batch] = state]
  /\ named' = IF names THEN named \cup {work.batch} ELSE named \ {work.batch}

MarkSkipped == Write("skipped", FALSE) /\ UNCHANGED <<runs, news>>

\* completed_at is the time of the mark.
MarkCompleted == Write("completed", FALSE) /\ news' = news + 1 /\ UNCHANGED runs

\* Every call failed.  The detail forgets the messages.
MarkFailedCalls == Write("uncertain", FALSE) /\ UNCHANGED <<runs, news>>

\* The loop threw: the detail keeps the messages.
MarkThrown == Write("uncertain", TRUE) /\ UNCHANGED <<runs, news>>

To(phase) == work' = [work EXCEPT !.phase = phase]

-------------------------------------------------------------------------------
(***************************************************************************)
(* The handler of the job up to the first call.                            *)
(***************************************************************************)
Take(b) ==
  /\ mode = "up" /\ work = Idle /\ job[b] = "pending"
  /\ job' = [job EXCEPT ![b] = "running"] /\ tries' = [tries EXCEPT ![b] = @ + 1]
  /\ work' = Claim(b, FALSE)
  /\ UNCHANGED <<again, current, retries, receipts, connection, news, dreams, process>>

TakeManual(b) ==
  /\ mode = "up" /\ work = Idle /\ again[b] > 0
  /\ again' = [again EXCEPT ![b] = @ - 1]
  /\ work' = Claim(b, TRUE)
  /\ UNCHANGED <<job, tries, current, retries, receipts, connection, news, dreams, process>>

\* The batch is gone, or its receipt is final.
NothingToDo ==
  /\ mode = "up" /\ work.phase = "claimed"
  /\ work.batch \notin current \/ receipt[work.batch] \in {"completed", "skipped"}
  /\ To("done")
  /\ UNCHANGED <<queue, receipts, connection, news, dreams, process>>

\* The receipt is open and nothing proves it: reconcileUncertain() asks for the
\* tool ombre.breath_search, and the bridge has named it ombre.breath.search.
Unproven ==
  /\ mode = "up" /\ work.phase = "claimed"
  /\ work.batch \in current /\ receipt[work.batch] = "uncertain"

LeaveUncertain ==
  /\ work # Idle /\ Unproven /\ ~work.manual
  /\ To("done")
  /\ UNCHANGED <<queue, receipts, connection, news, dreams, process>>

\* The receipts that let a job run the tools.
MayStart_AnyJob ==
  /\ work # Idle
  /\ \/ /\ mode = "up" /\ work.phase = "claimed" /\ work.batch \in current
        /\ receipt[work.batch] \in {"none", "running"}
     \/ Unproven
MayStart ==
  /\ work # Idle
  /\ \/ /\ mode = "up" /\ work.phase = "claimed" /\ work.batch \in current
        /\ receipt[work.batch] \in {"none", "running"}
     \/ Unproven /\ work.manual

\* Nothing to say, a model without tools, or a server whose tools are gone.
SkipCommit ==
  /\ MayStart
  /\ MarkSkipped /\ To("done")
  /\ UNCHANGED <<queue, answered, connection, dreams, process>>

StartCommit ==
  /\ MayStart /\ tools
  /\ Write("running", TRUE)
  /\ runs' = [runs EXCEPT ![work.batch] = @ + 1]
  /\ To("thinking")
  /\ UNCHANGED <<queue, connection, answered, news, dreams, process>>

-------------------------------------------------------------------------------
(***************************************************************************)
(* The loop of model and tools.                                            *)
(***************************************************************************)
\* What commit() makes of the calls, and what the job makes of that.
Conclude(ok) ==
  /\ IF ok THEN MarkCompleted ELSE MarkFailedCalls
  /\ To("done")

ModelThrows ==
  /\ ThreadIsFree /\ work.phase = "thinking"
  /\ MarkThrown /\ To("thrown")
  /\ UNCHANGED <<queue, answered, connection, dreams, process>>

ModelIsDone ==
  /\ ThreadIsFree /\ work.phase = "thinking"
  /\ IF work.round = 0 THEN MarkSkipped /\ To("done") ELSE Conclude(work.ok)
  /\ UNCHANGED <<queue, answered, connection, dreams, process>>

\* A call that was executed in this round; the last round ends the loop.
CallOver(round, ok) ==
  IF round < MaxRounds
    THEN /\ work' = [work EXCEPT !.phase = "thinking", !.round = round,
                                 !.ok = ok, !.second = FALSE]
         /\ UNCHANGED <<receipt, named, news, runs>>
    ELSE Conclude(ok)

\* An unknown or forbidden tool, or arguments that do not fit.
CallRefused ==
  /\ ThreadIsFree /\ work.phase = "thinking"
  /\ CallOver(work.round + 1, work.ok)
  /\ UNCHANGED <<queue, answered, connection, dreams, process>>

\* Without a connection the call waits for a new one, and is then a retry.
CallMade ==
  /\ ThreadIsFree /\ work.phase = "thinking" /\ tools
  /\ \/ conn = "ready" /\ UNCHANGED conn
        /\ work' = [work EXCEPT !.phase = "calling", !.round = @ + 1]
     \/ conn # "ready" /\ conn' = "connecting"
        /\ work' = [work EXCEPT !.phase = "reconnecting", !.round = @ + 1]
  /\ UNCHANGED <<queue, receipts, tools, news, dreams, process>>

\* Any tool of the server will do, one that only reads as well as one that writes.
CallAnswered ==
  /\ ThreadIsFree /\ work.phase = "calling"
  /\ answered' = answered \cup {work.batch}
  /\ CallOver(work.round, TRUE)
  /\ UNCHANGED <<queue, connection, dreams, process>>

\* An error of the tool, a timeout, or a second broken connection.
CallFails ==
  /\ ThreadIsFree /\ work.phase \in {"calling", "reconnecting"}
  /\ CallOver(work.round, work.ok)
  /\ UNCHANGED <<queue, answered, connection, dreams, process>>

\* The first broken connection is replaced, and the call made again.
CallBreaks_ForEver ==
  /\ ThreadIsFree /\ work.phase = "calling"
  /\ conn' = "connecting"
  /\ To("reconnecting")
  /\ UNCHANGED <<queue, receipts, tools, news, dreams, process>>
CallBreaks ==
  /\ ThreadIsFree /\ work.phase = "calling" /\ ~work.second
  /\ conn' = "connecting"
  /\ To("reconnecting")
  /\ UNCHANGED <<queue, receipts, tools, news, dreams, process>>

JobEnds ==
  /\ mode = "up" /\ work.phase = "done"
  /\ job' = IF work.manual THEN job ELSE [job EXCEPT ![work.batch] = "done"]
  /\ work' = Idle
  /\ UNCHANGED <<tries, again, current, retries, receipts, connection, news, dreams, process>>

\* A job of the admin has one attempt.
JobThrows ==
  /\ mode = "up" /\ work.phase = "thrown"
  /\ job' = IF work.manual THEN job
            ELSE [job EXCEPT ![work.batch] =
                    IF tries[work.batch] < MaxTries THEN "pending" ELSE "failed"]
  /\ work' = Idle
  /\ UNCHANGED <<tries, again, current, retries, receipts, connection, news, dreams, process>>

-------------------------------------------------------------------------------
(***************************************************************************)
(* The connection.  Its callers share one attempt to connect.              *)
(***************************************************************************)
\* A reader's call breaks, or the tools are refreshed.
OthersReconnect ==
  /\ ThreadIsFree /\ conn # "connecting"
  /\ conn' = "connecting"
  /\ UNCHANGED <<queue, receipts, work, tools, news, dreams, process>>

Connected ==
  /\ ThreadIsFree /\ conn = "connecting"
  /\ conn' = "ready" /\ tools' = TRUE
  /\ work' = IF work.phase = "reconnecting"
               THEN [work EXCEPT !.phase = "calling", !.second = TRUE] ELSE work
  /\ UNCHANGED <<queue, receipts, news, dreams, process>>

\* The tools leave the registry; the call that waited fails.
ConnectFails ==
  /\ ThreadIsFree /\ conn = "connecting"
  /\ conn' = "degraded" /\ tools' = FALSE
  /\ IF work.phase = "reconnecting" THEN CallOver(work.round, work.ok)
     ELSE UNCHANGED <<work, receipt, named, news, runs>>
  /\ UNCHANGED <<queue, answered, dreams, process>>

-------------------------------------------------------------------------------
(***************************************************************************)
(* Dreams: a job of another lane.                                          *)
(***************************************************************************)
EnqueueDream ==
  /\ ThreadIsFree /\ dream.phase = "none"
  /\ news > watermark
  /\ dream' = [Awake EXCEPT !.phase = "pending", !.at = news]
  /\ UNCHANGED <<queue, receipts, work, connection, news, watermark, atCall, process>>

StartDream ==
  /\ ThreadIsFree /\ dream.phase = "pending" /\ tools
  /\ dream' = [dream EXCEPT !.phase = "dreaming", !.seen = news]
  /\ UNCHANGED <<queue, receipts, work, connection, news, watermark, atCall, process>>

\* No commit of the last day, or no tool: nothing was dreamt.
NoDream ==
  /\ ThreadIsFree /\ dream.phase = "pending"
  /\ dream' = Awake
  /\ UNCHANGED <<queue, receipts, work, connection, news, watermark, atCall, process>>

\* The tool has answered, be it with an error or with nothing: what is not null
\* moves the watermark to the commit the job was asked for.
EndDream_Latest ==
  /\ ThreadIsFree /\ dream.phase = "dreaming"
  /\ watermark' = news /\ atCall' = dream.seen
  /\ dream' = Awake
  /\ UNCHANGED <<queue, receipts, work, connection, news, process>>
EndDream ==
  /\ ThreadIsFree /\ dream.phase = "dreaming"
  /\ watermark' = dream.at /\ atCall' = dream.seen
  /\ dream' = Awake
  /\ UNCHANGED <<queue, receipts, work, connection, news, process>>

\* The call was not answered: retried, or given up after the last attempt.
DreamThrows ==
  /\ ThreadIsFree /\ dream.phase = "dreaming"
  /\ dream' \in {Awake, [dream EXCEPT !.phase = "pending"]}
  /\ UNCHANGED <<queue, receipts, work, connection, news, watermark, atCall, process>>

-------------------------------------------------------------------------------
\* The process dies; nobody learns what became of the call under way.
ProcessDies ==
  /\ mode = "up" /\ epoch < MaxEpoch
  /\ mode' = "down" /\ UNCHANGED epoch
  /\ UNCHANGED <<queue, receipts, work, connection, news, dreams>>

\* recoverStuck() and connectAllBestEffort().
Restart ==
  /\ mode = "down"
  /\ mode' = "up" /\ epoch' = epoch + 1
  /\ job' = [b \in Batches |-> IF job[b] = "running" THEN "pending" ELSE job[b]]
  /\ again' = IF work # Idle /\ work.manual
                THEN [again EXCEPT ![work.batch] = @ + 1] ELSE again
  /\ work' = Idle
  /\ dream' = IF dream.phase = "dreaming" THEN [dream EXCEPT !.phase = "pending"] ELSE dream
  /\ conn' \in {"ready", "degraded"} /\ tools' = (conn' = "ready")
  /\ UNCHANGED <<tries, current, retries, receipts, news, watermark, atCall>>

-------------------------------------------------------------------------------
Asking(b) == HandOver(b) \/ AdminRetry(b)
Lane(b) == Take(b) \/ TakeManual(b)
Opening == NothingToDo \/ LeaveUncertain \/ SkipCommit \/ StartCommit
Loop == ModelThrows \/ ModelIsDone \/ CallRefused \/ CallMade
        \/ CallAnswered \/ CallFails \/ CallBreaks
Handler == Opening \/ Loop \/ JobEnds \/ JobThrows
Connecting == Connected \/ ConnectFails
Dreaming == EnqueueDream \/ StartDream \/ NoDream \/ EndDream \/ DreamThrows

MemoryNext ==
  \/ \E b \in Batches : Asking(b) \/ Lane(b)
  \/ Clear \/ Handler \/ OthersReconnect \/ Connecting \/ Dreaming \/ ProcessDies \/ Restart

MemorySpec == MemoryInit /\ [][MemoryNext]_memoryVars

\* The worker looks at its lane, model and tool calls and the attempt to
\* connect have timeouts, and a supervisor starts the process again.
Fairness ==
  /\ \A b \in Batches : WF_memoryVars(Take(b)) /\ WF_memoryVars(TakeManual(b))
  /\ WF_memoryVars(Handler) /\ WF_memoryVars(Connecting) /\ WF_memoryVars(Restart)

FairMemorySpec == MemorySpec /\ Fairness

-------------------------------------------------------------------------------
(***************************************************************************)
(* Properties                                                              *)
(***************************************************************************)
WorkRow == [phase : Phases, batch : Batches, manual : BOOLEAN, round : 0 .. MaxRounds,
            ok : BOOLEAN, second : BOOLEAN]

TypeOK ==
  /\ job \in [Batches -> {"none", "pending", "running", "done", "failed"}]
  /\ tries \in [Batches -> Nat] /\ again \in [Batches -> Nat]
  /\ retries \in [Batches -> Nat] /\ current \subseteq Batches
  /\ receipt \in [Batches -> States] /\ named \subseteq Batches
  /\ work \in WorkRow \cup {Idle}
  /\ conn \in {"ready", "connecting", "degraded"} /\ tools \in BOOLEAN
  /\ answered \subseteq Batches
  /\ runs \in [Batches -> Nat] /\ news \in Nat /\ watermark \in Nat /\ atCall \in Nat
  /\ dream \in [phase : {"none", "pending", "dreaming"}, at : Nat, seen : Nat]
  /\ mode \in {"up", "down"} /\ epoch \in 1 .. MaxEpoch

\* The tools are run once for a batch, once more for each retry the admin asked
\* for, and twice more for each death: it leaves a receipt that lets any job run
\* them, and gives a job of the admin back.  Never because a job is tried again.
RunOnce(b) == runs[b] <= 1 + retries[b] + 2 * (epoch - 1)

\* Completed is said only when a call of the batch was answered without an error,
\* never of a batch whose calls all failed or whose answers were all lost.  It
\* does not say that anything was written: a read is an answer too.
CompletedIsAnswered(b) == receipt[b] = "completed" => b \in answered

\* A job at rest has left a receipt that tells its outcome.
RestIsTold(b) ==
  job[b] \in {"done", "failed"} /\ b \in current /\ again[b] = 0 /\ work = Idle
    => receipt[b] \in Outcomes

\* The receipts keep their account, whatever is lost, retried or dies.
ReceiptsAreTrue ==
  \A b \in Batches : RunOnce(b) /\ CompletedIsAnswered(b) /\ RestIsTold(b)

\* A commit completed after the last answered dream call was made stays beyond the
\* watermark, so that another dream is asked for it.  Whether a call has digested
\* what was there before it, the watermark does not tell.
WatermarkIsEarly == watermark <= atCall

\* What is recorded of the memory: the receipts, and the watermark.
RecordsAreTrue == TypeOK /\ ReceiptsAreTrue /\ WatermarkIsEarly

\* Every commit that was asked for ends, by the queue or by the admin.
EveryCommitEnds ==
  \A b \in Batches :
    job[b] = "pending" \/ again[b] > 0 ~> job[b] \in {"done", "failed"} /\ again[b] = 0
===============================================================================
