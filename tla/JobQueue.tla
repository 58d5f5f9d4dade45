------------------------------- MODULE JobQueue -------------------------------
(***************************************************************************)
(* The durable job queue: the jobs table of JobRepo (misc.repo.ts), the    *)
(* JobWorker that claims its rows lane by lane (core/jobs.ts) and the      *)
(* contract under which a handler runs (core/jobs/executor.ts).            *)
(*                                                                         *)
(* Rows are numbered as they are created; `born` stands for created_at,    *)
(* which the rows of one transaction share: their ids end in random text,  *)
(* so nothing orders them but the priority.  A row of a retired type, left *)
(* by an earlier version of the program, may be there at the start.        *)
(* run_after is reduced to `delayed`: it lies in the future.  A            *)
(* handler is an await of unknown length; `runs` counts the invocations of *)
(* a job that are under way, which is more than the worker itself knows.   *)
(***************************************************************************)
EXTENDS Integers, FiniteSets, Sequences

CONSTANTS
  Types,         \* the job types a row may have
  Registered,    \* those the worker has a definition for
  Lanes,
  LaneOf,        \* definition.lane
  Concurrency,   \* LANE_CONFIG
  Priority,      \* priorityForJob()
  MaxAttempts,   \* max_attempts of the row
  Retryable,     \* the types with definition.retryable
  AbortMode,     \* the types with timeoutMode 'abort'; the others observe
  Deferred,      \* the types enqueued with a run_after
  Clearable,     \* the types an admin's clearing of the memory deletes
  Hanging,       \* the types whose handler may wait for ever
  Throwing,      \* the types whose handler may throw
  Transactions,  \* the sequences of types one transaction may enqueue
  MaxJobs,       \* bound: rows
  MaxEpoch       \* bound: incarnations of the process (crashes + 1)

ASSUME JobConstants ==
  /\ Registered \subseteq Types
  /\ LaneOf \in [Registered -> Lanes]
  /\ \A l \in Lanes : \E t \in Registered : LaneOf[t] = l
  /\ Concurrency \in [Lanes -> Nat \ {0}]
  /\ Priority \in [Types -> 0 .. 100]
  /\ MaxAttempts \in [Types -> Nat \ {0}]
  /\ Retryable \subseteq Types /\ AbortMode \subseteq Types
  /\ Deferred \subseteq Types /\ Clearable \subseteq Types
  /\ Hanging \subseteq Types /\ Throwing \subseteq Types
  /\ Transactions \subseteq Seq(Registered)
  /\ MaxJobs \in Nat \ {0}
  /\ MaxEpoch \in Nat \ {0}

\* The two jobs of a turn share a lane; the extraction has more priority and is
\* never enqueued with a run_after.
ASSUME TurnJobs ==
  /\ {"memory.extract", "future.analyze"} \subseteq Registered
  /\ LaneOf["memory.extract"] = LaneOf["future.analyze"]
  /\ Priority["memory.extract"] > Priority["future.analyze"]
  /\ "memory.extract" \notin Deferred

VARIABLES
  job,      \* durable: the jobs table
  mode,     \* "up", "stopping" after worker.stop(), "down"
  epoch,    \* the incarnation of the process
  active,   \* the jobs that occupy a slot of their lane
  runs,     \* the handler invocations under way, for each job
  late,     \* the active jobs whose timer has fired
  aborted   \* the active jobs whose signal was aborted

vars == <<job, mode, epoch, active, runs, late, aborted>>

Jobs == 1 .. MaxJobs

NoJob == [status |-> "none", type |-> "none", attempts |-> 0,
          delayed |-> FALSE, born |-> 0]

Pending(t, at) ==
  [status |-> "pending", type |-> t, attempts |-> 0,
   delayed |-> t \in Deferred, born |-> at]

Rows == {j \in Jobs : job[j].status # "none"}

ActiveIn(l) == {j \in active : LaneOf[job[j].type] = l}

Init ==
  /\ \E first \in {NoJob} \cup {Pending(t, 1) : t \in Types \ Registered} :
       job = [j \in Jobs |-> IF j = 1 THEN first ELSE NoJob]
  /\ mode = "up"
  /\ epoch = 1
  /\ active = {} /\ late = {} /\ aborted = {}
  /\ runs = [j \in Jobs |-> 0]

-------------------------------------------------------------------------------

\* JobRepo.enqueue() of every type of one transaction.  An unknown type throws.
Enqueue(ts) ==
  LET n == Cardinality(Rows) IN
  /\ mode # "down"
  /\ n + Len(ts) <= MaxJobs
  /\ job' = [j \in Jobs |-> IF j \in n + 1 .. n + Len(ts)
                            THEN Pending(ts[j - n], n + 1) ELSE job[j]]
  /\ UNCHANGED <<mode, epoch, active, runs, late, aborted>>

\* The run_after of a row comes round.
Due(j) ==
  /\ job[j].delayed
  /\ job' = [job EXCEPT ![j].delayed = FALSE]
  /\ UNCHANGED <<mode, epoch, active, runs, late, aborted>>

(***************************************************************************)
(* pump(): every lane with a free slot claims the best row of its types.   *)
(* No lane is without a type (JobConstants), so claimNext() is never asked *)
(* for the rows of unknown types, which nobody claims.                     *)
(***************************************************************************)
HasRoom_OnePool(l) == Cardinality(active) < Concurrency[l]
HasRoom(l) == Cardinality(ActiveIn(l)) < Concurrency[l]

LaneTypes(l) == {t \in Registered : LaneOf[t] = l}

Claimable(l) ==
  {j \in Rows : /\ job[j].status = "pending" /\ ~job[j].delayed
                /\ job[j].type \in LaneTypes(l)}

Before_ByAge(j, k) == job[j].born < job[k].born

\* ORDER BY priority DESC, created_at
Before(j, k) ==
  \/ Priority[job[j].type] > Priority[job[k].type]
  \/ /\ Priority[job[j].type] = Priority[job[k].type]
     /\ job[j].born < job[k].born

IsNext(l, j) ==
  /\ j \in Claimable(l)
  /\ ~\E k \in Claimable(l) : Before(k, j)

\* claimNext() and the start of executeJob().
Claim(l) ==
  /\ mode = "up"
  /\ HasRoom(l)
  /\ \E j \in Jobs :
       /\ IsNext(l, j)
       /\ job' = [job EXCEPT ![j].status = "running", ![j].attempts = @ + 1]
       /\ active' = active \cup {j}
       /\ runs' = [runs EXCEPT ![j] = @ + 1]
  /\ UNCHANGED <<mode, epoch, late, aborted>>

(***************************************************************************)
(* executeWithContract() and the rest of executeJob().                     *)
(***************************************************************************)
TriesLeft_OneMore(r) == r.type \in Retryable /\ r.attempts <= MaxAttempts[r.type]
TriesLeft(r) == r.type \in Retryable /\ r.attempts < MaxAttempts[r.type]

\* JobRepo.fail(): back to pending with a delay, or failed.
AfterFailure(r) ==
  IF TriesLeft(r) THEN [r EXCEPT !.status = "pending", !.delayed = TRUE]
  ELSE [r EXCEPT !.status = "failed"]

\* complete() and fail() find no row when it was deleted meanwhile.
Settle(j, r) == job' = IF job[j].status = "gone" THEN job ELSE [job EXCEPT ![j] = r]

Leave(j) ==
  /\ active' = active \ {j} /\ late' = late \ {j} /\ aborted' = aborted \ {j}
  /\ runs' = [runs EXCEPT ![j] = @ - 1]
  /\ UNCHANGED <<mode, epoch>>

\* Nothing but the signal ends a handler that waits for ever.
CanEnd(j) ==
  /\ j \in active
  /\ job[j].type \in Hanging => j \in aborted /\ job[j].type \in AbortMode

TimedOut(j) == j \in late /\ job[j].type \in AbortMode

HandlerReturns(j) ==
  /\ CanEnd(j)
  /\ Settle(j, IF TimedOut(j) THEN AfterFailure(job[j])
               ELSE [job[j] EXCEPT !.status = "done"])
  /\ Leave(j)

HandlerThrows_DropsAborted(j) ==
  /\ CanEnd(j)
  /\ job[j].type \in Throwing \/ j \in aborted
  /\ IF j \in aborted THEN UNCHANGED job ELSE Settle(j, AfterFailure(job[j]))
  /\ Leave(j)

HandlerThrows(j) ==
  /\ CanEnd(j)
  /\ job[j].type \in Throwing \/ j \in aborted
  /\ Settle(j, AfterFailure(job[j]))
  /\ Leave(j)

Timeout_Detaches(j) ==
  /\ j \in active \ late
  /\ job' = [job EXCEPT ![j] = AfterFailure(@)]
  /\ active' = active \ {j}
  /\ UNCHANGED <<mode, epoch, runs, late, aborted>>

\* The timer only signals: the handler keeps its slot and its row.
Timeout(j) ==
  /\ j \in active \ late
  /\ late' = late \cup {j}
  /\ aborted' = IF job[j].type \in AbortMode THEN aborted \cup {j} ELSE aborted
  /\ UNCHANGED <<job, mode, epoch, active, runs>>

(***************************************************************************)
(* Deletions, stop, crash and recovery at boot.                            *)
(***************************************************************************)
\* purgeDone() of the maintenance job, a day after the row was done.
Purge(j) ==
  /\ mode # "down"
  /\ job[j].status = "done"
  /\ job' = [job EXCEPT ![j].status = "gone"]
  /\ UNCHANGED <<mode, epoch, active, runs, late, aborted>>

\* MemoryRepo.clearAll() deletes rows whatever their status, running ones too.
ClearMemory ==
  /\ mode # "down"
  /\ \E j \in Rows : job[j].type \in Clearable
  /\ job' = [j \in Jobs |-> IF j \in Rows /\ job[j].type \in Clearable
                            THEN [job[j] EXCEPT !.status = "gone"] ELSE job[j]]
  /\ UNCHANGED <<mode, epoch, active, runs, late, aborted>>

Stop ==
  /\ mode = "up"
  /\ epoch < MaxEpoch
  /\ mode' = "stopping"
  /\ aborted' = active
  /\ UNCHANGED <<job, epoch, active, runs, late>>

\* The end of the process: by a crash, or when stop() is through with waiting.
Crash ==
  /\ mode # "down"
  /\ epoch < MaxEpoch
  /\ mode' = "down"
  /\ active' = {} /\ late' = {} /\ aborted' = {}
  /\ runs' = [j \in Jobs |-> 0]
  /\ UNCHANGED <<job, epoch>>

Exit == mode = "stopping" /\ Crash

Recovered_All(r) ==
  IF r.status \in {"running", "failed"} THEN [r EXCEPT !.status = "pending"] ELSE r

Recovered_None(r) == r

\* recoverStuck(), for each row.
Recovered(r) == IF r.status = "running" THEN [r EXCEPT !.status = "pending"] ELSE r

Restart ==
  /\ mode = "down"
  /\ mode' = "up"
  /\ epoch' = epoch + 1
  /\ job' = [j \in Jobs |-> Recovered(job[j])]
  /\ UNCHANGED <<active, runs, late, aborted>>

-------------------------------------------------------------------------------

HandlerEnds(j) == HandlerReturns(j) \/ HandlerThrows(j)

Next ==
  \/ \E ts \in Transactions : Enqueue(ts)
  \/ \E l \in Lanes : Claim(l)
  \/ \E j \in Jobs : Due(j) \/ Timeout(j) \/ HandlerEnds(j) \/ Purge(j)
  \/ ClearMemory \/ Stop \/ Crash \/ Restart

Spec == Init /\ [][Next]_vars

(***************************************************************************)
(* pump() runs every 800 ms and visits every lane; a handler that is not   *)
(* Hanging ends (its I/O has timeouts), a timer fires, a stopped process   *)
(* exits and is started again by its service manager.                      *)
(***************************************************************************)
Fairness ==
  /\ \A l \in Lanes : WF_vars(Claim(l))
  /\ \A j \in Jobs : WF_vars(Due(j)) /\ WF_vars(Timeout(j)) /\ WF_vars(HandlerEnds(j))
  /\ WF_vars(Exit)
  /\ WF_vars(Restart)

FairSpec == Spec /\ Fairness

-------------------------------------------------------------------------------
(***************************************************************************)
(* Properties.                                                             *)
(***************************************************************************)
Settled(j) == job[j].status \in {"done", "failed", "gone"}

Statuses == {"none", "pending", "running", "done", "failed", "gone"}

RowType ==
  [status : Statuses, type : Types \cup {"none"}, attempts : Nat,
   delayed : BOOLEAN, born : 0 .. MaxJobs]

\* Types of the variables.
TypeOK ==
  /\ job \in [Jobs -> RowType]
  /\ mode \in {"up", "stopping", "down"}
  /\ epoch \in 1 .. MaxEpoch
  /\ active \subseteq Jobs /\ late \subseteq active /\ aborted \subseteq active
  /\ runs \in [Jobs -> Nat]

\* "A timeout is a signal or a diagnostic, not permission to detach the handler
\* from its lane": no job has two invocations at once, whatever its timer, its
\* retries or stop() did, and a lane never runs more jobs than its concurrency.
NoOverlap ==
  /\ \A j \in Jobs : runs[j] <= 1
  /\ \A l \in Lanes :
       Cardinality({j \in Jobs : runs[j] > 0 /\ LaneOf[job[j].type] = l})
         <= Concurrency[l]

\* A live process never loses track of a claimed row: recoverStuck() runs at
\* boot only, so a row left 'running' without a handler would wait for a restart.
RunningIsHeld ==
  mode # "down" => \A j \in Jobs : job[j].status = "running" => j \in active

\* A job is given up when its attempts are spent, never earlier, and it is
\* attempted beyond max_attempts only by as many times as the process died:
\* neither claimNext() nor recoverStuck() looks at the limit.
AttemptsHonoured ==
  \A j \in Rows :
    /\ job[j].attempts <= MaxAttempts[job[j].type] + epoch - 1
    /\ job[j].status = "failed" /\ job[j].type \in Registered \cap Retryable
         => job[j].attempts >= MaxAttempts[job[j].type]

\* What claimNext() promises of a claim: one invocation, held until it ends, and
\* one attempt.
ClaimsAreKept == NoOverlap /\ RunningIsHeld /\ AttemptsHonoured

\* "Post-turn analyzer runs strictly after memory extraction": when an analyzer
\* runs, the extraction of its own transaction and those of the earlier ones have
\* settled, or an attempt of theirs has failed, died or been claimed before it.
ExtractionGoesFirst ==
  \A j \in active, k \in Rows :
    /\ job[j].type = "future.analyze" /\ job[k].type = "memory.extract"
    /\ job[k].born <= job[j].born
    => Settled(k) \/ job[k].attempts > 0

\* Why NoOverlap, RunningIsHeld and AttemptsHonoured hold, as an inductive
\* invariant.  Ids are given out in order (RowsComeInOrder); a handler runs for
\* exactly the jobs that occupy a slot, and those keep their row unless it is
\* deleted (HandlersHoldRows); no lane exceeds its slots (LanesHaveRoom); a row
\* waits only with an attempt left or granted by a death of the process
\* (PendingHasAttempt).
RowsComeInOrder == \E n \in 0 .. MaxJobs : Rows = 1 .. n

HandlersHoldRows ==
  /\ mode = "down" => active = {} /\ epoch < MaxEpoch
  /\ \A j \in Jobs : runs[j] = IF j \in active THEN 1 ELSE 0
  /\ \A j \in active : job[j].status \in {"running", "gone"} /\ job[j].type \in Registered

LanesHaveRoom == \A l \in Lanes : Cardinality(ActiveIn(l)) <= Concurrency[l]

PendingHasAttempt ==
  \A j \in Rows :
    /\ job[j].type \in Types
    /\ job[j].status = "pending" => job[j].attempts <= MaxAttempts[job[j].type] + epoch - 2

WorkerInvariant ==
  /\ TypeOK
  /\ RowsComeInOrder
  /\ HandlersHoldRows
  /\ RunningIsHeld
  /\ LanesHaveRoom
  /\ PendingHasAttempt
  /\ AttemptsHonoured

\* Why ExtractionGoesFirst holds, as an inductive invariant over WorkerInvariant:
\* created_at grows with the rows, what runs has been claimed, and a first
\* attempt of an extraction waits for nothing but a slot.
TurnInvariant ==
  /\ \A j \in Rows :
       /\ job[j].born <= j
       /\ job[j].status = "running" => job[j].attempts > 0
       /\ /\ job[j].type = "memory.extract"
          /\ job[j].status = "pending" /\ job[j].attempts = 0
          => ~job[j].delayed
  /\ ExtractionGoesFirst

\* A job that is done or failed is never claimed again, not even by a restart.
SettledStaysSettled ==
  [][\A j \in Jobs : job[j].status \in {"done", "failed", "gone"}
       => job'[j].status \in {job[j].status, "gone"}]_vars

\* Every enqueued job of a registered type ends, through retries, aborts,
\* graceful stops and crashes, even when handlers of other lanes wait for ever:
\* "A slow autonomous or maintenance job can no longer occupy the critical
\* delivery lane".  Only behind a hanging handler of its own lane it may wait.
EveryJobSettles ==
  \A j \in Jobs :
    /\ job[j].status = "pending" /\ job[j].type \in Registered
    /\ LaneTypes(LaneOf[job[j].type]) \cap Hanging \subseteq AbortMode
    ~> Settled(j)
===============================================================================
