---------------------------- MODULE JobQueueProofs ----------------------------
(***************************************************************************)
(* For every table of job types, lanes and limits: no job runs twice at    *)
(* once, a live process loses no claimed row, attempts are honoured, and   *)
(* what is settled stays settled.  WorkerInvariant is inductive.  A step   *)
(* changes rows and slots; GoodRow is what the invariant asks of one row,  *)
(* so that each statement on a row is judged alone.                        *)
(*                                                                         *)
(* TurnInvariant, on top of it: claimNext() takes the extraction of a turn *)
(* before its analyzer.                                                    *)
(***************************************************************************)
EXTENDS JobQueue, FiniteSetTheorems, TLAPS

\* What PendingHasAttempt and AttemptsHonoured ask of a row r at epoch e.
GoodRow(r, e) ==
  r.status # "none" =>
    /\ r.type \in Types
    /\ r.status = "pending" => r.attempts <= MaxAttempts[r.type] + e - 2
    /\ r.attempts <= MaxAttempts[r.type] + e - 1
    /\ r.status = "failed" /\ r.type \in Registered \cap Retryable
         => r.attempts >= MaxAttempts[r.type]

LEMMA LimitIsPositive ==
  ASSUME NEW t \in Types
  PROVE  MaxAttempts[t] \in Nat \ {0}
  BY JobConstants DEF JobConstants

LEMMA InvariantByRow ==
  WorkerInvariant <=>
    /\ TypeOK /\ RowsComeInOrder /\ HandlersHoldRows /\ RunningIsHeld
    /\ LanesHaveRoom
    /\ \A j \in Jobs : GoodRow(job[j], epoch)
  BY DEF WorkerInvariant, PendingHasAttempt, AttemptsHonoured, Rows, GoodRow

(***************************************************************************)
(* The statements on one row.                                              *)
(***************************************************************************)
\* s is r with its type, and good; r exists if and only if s does.
Follows(r, s, e) ==
  /\ s \in RowType
  /\ s.type = r.type
  /\ s.status = "none" <=> r.status = "none"
  /\ GoodRow(s, e)

LEMMA PendingRow ==
  ASSUME NEW t \in Registered, NEW n \in 0 .. MaxJobs, NEW e \in Nat \ {0}
  PROVE  Pending(t, n) \in RowType /\ GoodRow(Pending(t, n), e)
  <1>1. t \in Types  BY JobConstants DEF JobConstants
  <1>2. Pending(t, n) \in RowType
    BY <1>1 DEF Pending, RowType, Statuses
  <1>3. GoodRow(Pending(t, n), e)
    BY <1>1, LimitIsPositive DEF Pending, GoodRow
  <1>. QED  BY <1>2, <1>3

LEMMA ClaimedRow ==
  ASSUME NEW r \in RowType, NEW e \in Nat \ {0}, GoodRow(r, e),
         r.status = "pending"
  PROVE  Follows(r, [r EXCEPT !.status = "running", !.attempts = @ + 1], e)
  <1>1. r.type \in Types /\ r.attempts \in Nat
    BY DEF GoodRow, RowType
  <1>2. MaxAttempts[r.type] \in Nat  BY <1>1, LimitIsPositive
  <1>. DEFINE s == [r EXCEPT !.status = "running", !.attempts = @ + 1]
  <1>3. s \in RowType
    <2>1. r.attempts + 1 \in Nat /\ "running" \in Statuses  BY <1>1 DEF Statuses
    <2>. QED  BY <2>1 DEF RowType
  <1>4. s.type = r.type /\ s.status = "running" /\ s.attempts = r.attempts + 1
    BY DEF RowType
  <1>5. GoodRow(s, e)
    <2>1. r.attempts <= MaxAttempts[r.type] + e - 2  BY DEF GoodRow
    <2>2. s.attempts <= MaxAttempts[s.type] + e - 1
      <3>1. \A a, m \in Int : a <= m + e - 2 => a + 1 <= m + e - 1  OBVIOUS
      <3>. HIDE DEF s
      <3>. QED  BY <1>1, <1>2, <1>4, <2>1, <3>1
    <2>. HIDE DEF s
    <2>. QED  BY <1>1, <1>4, <2>2 DEF GoodRow
  <1>. QED  BY <1>3, <1>4, <1>5 DEF Follows

\* A running row ends, is deleted, or fails; its attempts stay.
LEMMA SettledRow ==
  ASSUME NEW r \in RowType, NEW e \in Nat \ {0}, GoodRow(r, e), r.status = "running"
  PROVE  /\ Follows(r, [r EXCEPT !.status = "done"], e)
         /\ Follows(r, AfterFailure(r), e)
         /\ AfterFailure(r).status \in {"pending", "failed"}
  <1>1. r.type \in Types /\ r.attempts \in Nat
    BY DEF GoodRow, RowType
  <1>2. MaxAttempts[r.type] \in Nat  BY <1>1, LimitIsPositive
  <1>3. Follows(r, [r EXCEPT !.status = "done"], e)
    BY <1>1, <1>2 DEF Follows, GoodRow, RowType, Statuses
  <1>4. CASE TriesLeft(r)
    <2>. DEFINE s == [r EXCEPT !.status = "pending", !.delayed = TRUE]
    <2>1. s \in RowType  BY DEF RowType, Statuses
    <2>2. s.type = r.type /\ s.status = "pending" /\ s.attempts = r.attempts
      BY DEF RowType
    <2>3. AfterFailure(r) = s  BY <1>4 DEF AfterFailure
    <2>4. r.attempts < MaxAttempts[r.type]  BY <1>4 DEF TriesLeft
    <2>. HIDE DEF s
    <2>5. /\ s.attempts <= MaxAttempts[s.type] + e - 2
          /\ s.attempts <= MaxAttempts[s.type] + e - 1
      BY <1>1, <1>2, <2>2, <2>4
    <2>. QED  BY <1>1, <1>3, <2>1, <2>2, <2>3, <2>5 DEF Follows, GoodRow
  <1>5. CASE ~TriesLeft(r)
    <2>. DEFINE s == [r EXCEPT !.status = "failed"]
    <2>1. s \in RowType  BY DEF RowType, Statuses
    <2>2. s.type = r.type /\ s.status = "failed" /\ s.attempts = r.attempts
      BY DEF RowType
    <2>3. AfterFailure(r) = s  BY <1>5 DEF AfterFailure
    <2>4. r.type \in Retryable => r.attempts >= MaxAttempts[r.type]
      BY <1>1, <1>2, <1>5 DEF TriesLeft
    <2>5. r.attempts <= MaxAttempts[r.type] + e - 1  BY DEF GoodRow
    <2>. HIDE DEF s
    <2>. QED  BY <1>1, <1>3, <2>1, <2>2, <2>3, <2>4, <2>5 DEF Follows, GoodRow
  <1>. QED  BY <1>3, <1>4, <1>5 DEF Follows

LEMMA DeletedRow ==
  ASSUME NEW r \in RowType, NEW e \in Nat \ {0}, GoodRow(r, e), r.status # "none"
  PROVE  Follows(r, [r EXCEPT !.status = "gone"], e)
  BY DEF Follows, GoodRow, RowType, Statuses

LEMMA DueRow ==
  ASSUME NEW r \in RowType, NEW e \in Nat \ {0}, GoodRow(r, e)
  PROVE  /\ Follows(r, [r EXCEPT !.delayed = FALSE], e)
         /\ [r EXCEPT !.delayed = FALSE].status = r.status
  BY DEF Follows, GoodRow, RowType, Statuses

\* A death of the process grants one more attempt.
LEMMA RecoveredRow ==
  ASSUME NEW r \in RowType, NEW e \in Nat \ {0}, GoodRow(r, e)
  PROVE  /\ Follows(r, Recovered(r), e + 1)
         /\ Recovered(r).status # "running"
         /\ r.status # "running" => Recovered(r) = r
  <1>1. CASE r.status = "none"
    BY <1>1 DEF Recovered, Follows, GoodRow
  <1>2. CASE r.status # "none"
    <2>1. r.type \in Types /\ r.attempts \in Nat
      BY <1>2 DEF GoodRow, RowType
    <2>2. MaxAttempts[r.type] \in Nat  BY <2>1, LimitIsPositive
    <2>. QED  BY <1>2, <2>1, <2>2 DEF Recovered, Follows, GoodRow, RowType, Statuses
  <1>. QED  BY <1>1, <1>2

LEMMA SameRow ==
  ASSUME NEW r \in RowType, NEW e, GoodRow(r, e)
  PROVE  Follows(r, r, e)
  BY DEF Follows

(***************************************************************************)
(* The steps.                                                              *)
(***************************************************************************)
LEMMA Known ==
  ASSUME WorkerInvariant
  PROVE  /\ epoch \in Nat \ {0} /\ MaxEpoch \in Nat
         /\ MaxJobs \in Nat
         /\ \A j \in Jobs : job[j] \in RowType /\ GoodRow(job[j], epoch)
         /\ \A j \in active : j \in Jobs
         /\ \A j \in Jobs : Follows(job[j], job[j], epoch)
  BY InvariantByRow, SameRow, JobConstants DEF WorkerInvariant, TypeOK, JobConstants

LEMMA LaneIsFinite ==
  ASSUME WorkerInvariant, NEW l \in Lanes
  PROVE  IsFiniteSet(ActiveIn(l)) /\ Cardinality(ActiveIn(l)) \in Nat
  <1>1. IsFiniteSet(1 .. MaxJobs)  BY Known, FS_Interval
  <1>2. ActiveIn(l) \in SUBSET (1 .. MaxJobs)
    BY DEF WorkerInvariant, TypeOK, ActiveIn, Jobs
  <1>. QED  BY <1>1, <1>2, FS_Subset, FS_CardinalityType

\* Slots are given back, rows follow from their old state.
LEMMA SlotsKept ==
  ASSUME WorkerInvariant,
         job' \in [Jobs -> RowType],
         \A j \in Jobs : Follows(job[j], job'[j], epoch'),
         epoch' \in 1 .. MaxEpoch,
         mode' \in {"up", "stopping", "down"},
         active' \subseteq active, late' \subseteq active', aborted' \subseteq active',
         runs' \in [Jobs -> Nat],
         \A j \in Jobs : runs'[j] = IF j \in active' THEN 1 ELSE 0,
         mode' = "down" => active' = {} /\ epoch' < MaxEpoch,
         \A j \in active' : job'[j].status \in {"running", "gone"},
         mode' # "down" => \A j \in Jobs : job'[j].status = "running" => j \in active'
  PROVE  WorkerInvariant'
  <1>1. TypeOK'  BY DEF WorkerInvariant, TypeOK
  <1>2. RowsComeInOrder'
    <2>1. Rows' = Rows  BY DEF Follows, Rows
    <2>. QED  BY <2>1 DEF WorkerInvariant, RowsComeInOrder
  <1>3. \A j \in active' : j \in Jobs /\ job'[j].type = job[j].type
    BY DEF WorkerInvariant, TypeOK, Follows
  <1>4. HandlersHoldRows'
    BY <1>3 DEF WorkerInvariant, HandlersHoldRows
  <1>5. RunningIsHeld'  BY DEF RunningIsHeld
  <1>6. LanesHaveRoom'
    <2>. SUFFICES ASSUME NEW l \in Lanes
                  PROVE  Cardinality(ActiveIn(l)') <= Concurrency[l]
      BY DEF LanesHaveRoom
    <2>1. ActiveIn(l)' \in SUBSET ActiveIn(l)  BY <1>3 DEF ActiveIn
    <2>2. /\ Cardinality(ActiveIn(l)') <= Cardinality(ActiveIn(l))
          /\ IsFiniteSet(ActiveIn(l)')
      BY <2>1, LaneIsFinite, FS_Subset
    <2>3. Cardinality(ActiveIn(l)') \in Nat  BY <2>2, FS_CardinalityType
    <2>4. Cardinality(ActiveIn(l)) <= Concurrency[l] /\ Concurrency[l] \in Nat
      BY JobConstants DEF JobConstants, WorkerInvariant, LanesHaveRoom
    <2>. QED  BY <2>2, <2>3, <2>4, LaneIsFinite
  <1>7. \A j \in Jobs : GoodRow(job'[j], epoch')  BY DEF Follows
  <1>8. PendingHasAttempt' /\ AttemptsHonoured'
    BY <1>7 DEF GoodRow, PendingHasAttempt, AttemptsHonoured, Rows
  <1>. QED
    BY <1>1, <1>2, <1>4, <1>5, <1>6, <1>8 DEF WorkerInvariant

\* Steps that leave the handlers alone.
LEMMA RowsOnly ==
  ASSUME WorkerInvariant,
         UNCHANGED <<mode, epoch, active, runs, late, aborted>>,
         job' \in [Jobs -> RowType],
         \A j \in Jobs : Follows(job[j], job'[j], epoch),
         \A j \in active : job'[j].status \in {"running", "gone"},
         \A j \in Jobs : job'[j].status = "running" => job[j].status = "running"
  PROVE  WorkerInvariant'
  <1>1. /\ epoch' \in 1 .. MaxEpoch /\ mode' \in {"up", "stopping", "down"}
        /\ late' \subseteq active' /\ aborted' \subseteq active'
        /\ runs' \in [Jobs -> Nat]
    BY DEF WorkerInvariant, TypeOK
  <1>2. /\ \A j \in Jobs : runs'[j] = IF j \in active' THEN 1 ELSE 0
        /\ mode' = "down" => active' = {} /\ epoch' < MaxEpoch
        /\ mode' # "down" => \A j \in Jobs : job'[j].status = "running" => j \in active'
    BY DEF WorkerInvariant, HandlersHoldRows, RunningIsHeld
  <1>. QED  BY <1>1, <1>2, SlotsKept

\* One row changes.
LEMMA OneRow ==
  ASSUME WorkerInvariant,
         UNCHANGED <<mode, epoch, active, runs, late, aborted>>,
         NEW k \in Jobs, NEW r, job' = [job EXCEPT ![k] = r],
         Follows(job[k], r, epoch),
         k \in active => r.status \in {"running", "gone"},
         r.status = "running" => job[k].status = "running"
  PROVE  WorkerInvariant'
  <1>1. job \in [Jobs -> RowType]  BY DEF WorkerInvariant, TypeOK
  <1>2. \A j \in Jobs : job'[j] = IF j = k THEN r ELSE job[j]  BY <1>1
  <1>3. job' \in [Jobs -> RowType]  BY <1>1 DEF Follows
  <1>4. \A j \in Jobs : Follows(job[j], job'[j], epoch)  BY <1>2, Known
  <1>5. \A j \in active : job'[j].status \in {"running", "gone"}
    BY <1>2, Known DEF WorkerInvariant, HandlersHoldRows
  <1>6. \A j \in Jobs : job'[j].status = "running" => job[j].status = "running"
    BY <1>2
  <1>. QED  BY <1>3, <1>4, <1>5, <1>6, RowsOnly

LEMMA DueKeeps ==
  ASSUME WorkerInvariant, NEW k \in Jobs, Due(k)
  PROVE  WorkerInvariant'
  <1>. DEFINE r == [job[k] EXCEPT !.delayed = FALSE]
  <1>1. job' = [job EXCEPT ![k] = r]  BY Zenon DEF Due
  <1>2. Follows(job[k], r, epoch) /\ r.status = job[k].status
    BY Known, DueRow
  <1>3. k \in active => job[k].status \in {"running", "gone"}
    BY DEF WorkerInvariant, HandlersHoldRows
  <1>4. UNCHANGED <<mode, epoch, active, runs, late, aborted>>  BY DEF Due
  <1>. HIDE DEF r
  <1>. QED  BY <1>1, <1>2, <1>3, <1>4, OneRow

LEMMA PurgeKeeps ==
  ASSUME WorkerInvariant, NEW k \in Jobs, Purge(k)
  PROVE  WorkerInvariant'
  <1>. DEFINE r == [job[k] EXCEPT !.status = "gone"]
  <1>1. job' = [job EXCEPT ![k] = r]  BY Zenon DEF Purge
  <1>2. Follows(job[k], r, epoch)  BY Known, DeletedRow DEF Purge
  <1>3. r.status = "gone"  BY Known DEF RowType
  <1>4. UNCHANGED <<mode, epoch, active, runs, late, aborted>>  BY DEF Purge
  <1>. HIDE DEF r
  <1>. QED  BY <1>1, <1>2, <1>3, <1>4, OneRow

LEMMA ClearMemoryKeeps ==
  ASSUME WorkerInvariant, ClearMemory
  PROVE  WorkerInvariant'
  <1>1. UNCHANGED <<mode, epoch, active, runs, late, aborted>>  BY DEF ClearMemory
  <1>. DEFINE Deleted(j) == j \in Rows /\ job[j].type \in Clearable
  <1>2. \A j \in Jobs : job'[j] = IF Deleted(j) THEN [job[j] EXCEPT !.status = "gone"]
                                   ELSE job[j]
    BY DEF ClearMemory
  <1>3. \A j \in Jobs :
          /\ Follows(job[j], job'[j], epoch)
          /\ Deleted(j) => job'[j].status = "gone"
    <2>. SUFFICES ASSUME NEW j \in Jobs
                  PROVE  /\ Follows(job[j], job'[j], epoch)
                         /\ Deleted(j) => job'[j].status = "gone"
      OBVIOUS
    <2>1. CASE Deleted(j)
      <3>1. job'[j] = [job[j] EXCEPT !.status = "gone"]  BY <1>2, <2>1
      <3>2. Follows(job[j], job'[j], epoch)
        BY <2>1, <3>1, Known, DeletedRow DEF Rows
      <3>3. job'[j].status = "gone"  BY <3>1, Known DEF RowType
      <3>. QED  BY <3>2, <3>3
    <2>2. CASE ~Deleted(j)
      <3>. HIDE DEF Deleted
      <3>. QED  BY <1>2, <2>2, Known
    <2>. QED  BY <2>1, <2>2
  <1>4. job' \in [Jobs -> RowType]  BY <1>3 DEF ClearMemory, Follows
  <1>5. \A j \in active : job'[j].status \in {"running", "gone"}
    <2>. HIDE DEF Deleted
    <2>. QED  BY <1>2, <1>3, Known DEF WorkerInvariant, HandlersHoldRows
  <1>6. \A j \in Jobs : job'[j].status = "running" => job[j].status = "running"
    <2>. HIDE DEF Deleted
    <2>. QED  BY <1>2, <1>3
  <1>. QED  BY <1>1, <1>3, <1>4, <1>5, <1>6, RowsOnly

\* A handler gives back its slot; its row, if still there, becomes r.
LEMMA SlotReturned ==
  ASSUME WorkerInvariant, NEW k \in active, NEW r, Settle(k, r), Leave(k),
         job[k].status = "running" => Follows(job[k], r, epoch),
         r.status # "running"
  PROVE  WorkerInvariant'
  <1>1. job \in [Jobs -> RowType] /\ runs \in [Jobs -> Nat] /\ k \in Jobs
    BY DEF WorkerInvariant, TypeOK
  <1>2. \/ job[k].status = "running" /\ job' = [job EXCEPT ![k] = r]
        \/ job[k].status = "gone" /\ job' = job
    BY DEF Settle, WorkerInvariant, HandlersHoldRows
  <1>3. /\ \A j \in Jobs : Follows(job[j], job'[j], epoch)
        /\ \A j \in Jobs : j # k => job'[j] = job[j]
        /\ job'[k].status # "running"
    BY <1>1, <1>2, Known
  <1>4. job' \in [Jobs -> RowType]  BY <1>1, <1>2 DEF Follows
  <1>5. /\ active' = active \ {k} /\ late' = late \ {k} /\ aborted' = aborted \ {k}
        /\ runs' = [runs EXCEPT ![k] = @ - 1]
        /\ mode' = mode /\ epoch' = epoch
    BY DEF Leave
  <1>6. \A j \in Jobs : runs[j] = IF j \in active THEN 1 ELSE 0
    BY DEF WorkerInvariant, HandlersHoldRows
  <1>7. \A j \in Jobs : runs'[j] = IF j \in active' THEN 1 ELSE 0
    BY <1>1, <1>5, <1>6
  <1>8. runs' \in [Jobs -> Nat]
    <2>1. runs'[k] \in Nat  BY <1>1, <1>7
    <2>. QED  BY <1>1, <1>5, <2>1
  <1>9. /\ epoch' \in 1 .. MaxEpoch /\ mode' \in {"up", "stopping", "down"}
        /\ active' \subseteq active /\ late' \subseteq active' /\ aborted' \subseteq active'
    BY <1>5 DEF WorkerInvariant, TypeOK
  <1>10. /\ mode' = "down" => active' = {} /\ epoch' < MaxEpoch
         /\ \A j \in active' : job'[j].status \in {"running", "gone"}
         /\ mode' # "down" => \A j \in Jobs : job'[j].status = "running" => j \in active'
    BY <1>1, <1>3, <1>5, Known DEF WorkerInvariant, HandlersHoldRows, RunningIsHeld
  <1>. QED  BY <1>3, <1>4, <1>5, <1>7, <1>8, <1>9, <1>10, SlotsKept

LEMMA HandlerEndsKeeps ==
  ASSUME WorkerInvariant, NEW k \in Jobs, HandlerEnds(k)
  PROVE  WorkerInvariant'
  <1>1. k \in active /\ Leave(k)
    BY DEF HandlerEnds, HandlerReturns, HandlerThrows, CanEnd
  <1>. DEFINE done == [job[k] EXCEPT !.status = "done"]
  <1>2. \/ Settle(k, done)
        \/ Settle(k, AfterFailure(job[k]))
    BY DEF HandlerEnds, HandlerReturns, HandlerThrows
  <1>3. job[k] \in RowType /\ GoodRow(job[k], epoch) /\ epoch \in Nat \ {0}
    BY Known
  <1>4. /\ done.status # "running"
        /\ AfterFailure(job[k]).status # "running"
    BY <1>3 DEF RowType, AfterFailure
  <1>5. job[k].status = "running" =>
          Follows(job[k], done, epoch) /\ Follows(job[k], AfterFailure(job[k]), epoch)
    BY <1>3, SettledRow
  <1>. HIDE DEF done
  <1>. QED  BY <1>1, <1>2, <1>4, <1>5, SlotReturned

LEMMA SignalsKeep ==
  ASSUME WorkerInvariant, Stop \/ \E k \in Jobs : Timeout(k)
  PROVE  WorkerInvariant'
  <1>1. /\ UNCHANGED <<job, epoch, active, runs>>
        /\ mode' = mode \/ mode' = "stopping"
        /\ late' \subseteq active /\ aborted' \subseteq active
    BY DEF Stop, Timeout, WorkerInvariant, TypeOK
  <1>2. /\ job \in [Jobs -> RowType] /\ epoch \in 1 .. MaxEpoch
        /\ runs \in [Jobs -> Nat] /\ mode \in {"up", "stopping", "down"}
    BY DEF WorkerInvariant, TypeOK
  <1>3. mode' = "down" => mode = "down"  BY <1>1
  <1>4. mode = "down" => mode' = "down"
    BY <1>1 DEF Stop, Timeout, WorkerInvariant, HandlersHoldRows
  <1>5. /\ \A j \in Jobs : Follows(job[j], job'[j], epoch')
        /\ \A j \in Jobs : runs'[j] = IF j \in active' THEN 1 ELSE 0
        /\ mode' = "down" => active' = {} /\ epoch' < MaxEpoch
        /\ \A j \in active' : job'[j].status \in {"running", "gone"}
        /\ mode' # "down" => \A j \in Jobs : job'[j].status = "running" => j \in active'
    BY <1>1, <1>3, <1>4, Known DEF WorkerInvariant, HandlersHoldRows, RunningIsHeld
  <1>. QED  BY <1>1, <1>2, <1>3, <1>5, SlotsKept

LEMMA CrashKeeps ==
  ASSUME WorkerInvariant, Crash
  PROVE  WorkerInvariant'
  <1>1. /\ UNCHANGED <<job, epoch>> /\ mode' = "down" /\ epoch < MaxEpoch
        /\ active' = {} /\ late' = {} /\ aborted' = {}
        /\ runs' = [j \in Jobs |-> 0]
    BY DEF Crash
  <1>2. job \in [Jobs -> RowType] /\ epoch \in 1 .. MaxEpoch
    BY DEF WorkerInvariant, TypeOK
  <1>3. /\ \A j \in Jobs : Follows(job[j], job'[j], epoch')
        /\ \A j \in Jobs : runs'[j] = IF j \in active' THEN 1 ELSE 0
        /\ runs' \in [Jobs -> Nat]
    BY <1>1, Known
  <1>. QED  BY <1>1, <1>2, <1>3, SlotsKept

LEMMA RestartKeeps ==
  ASSUME WorkerInvariant, Restart
  PROVE  WorkerInvariant'
  <1>1. /\ mode = "down" /\ mode' = "up" /\ epoch' = epoch + 1
        /\ job' = [j \in Jobs |-> Recovered(job[j])]
        /\ UNCHANGED <<active, runs, late, aborted>>
    BY DEF Restart
  <1>2. /\ active = {} /\ epoch < MaxEpoch /\ epoch \in 1 .. MaxEpoch
        /\ late \subseteq active /\ aborted \subseteq active /\ runs \in [Jobs -> Nat]
    BY <1>1 DEF WorkerInvariant, TypeOK, HandlersHoldRows
  <1>3. epoch' \in 1 .. MaxEpoch  BY <1>1, <1>2, JobConstants DEF JobConstants
  <1>4. \A j \in Jobs : Follows(job[j], job'[j], epoch') /\ job'[j].status # "running"
    BY <1>1, Known, RecoveredRow
  <1>5. job' \in [Jobs -> RowType]  BY <1>1, <1>4 DEF Follows
  <1>6. \A j \in Jobs : runs'[j] = IF j \in active' THEN 1 ELSE 0
    BY <1>1 DEF WorkerInvariant, HandlersHoldRows
  <1>. QED  BY <1>1, <1>2, <1>3, <1>4, <1>5, <1>6, SlotsKept

\* A claimed row takes a free slot.
LEMMA ClaimKeeps ==
  ASSUME WorkerInvariant, NEW l \in Lanes, Claim(l)
  PROVE  WorkerInvariant'
  <1>1. PICK k \in Jobs :
          /\ IsNext(l, k)
          /\ job' = [job EXCEPT ![k].status = "running", ![k].attempts = @ + 1]
          /\ active' = active \cup {k}
          /\ runs' = [runs EXCEPT ![k] = @ + 1]
    BY Zenon DEF Claim
  <1>2. /\ mode = "up" /\ HasRoom(l) /\ UNCHANGED <<mode, epoch, late, aborted>>
    BY DEF Claim
  <1>3. /\ job \in [Jobs -> RowType] /\ runs \in [Jobs -> Nat] /\ active \subseteq Jobs
        /\ late \subseteq active /\ aborted \subseteq active /\ epoch \in 1 .. MaxEpoch
    BY DEF WorkerInvariant, TypeOK
  <1>4. job[k].status = "pending" /\ job[k].type \in Registered /\ LaneOf[job[k].type] = l
    BY <1>1 DEF IsNext, Claimable, LaneTypes
  <1>5. k \notin active
    BY <1>4 DEF WorkerInvariant, HandlersHoldRows
  <1>. DEFINE r == [job[k] EXCEPT !.status = "running", !.attempts = @ + 1]
  <1>6. Follows(job[k], r, epoch) /\ r.status = "running"
    <2>1. Follows(job[k], r, epoch)  BY <1>4, Known, ClaimedRow
    <2>2. r.status = "running"  BY Known DEF RowType
    <2>. QED  BY <2>1, <2>2
  <1>7. \A j \in Jobs : job'[j] = IF j = k THEN r ELSE job[j]
    <2>1. job' = [job EXCEPT ![k] = r]  BY <1>1, <1>3
    <2>. HIDE DEF r
    <2>. QED  BY <1>3, <2>1
  <1>. HIDE DEF r
  <1>8. \A j \in Jobs : Follows(job[j], job'[j], epoch)  BY <1>6, <1>7, Known
  <1>9. TypeOK'
    <2>1. job' \in [Jobs -> RowType]  BY <1>1, <1>3, <1>8 DEF Follows
    <2>2. runs' \in [Jobs -> Nat]  BY <1>1, <1>3
    <2>. QED  BY <1>1, <1>2, <1>3, <2>1, <2>2 DEF WorkerInvariant, TypeOK
  <1>10. RowsComeInOrder'
    <2>1. Rows' = Rows  BY <1>8 DEF Follows, Rows
    <2>. QED  BY <2>1 DEF WorkerInvariant, RowsComeInOrder
  <1>11. HandlersHoldRows'
    <2>1. \A j \in Jobs : runs'[j] = IF j \in active' THEN 1 ELSE 0
      BY <1>1, <1>3, <1>5 DEF WorkerInvariant, HandlersHoldRows
    <2>2. \A j \in active' :
            job'[j].status \in {"running", "gone"} /\ job'[j].type \in Registered
      BY <1>1, <1>3, <1>4, <1>6, <1>7, <1>8 DEF Follows, WorkerInvariant, HandlersHoldRows
    <2>. QED  BY <1>2, <2>1, <2>2 DEF HandlersHoldRows
  <1>12. RunningIsHeld'
    BY <1>1, <1>2, <1>7 DEF RunningIsHeld, WorkerInvariant
  <1>13. LanesHaveRoom'
    <2>. SUFFICES ASSUME NEW m \in Lanes
                  PROVE  Cardinality(ActiveIn(m)') <= Concurrency[m]
      BY DEF LanesHaveRoom
    <2>1. \A j \in active' : job'[j].type = job[j].type
      BY <1>1, <1>3, <1>8 DEF Follows
    <2>2. CASE m = l
      <3>1. ActiveIn(l)' = ActiveIn(l) \cup {k}
        BY <1>1, <1>4, <2>1 DEF ActiveIn
      <3>2. k \notin ActiveIn(l)  BY <1>5 DEF ActiveIn
      <3>3. IsFiniteSet(ActiveIn(l)) /\ Cardinality(ActiveIn(l)) \in Nat
        BY LaneIsFinite
      <3>4. Cardinality(ActiveIn(l)') = Cardinality(ActiveIn(l)) + 1
        BY <3>1, <3>2, <3>3, FS_AddElement
      <3>5. Cardinality(ActiveIn(l)) < Concurrency[l] /\ Concurrency[l] \in Nat
        BY <1>2, JobConstants DEF HasRoom, JobConstants
      <3>. QED  BY <2>2, <3>3, <3>4, <3>5
    <2>3. CASE m # l
      <3>1. ActiveIn(m)' = ActiveIn(m)
        BY <1>1, <1>4, <2>1, <2>3 DEF ActiveIn
      <3>. QED  BY <3>1 DEF WorkerInvariant, LanesHaveRoom
    <2>. QED  BY <2>2, <2>3
  <1>14. PendingHasAttempt' /\ AttemptsHonoured'
    <2>1. \A j \in Jobs : GoodRow(job'[j], epoch')  BY <1>2, <1>8 DEF Follows
    <2>. QED  BY <2>1 DEF GoodRow, PendingHasAttempt, AttemptsHonoured, Rows
  <1>. QED
    BY <1>9, <1>10, <1>11, <1>12, <1>13, <1>14 DEF WorkerInvariant

\* The new rows follow the old ones.
LEMMA EnqueueKeeps ==
  ASSUME WorkerInvariant, NEW ts \in Transactions, Enqueue(ts)
  PROVE  WorkerInvariant'
  <1>. DEFINE n == Cardinality(Rows)
              len == Len(ts)
  <1>1. ts \in Seq(Registered) /\ len \in Nat /\ \A i \in 1 .. len : ts[i] \in Registered
    BY JobConstants DEF JobConstants
  <1>2. n \in Nat /\ Rows = 1 .. n
    <2>1. PICK m \in 0 .. MaxJobs : Rows = 1 .. m
      BY DEF WorkerInvariant, RowsComeInOrder
    <2>2. m \in Nat /\ 1 \in Int /\ m \in Int  BY Known
    <2>3. Cardinality(1 .. m) = m
      BY <2>2, FS_Interval, SMTT(20)
    <2>. QED  BY <2>1, <2>2, <2>3
  <1>3. /\ UNCHANGED <<mode, epoch, active, runs, late, aborted>>
        /\ n + len <= MaxJobs
        /\ job' = [j \in Jobs |-> IF j \in n + 1 .. n + len
                                  THEN Pending(ts[j - n], n + 1) ELSE job[j]]
    BY DEF Enqueue
  <1>4. \A j \in Jobs : IF j \in n + 1 .. n + len
                        THEN \E t \in Registered, b \in 0 .. MaxJobs : job'[j] = Pending(t, b)
                        ELSE job'[j] = job[j]
    <2>. HIDE DEF n, len
    <2>. SUFFICES ASSUME NEW j \in Jobs, j \in n + 1 .. n + len
                  PROVE  \E t \in Registered, b \in 0 .. MaxJobs : job'[j] = Pending(t, b)
      BY <1>3
    <2>1. j - n \in 1 .. len  BY <1>1, <1>2
    <2>2. ts[j - n] \in Registered  BY <1>1, <2>1
    <2>3. n + 1 \in 0 .. MaxJobs  BY <1>1, <1>2, <1>3, Known
    <2>4. job'[j] = Pending(ts[j - n], n + 1)  BY <1>3
    <2>. QED  BY <2>2, <2>3, <2>4
  <1>. HIDE DEF n, len
  <1>5. \A j \in n + 1 .. n + len : j \in Jobs /\ j \notin Rows
    BY <1>1, <1>2, <1>3, Known DEF Jobs
  <1>6. \A j \in Jobs :
          /\ job'[j] \in RowType
          /\ GoodRow(job'[j], epoch)
          /\ j \in n + 1 .. n + len => job'[j].status = "pending"
    <2>. SUFFICES ASSUME NEW j \in Jobs
                  PROVE  /\ job'[j] \in RowType
                         /\ GoodRow(job'[j], epoch)
                         /\ j \in n + 1 .. n + len => job'[j].status = "pending"
      OBVIOUS
    <2>1. CASE j \in n + 1 .. n + len
      <3>1. PICK t \in Registered, b \in 0 .. MaxJobs : job'[j] = Pending(t, b)
        BY <1>4, <2>1
      <3>2. Pending(t, b).status = "pending"  BY DEF Pending
      <3>. QED  BY <3>1, <3>2, Known, PendingRow
    <2>2. CASE j \notin n + 1 .. n + len
      BY <1>4, <2>2, Known
    <2>. QED  BY <2>1, <2>2
  <1>7. TypeOK'
    <2>1. job' \in [Jobs -> RowType]  BY <1>3, <1>6
    <2>. QED  BY <1>3, <2>1 DEF WorkerInvariant, TypeOK
  <1>8. RowsComeInOrder'
    <2>1. \A j \in Jobs : j \in Rows' <=> j \in Rows \/ j \in n + 1 .. n + len
      BY <1>4, <1>6 DEF Rows
    <2>2. Rows' = 1 .. n + len
      BY <1>1, <1>2, <1>3, <2>1, Known DEF Jobs, Rows
    <2>3. n + len \in 0 .. MaxJobs  BY <1>1, <1>2, <1>3, Known
    <2>. QED  BY <2>2, <2>3 DEF RowsComeInOrder
  <1>9. \A j \in active : j \in Jobs /\ job'[j] = job[j]
    <2>1. \A j \in active : j \in Jobs /\ j \in Rows
      BY DEF WorkerInvariant, TypeOK, HandlersHoldRows, Rows
    <2>. QED  BY <1>4, <1>5, <2>1
  <1>10. HandlersHoldRows'
    BY <1>3, <1>9 DEF WorkerInvariant, HandlersHoldRows
  <1>11. RunningIsHeld'
    BY <1>3, <1>4, <1>6 DEF WorkerInvariant, RunningIsHeld
  <1>12. LanesHaveRoom'
    <2>1. \A l \in Lanes : ActiveIn(l)' = ActiveIn(l)
      BY <1>3, <1>9 DEF ActiveIn
    <2>. QED  BY <2>1 DEF WorkerInvariant, LanesHaveRoom
  <1>13. PendingHasAttempt' /\ AttemptsHonoured'
    BY <1>3, <1>6 DEF GoodRow, PendingHasAttempt, AttemptsHonoured, Rows
  <1>. QED
    BY <1>7, <1>8, <1>10, <1>11, <1>12, <1>13 DEF WorkerInvariant

LEMMA InitKeeps == Init => WorkerInvariant
  <1>. SUFFICES ASSUME Init PROVE WorkerInvariant
    OBVIOUS
  <1>1. PICK first \in {NoJob} \cup {Pending(t, 1) : t \in Types \ Registered} :
          job = [j \in Jobs |-> IF j = 1 THEN first ELSE NoJob]
    BY DEF Init
  <1>2. /\ mode = "up" /\ epoch = 1 /\ active = {} /\ late = {} /\ aborted = {}
        /\ runs = [j \in Jobs |-> 0]
    BY DEF Init
  <1>3. MaxJobs \in Nat \ {0} /\ MaxEpoch \in Nat \ {0}
    BY JobConstants DEF JobConstants
  <1>4. NoJob \in RowType /\ GoodRow(NoJob, 1) /\ NoJob.status = "none"
    BY <1>3 DEF NoJob, RowType, Statuses, GoodRow
  <1>5. /\ first \in RowType /\ GoodRow(first, 1)
        /\ first.status \in {"none", "pending"}
    <2>1. CASE first = NoJob
      BY <1>4, <2>1
    <2>2. CASE \E t \in Types \ Registered : first = Pending(t, 1)
      <3>1. PICK t \in Types \ Registered : first = Pending(t, 1)  BY <2>2
      <3>2. first \in RowType  BY <1>3, <3>1 DEF Pending, RowType, Statuses
      <3>3. GoodRow(first, 1)
        BY <3>1, LimitIsPositive DEF Pending, GoodRow
      <3>. QED  BY <3>1, <3>2, <3>3 DEF Pending
    <2>. QED  BY <1>1, <2>1, <2>2
  <1>6. /\ \A j \in Jobs : job[j] \in RowType /\ GoodRow(job[j], 1)
        /\ \A j \in Jobs : job[j].status \in {"none", "pending"}
    BY <1>1, <1>4, <1>5
  <1>7. TypeOK
    BY <1>1, <1>2, <1>3, <1>6 DEF TypeOK
  <1>8. RowsComeInOrder
    <2>1. \A j \in Jobs : j # 1 => j \notin Rows
      BY <1>1, <1>4 DEF Rows
    <2>2. Rows = 1 .. 0 \/ Rows = 1 .. 1
      BY <1>3, <2>1 DEF Rows, Jobs
    <2>3. 0 \in 0 .. MaxJobs /\ 1 \in 0 .. MaxJobs  BY <1>3
    <2>. QED  BY <2>2, <2>3, Zenon DEF RowsComeInOrder
  <1>9. LanesHaveRoom
    <2>1. \A l \in Lanes : ActiveIn(l) = {}  BY <1>2 DEF ActiveIn
    <2>2. \A l \in Lanes : Concurrency[l] \in Nat
      BY JobConstants DEF JobConstants
    <2>. QED  BY <2>1, <2>2, FS_EmptySet DEF LanesHaveRoom
  <1>10. HandlersHoldRows /\ RunningIsHeld
    BY <1>2, <1>6 DEF HandlersHoldRows, RunningIsHeld
  <1>. QED  BY <1>2, <1>6, <1>7, <1>8, <1>9, <1>10, InvariantByRow

LEMMA StepKeeps == WorkerInvariant /\ [Next]_vars => WorkerInvariant'
  <1>. SUFFICES ASSUME WorkerInvariant, [Next]_vars PROVE WorkerInvariant'
    OBVIOUS
  <1>1. ASSUME NEW ts \in Transactions, Enqueue(ts) PROVE WorkerInvariant'
    BY <1>1, EnqueueKeeps
  <1>2. ASSUME NEW l \in Lanes, Claim(l) PROVE WorkerInvariant'
    BY <1>2, ClaimKeeps
  <1>3. ASSUME NEW j \in Jobs, Due(j) \/ Timeout(j) \/ HandlerEnds(j) \/ Purge(j)
        PROVE  WorkerInvariant'
    BY <1>3, DueKeeps, SignalsKeep, HandlerEndsKeeps, PurgeKeeps
  <1>4. CASE ClearMemory \/ Stop \/ Crash \/ Restart
    BY <1>4, ClearMemoryKeeps, SignalsKeep, CrashKeeps, RestartKeeps
  <1>5. CASE UNCHANGED vars
    BY <1>5 DEF vars, WorkerInvariant, TypeOK, RowsComeInOrder, Rows, HandlersHoldRows,
       RunningIsHeld, LanesHaveRoom, ActiveIn, PendingHasAttempt, AttemptsHonoured
  <1>. QED  BY <1>1, <1>2, <1>3, <1>4, <1>5 DEF Next

-------------------------------------------------------------------------------

\* The slots, the rows and the handlers agree in every reachable state.
THEOREM WorkerInvariantHolds == Spec => []WorkerInvariant
  <1>. QED  BY InitKeeps, StepKeeps, PTL DEF Spec

\* Types of the variables, in every reachable state.
THEOREM TypeCorrect == Spec => []TypeOK
  <1>1. WorkerInvariant => TypeOK  BY DEF WorkerInvariant
  <1>. QED  BY <1>1, WorkerInvariantHolds, PTL

\* executeWithContract() detaches no handler: whatever its timer, its retries
\* or stop() did, a job runs once at a time, and a lane no more than its limit.
THEOREM NeverOverlaps == Spec => []NoOverlap
  <1>1. WorkerInvariant => NoOverlap
    <2>. SUFFICES ASSUME WorkerInvariant PROVE NoOverlap
      OBVIOUS
    <2>1. /\ \A j \in Jobs : runs[j] = IF j \in active THEN 1 ELSE 0
          /\ active \subseteq Jobs
      BY DEF WorkerInvariant, HandlersHoldRows, TypeOK
    <2>2. \A l \in Lanes :
            {j \in Jobs : runs[j] > 0 /\ LaneOf[job[j].type] = l} = ActiveIn(l)
      BY <2>1 DEF ActiveIn
    <2>3. \A j \in Jobs : runs[j] <= 1  BY <2>1
    <2>4. \A l \in Lanes :
            Cardinality({j \in Jobs : runs[j] > 0 /\ LaneOf[job[j].type] = l})
              <= Concurrency[l]
      <3>1. LanesHaveRoom  BY DEF WorkerInvariant
      <3>. QED  BY <2>2, <3>1 DEF LanesHaveRoom
    <2>. QED  BY <2>3, <2>4, Zenon DEF NoOverlap
  <1>. QED  BY <1>1, WorkerInvariantHolds, PTL

\* A row a live process has claimed is under way in one of its slots, so that
\* recovery at boot is enough.
THEOREM NoClaimLost == Spec => []RunningIsHeld
  <1>1. WorkerInvariant => RunningIsHeld  BY DEF WorkerInvariant
  <1>. QED  BY <1>1, WorkerInvariantHolds, PTL

\* fail() gives a job up when its attempts are spent, and only deaths of the
\* process add to them.
THEOREM AttemptsAreHonoured == Spec => []AttemptsHonoured
  <1>1. WorkerInvariant => AttemptsHonoured  BY DEF WorkerInvariant
  <1>. QED  BY <1>1, WorkerInvariantHolds, PTL

\* A claim is one invocation that is held to its end and counted once.
THEOREM ClaimsStayKept == Spec => []ClaimsAreKept
  BY NeverOverlaps, NoClaimLost, AttemptsAreHonoured, PTL DEF ClaimsAreKept

\* What is done or failed is never claimed again, not even by recoverStuck():
\* a handler that ends late finds its row running or deleted.
THEOREM SettledForGood == Spec => SettledStaysSettled
  <1>. DEFINE Kept(j) == job[j].status \in {"done", "failed", "gone"}
                           => job'[j].status \in {job[j].status, "gone"}
  <1>1. WorkerInvariant /\ [Next]_vars => [\A j \in Jobs : Kept(j)]_vars
    <2>. SUFFICES ASSUME WorkerInvariant, Next, NEW j \in Jobs,
                         job[j].status \in {"done", "failed", "gone"}
                  PROVE  job'[j].status \in {job[j].status, "gone"}
      OBVIOUS
    <2>1. job \in [Jobs -> RowType] /\ job[j] \in RowType
      BY DEF WorkerInvariant, TypeOK
    <2>2. ASSUME NEW ts \in Transactions, Enqueue(ts)
          PROVE  job'[j].status \in {job[j].status, "gone"}
      <3>1. PICK m \in 0 .. MaxJobs : Rows = 1 .. m
        BY DEF WorkerInvariant, RowsComeInOrder
      <3>2. Cardinality(1 .. m) = m  BY Known, FS_Interval
      <3>3. j \notin m + 1 .. m + Len(ts)  BY <3>1 DEF Rows
      <3>. QED  BY <2>2, <3>1, <3>2, <3>3 DEF Enqueue
    <2>3. ASSUME NEW l \in Lanes, Claim(l)
          PROVE  job'[j].status \in {job[j].status, "gone"}
      BY <2>1, <2>3 DEF Claim, IsNext, Claimable
    <2>4. ASSUME NEW k \in Jobs, Due(k) \/ Timeout(k) \/ Purge(k)
          PROVE  job'[j].status \in {job[j].status, "gone"}
      BY <2>1, <2>4 DEF Due, Timeout, Purge, RowType
    <2>5. ASSUME NEW k \in Jobs, HandlerEnds(k)
          PROVE  job'[j].status \in {job[j].status, "gone"}
      <3>1. /\ job[k].status \in {"running", "gone"}
            /\ \E r : Settle(k, r)
        BY <2>5 DEF HandlerEnds, HandlerReturns, HandlerThrows, CanEnd,
           WorkerInvariant, HandlersHoldRows
      <3>. QED  BY <2>1, <3>1 DEF Settle
    <2>6. CASE ClearMemory
      BY <2>1, <2>6 DEF ClearMemory, RowType
    <2>7. CASE Stop \/ Crash
      BY <2>7 DEF Stop, Crash
    <2>8. CASE Restart
      BY <2>1, <2>8 DEF Restart, Recovered
    <2>. QED  BY <2>2, <2>3, <2>4, <2>5, <2>6, <2>7, <2>8 DEF Next
  <1>2. [][\A j \in Jobs : Kept(j)]_vars => SettledStaysSettled
    BY DEF SettledStaysSettled
  <1>. QED  BY <1>1, <1>2, WorkerInvariantHolds, PTL DEF Spec

(***************************************************************************)
(* The jobs of a turn.                                                     *)
(***************************************************************************)
\* How a statement may change a row that is there: it keeps its place, its
\* attempts are not taken back, and a first attempt is not put off.
Waited(r) == r.status \in {"done", "failed", "gone"} \/ r.attempts > 0

FirstTry(r) == r.status = "pending" /\ r.attempts = 0

Advances(r, s) ==
  /\ s.type = r.type /\ s.born = r.born
  /\ s.status = "none" <=> r.status = "none"
  /\ Waited(r) => Waited(s)
  /\ (r.status = "running" => r.attempts > 0) => (s.status = "running" => s.attempts > 0)
  /\ FirstTry(s) => FirstTry(r) /\ (s.delayed => r.delayed)

LEMMA RowStaysPut ==
  ASSUME NEW r \in RowType
  PROVE  Advances(r, r)
  BY DEF Advances

LEMMA RowIsClaimed ==
  ASSUME NEW r \in RowType, r.status = "pending"
  PROVE  Advances(r, [r EXCEPT !.status = "running", !.attempts = @ + 1])
  <1>. DEFINE s == [r EXCEPT !.status = "running", !.attempts = @ + 1]
  <1>1. /\ s.type = r.type /\ s.born = r.born /\ s.status = "running"
        /\ s.attempts = r.attempts + 1 /\ r.attempts \in Nat
    BY DEF RowType
  <1>. HIDE DEF s
  <1>. QED  BY <1>1 DEF Advances, Waited, FirstTry

LEMMA RowIsSettled ==
  ASSUME NEW r \in RowType, r.status = "running", r.attempts > 0
  PROVE  /\ Advances(r, [r EXCEPT !.status = "done"])
         /\ Advances(r, AfterFailure(r))
  <1>1. Advances(r, [r EXCEPT !.status = "done"])
    BY DEF Advances, Waited, FirstTry, RowType
  <1>2. /\ AfterFailure(r).type = r.type /\ AfterFailure(r).born = r.born
        /\ AfterFailure(r).status \in {"pending", "failed"}
        /\ AfterFailure(r).attempts = r.attempts
    BY DEF AfterFailure, RowType
  <1>. QED  BY <1>1, <1>2 DEF Advances, Waited, FirstTry, RowType

LEMMA RowIsDeleted ==
  ASSUME NEW r \in RowType, r.status # "none"
  PROVE  Advances(r, [r EXCEPT !.status = "gone"])
  BY DEF Advances, Waited, FirstTry, RowType

LEMMA RowIsDue ==
  ASSUME NEW r \in RowType
  PROVE  Advances(r, [r EXCEPT !.delayed = FALSE])
  BY DEF Advances, Waited, FirstTry, RowType

LEMMA RowIsRecovered ==
  ASSUME NEW r \in RowType, r.status = "running" => r.attempts > 0
  PROVE  Advances(r, Recovered(r))
  BY DEF Advances, Waited, FirstTry, RowType, Recovered

\* What the invariant asks of the row numbered j.
TurnRow(j, r) ==
  r.status # "none" =>
    /\ r.born <= j
    /\ r.status = "running" => r.attempts > 0
    /\ r.type = "memory.extract" /\ FirstTry(r) => ~r.delayed

LEMMA TurnByRow ==
  TurnInvariant <=> (\A j \in Jobs : TurnRow(j, job[j])) /\ ExtractionGoesFirst
  BY DEF TurnInvariant, TurnRow, FirstTry, Rows

LEMMA WaitedMeansSettled ==
  \A k \in Jobs : Waited(job[k]) <=> Settled(k) \/ job[k].attempts > 0
  BY DEF Waited, Settled

LEMMA AdvanceKeepsRow ==
  ASSUME NEW j, NEW r, NEW s, Advances(r, s), TurnRow(j, r), s.delayed \in BOOLEAN
  PROVE  TurnRow(j, s)
  BY DEF Advances, TurnRow, FirstTry

\* Rows advance and no slot is taken.
LEMMA NobodyStarts ==
  ASSUME WorkerInvariant, TurnInvariant, WorkerInvariant',
         \A j \in Jobs : Advances(job[j], job'[j]),
         active' \subseteq active
  PROVE  TurnInvariant'
  <1>1. /\ \A j \in Jobs : job'[j].delayed \in BOOLEAN
        /\ \A j \in active : j \in Jobs
    BY DEF WorkerInvariant, TypeOK, RowType
  <1>2. \A j \in Jobs : TurnRow(j, job'[j])
    BY <1>1, TurnByRow, AdvanceKeepsRow
  <1>3. ASSUME NEW j \in active', NEW k \in Jobs, job'[k].status # "none",
               job'[j].type = "future.analyze", job'[k].type = "memory.extract",
               job'[k].born <= job'[j].born
        PROVE  Waited(job'[k])
    <2>1. j \in active /\ j \in Jobs  BY <1>1
    <2>2. /\ job[j].type = "future.analyze" /\ job[k].type = "memory.extract"
          /\ job[k].born <= job[j].born /\ job[k].status # "none"
      BY <1>3, <2>1 DEF Advances
    <2>3. Waited(job[k])
      BY <2>1, <2>2 DEF TurnInvariant, ExtractionGoesFirst, Waited, Settled, Rows
    <2>. QED  BY <2>3 DEF Advances
  <1>4. ExtractionGoesFirst'
    BY <1>3 DEF ExtractionGoesFirst, Waited, Settled, Rows
  <1>. QED  BY <1>2, <1>4 DEF TurnInvariant, TurnRow, FirstTry, Rows

\* Of the rows of one lane that may be claimed, an extraction comes first.
LEMMA ClaimKeepsTurn ==
  ASSUME WorkerInvariant, TurnInvariant, WorkerInvariant', NEW l \in Lanes, Claim(l)
  PROVE  TurnInvariant'
  <1>1. PICK k \in Jobs :
          /\ IsNext(l, k)
          /\ job' = [job EXCEPT ![k].status = "running", ![k].attempts = @ + 1]
          /\ active' = active \cup {k}
    BY Zenon DEF Claim
  <1>. DEFINE r == [job[k] EXCEPT !.status = "running", !.attempts = @ + 1]
  <1>2. job \in [Jobs -> RowType] /\ job[k] \in RowType /\ \A j \in active : j \in Jobs
    BY DEF WorkerInvariant, TypeOK
  <1>3. job[k].status = "pending" /\ job[k].type \in LaneTypes(l)
    BY <1>1 DEF IsNext, Claimable, LaneTypes
  <1>4. Advances(job[k], r) /\ r.type = job[k].type /\ r.born = job[k].born
    BY <1>2, <1>3, RowIsClaimed DEF Advances
  <1>5. \A j \in Jobs : job'[j] = IF j = k THEN r ELSE job[j]
    <2>1. job' = [job EXCEPT ![k] = r]  BY <1>1, <1>2
    <2>. HIDE DEF r
    <2>. QED  BY <1>2, <2>1
  <1>. HIDE DEF r
  <1>6. \A j \in Jobs : Advances(job[j], job'[j])
    BY <1>2, <1>4, <1>5, RowStaysPut
  <1>7. \A j \in Jobs : TurnRow(j, job'[j])
    <2>1. \A j \in Jobs : job'[j].delayed \in BOOLEAN
      BY DEF WorkerInvariant, TypeOK, RowType
    <2>. QED  BY <1>6, <2>1, TurnByRow, AdvanceKeepsRow
  <1>8. ASSUME NEW e \in Jobs, job[e].status # "none", job[e].type = "memory.extract",
               job[k].type = "future.analyze", ~Waited(job[e])
        PROVE  FALSE
    <2>1. job[e] \in RowType  BY <1>2
    <2>2. job[e].attempts = 0  BY <1>8, <2>1 DEF Waited, RowType
    <2>3. TurnRow(e, job[e])  BY TurnByRow
    <2>4. job[e].status = "pending" /\ ~job[e].delayed
      <3>1. job[e].status \in {"pending", "running"}
        BY <1>8, <2>1 DEF Waited, RowType, Statuses
      <3>2. job[e].status # "running"  BY <1>8, <2>2, <2>3 DEF TurnRow
      <3>. QED  BY <1>8, <2>2, <2>3, <3>1, <3>2 DEF TurnRow, FirstTry
    <2>5. "memory.extract" \in LaneTypes(l)
      BY <1>3, <1>8, TurnJobs DEF LaneTypes
    <2>6. e \in Claimable(l)  BY <1>8, <2>4, <2>5 DEF Claimable, Rows
    <2>7. Before(e, k)  BY <1>8, TurnJobs DEF Before
    <2>. QED  BY <1>1, <2>6, <2>7 DEF IsNext
  <1>9. ASSUME NEW j \in active', NEW e \in Jobs, job'[e].status # "none",
               job'[j].type = "future.analyze", job'[e].type = "memory.extract",
               job'[e].born <= job'[j].born
        PROVE  Waited(job'[e])
    <2>1. j \in Jobs  BY <1>1, <1>2
    <2>2. /\ job[j].type = "future.analyze" /\ job[e].type = "memory.extract"
          /\ job[e].born <= job[j].born /\ job[e].status # "none"
      BY <1>6, <1>9, <2>1 DEF Advances
    <2>3. CASE j = k
      <3>1. Waited(job[e])  BY <1>8, <2>2, <2>3
      <3>. QED  BY <1>6, <3>1 DEF Advances
    <2>4. CASE j # k
      <3>1. j \in active  BY <1>1, <2>4
      <3>2. Waited(job[e])
        BY <2>2, <3>1 DEF TurnInvariant, ExtractionGoesFirst, Waited, Settled, Rows
      <3>. QED  BY <1>6, <3>2 DEF Advances
    <2>. QED  BY <2>3, <2>4
  <1>10. ExtractionGoesFirst'
    BY <1>9 DEF ExtractionGoesFirst, Waited, Settled, Rows
  <1>. QED  BY <1>7, <1>10 DEF TurnInvariant, TurnRow, FirstTry, Rows

LEMMA ExtractionIsNotDelayed ==
  \A n : Pending("memory.extract", n).delayed = FALSE
  <1>1. ("memory.extract" \in Deferred) = FALSE  BY TurnJobs
  <1>. QED  BY <1>1, Zenon DEF Pending

\* The rows of a transaction are younger than those that are there.
LEMMA EnqueueKeepsTurn ==
  ASSUME WorkerInvariant, TurnInvariant, WorkerInvariant',
         NEW ts \in Transactions, Enqueue(ts)
  PROVE  TurnInvariant'
  <1>. DEFINE n == Cardinality(Rows)
              len == Len(ts)
  <1>1. len \in Nat /\ \A i \in 1 .. len : ts[i] \in Registered
    BY JobConstants DEF JobConstants
  <1>2. n \in Nat /\ Rows = 1 .. n
    <2>1. PICK m \in 0 .. MaxJobs : Rows = 1 .. m
      BY DEF WorkerInvariant, RowsComeInOrder
    <2>2. Cardinality(1 .. m) = m  BY Known, FS_Interval
    <2>. QED  BY <2>1, <2>2, Known
  <1>3. /\ UNCHANGED active
        /\ job' = [j \in Jobs |-> IF j \in n + 1 .. n + len
                                  THEN Pending(ts[j - n], n + 1) ELSE job[j]]
    BY DEF Enqueue
  <1>. DEFINE New(j) == j \in n + 1 .. n + len
  <1>4. \A j \in Jobs : New(j) =>
          /\ job'[j].status = "pending" /\ job'[j].born = n + 1
          /\ job'[j].type = "memory.extract" => ~job'[j].delayed
          /\ j \notin Rows /\ n + 1 <= j
    <2>. SUFFICES ASSUME NEW j \in Jobs, New(j)
                  PROVE  /\ job'[j].status = "pending" /\ job'[j].born = n + 1
                         /\ job'[j].type = "memory.extract" => ~job'[j].delayed
                         /\ j \notin Rows /\ n + 1 <= j
      OBVIOUS
    <2>1. job'[j] = Pending(ts[j - n], n + 1)  BY <1>3
    <2>2. /\ job'[j].status = "pending" /\ job'[j].born = n + 1
          /\ job'[j].type = "memory.extract" => ~job'[j].delayed
      <3>1. /\ Pending(ts[j - n], n + 1).status = "pending"
            /\ Pending(ts[j - n], n + 1).born = n + 1
            /\ Pending(ts[j - n], n + 1).type = ts[j - n]
        BY DEF Pending
      <3>2. ts[j - n] = "memory.extract" => ~Pending(ts[j - n], n + 1).delayed
        BY TurnJobs, ExtractionIsNotDelayed
      <3>. HIDE DEF n
      <3>. QED  BY <2>1, <3>1, <3>2
    <2>. HIDE DEF n, len
    <2>3. j \in Int /\ j >= n + 1  BY <1>1, <1>2
    <2>. QED  BY <1>2, <2>2, <2>3
  <1>5. \A j \in Jobs : ~New(j) => job'[j] = job[j]  BY <1>3
  <1>. HIDE DEF n, len, New
  <1>6. \A j \in active : j \in Jobs /\ j \in Rows
    BY DEF WorkerInvariant, TypeOK, HandlersHoldRows, Rows
  <1>7. \A j \in Jobs : TurnRow(j, job'[j])
    <2>. SUFFICES ASSUME NEW j \in Jobs PROVE TurnRow(j, job'[j])
      OBVIOUS
    <2>1. CASE New(j)  BY <1>4, <2>1 DEF TurnRow
    <2>2. CASE ~New(j)  BY <1>5, <2>2, TurnByRow
    <2>. QED  BY <2>1, <2>2
  <1>8. ASSUME NEW j \in active, NEW k \in Jobs, job'[k].status # "none",
               job'[j].type = "future.analyze", job'[k].type = "memory.extract",
               job'[k].born <= job'[j].born
        PROVE  Waited(job'[k])
    <2>1. j \in Jobs /\ j \in Rows /\ job'[j] = job[j]  BY <1>4, <1>5, <1>6
    <2>2. j <= n /\ j \in Int  BY <1>2, <2>1
    <2>3. job[j].born <= j /\ job[j].born \in Int
      BY <2>1 DEF TurnInvariant, WorkerInvariant, TypeOK, RowType
    <2>4. ~New(k)
      <3>. SUFFICES ASSUME New(k) PROVE FALSE
        OBVIOUS
      <3>1. job'[k].born = n + 1  BY <1>4
      <3>. QED  BY <1>2, <1>8, <2>1, <2>2, <2>3, <3>1
    <2>5. job'[k] = job[k]  BY <1>5, <2>4
    <2>. QED
      BY <1>8, <2>1, <2>5 DEF TurnInvariant, ExtractionGoesFirst, Waited, Settled, Rows
  <1>9. ExtractionGoesFirst'
    BY <1>3, <1>8 DEF ExtractionGoesFirst, Waited, Settled, Rows
  <1>. QED  BY <1>7, <1>9 DEF TurnInvariant, TurnRow, FirstTry, Rows

LEMMA RowsAdvance ==
  ASSUME WorkerInvariant, TurnInvariant,
         \/ \E j \in Jobs : Due(j) \/ Timeout(j) \/ HandlerEnds(j) \/ Purge(j)
         \/ ClearMemory \/ Stop \/ Crash \/ Restart \/ UNCHANGED vars
  PROVE  (\A j \in Jobs : Advances(job[j], job'[j])) /\ active' \subseteq active
  <1>1. /\ job \in [Jobs -> RowType]
        /\ \A j \in Jobs : job[j] \in RowType /\ Advances(job[j], job[j])
        /\ \A j \in Jobs : job[j].status = "running" => job[j].attempts > 0
    BY RowStaysPut DEF WorkerInvariant, TypeOK, TurnInvariant, Rows
  <1>2. ASSUME NEW k \in Jobs, NEW s, job' = [job EXCEPT ![k] = s], Advances(job[k], s)
        PROVE  \A j \in Jobs : Advances(job[j], job'[j])
    BY <1>1, <1>2
  <1>3. ASSUME NEW k \in Jobs, Due(k)
        PROVE  (\A j \in Jobs : Advances(job[j], job'[j])) /\ active' \subseteq active
    <2>. DEFINE s == [job[k] EXCEPT !.delayed = FALSE]
    <2>1. job' = [job EXCEPT ![k] = s] /\ active' = active  BY <1>3, Zenon DEF Due
    <2>2. Advances(job[k], s)  BY <1>1, RowIsDue
    <2>. HIDE DEF s
    <2>. QED  BY <1>2, <2>1, <2>2
  <1>4. ASSUME NEW k \in Jobs, Purge(k)
        PROVE  (\A j \in Jobs : Advances(job[j], job'[j])) /\ active' \subseteq active
    <2>. DEFINE s == [job[k] EXCEPT !.status = "gone"]
    <2>1. job' = [job EXCEPT ![k] = s] /\ active' = active  BY <1>4, Zenon DEF Purge
    <2>2. Advances(job[k], s)  BY <1>1, <1>4, RowIsDeleted DEF Purge
    <2>. HIDE DEF s
    <2>. QED  BY <1>2, <2>1, <2>2
  <1>6. ASSUME NEW k \in Jobs, HandlerEnds(k)
        PROVE  (\A j \in Jobs : Advances(job[j], job'[j])) /\ active' \subseteq active
    <2>. DEFINE done == [job[k] EXCEPT !.status = "done"]
    <2>1. k \in active /\ active' \subseteq active
      BY <1>6 DEF HandlerEnds, HandlerReturns, HandlerThrows, CanEnd, Leave
    <2>2. \/ job[k].status = "gone" /\ job' = job
          \/ /\ job[k].status = "running"
             /\ \/ job' = [job EXCEPT ![k] = done]
                \/ job' = [job EXCEPT ![k] = AfterFailure(job[k])]
      BY <1>6, <2>1 DEF HandlerEnds, HandlerReturns, HandlerThrows, Settle,
         WorkerInvariant, HandlersHoldRows
    <2>3. job[k].status = "running" =>
            Advances(job[k], done) /\ Advances(job[k], AfterFailure(job[k]))
      BY <1>1, RowIsSettled
    <2>. HIDE DEF done
    <2>. QED  BY <1>1, <1>2, <2>1, <2>2, <2>3
  <1>7. CASE ClearMemory
    <2>1. \A j \in Jobs :
            \/ job'[j] = job[j]
            \/ job[j].status # "none" /\ job'[j] = [job[j] EXCEPT !.status = "gone"]
      BY <1>7 DEF ClearMemory, Rows
    <2>2. active' = active  BY <1>7 DEF ClearMemory
    <2>. QED  BY <1>1, <2>1, <2>2, RowIsDeleted
  <1>8. CASE Restart
    <2>1. active' = active /\ \A j \in Jobs : job'[j] = Recovered(job[j])
      BY <1>8 DEF Restart
    <2>. QED  BY <1>1, <2>1, RowIsRecovered
  <1>9. CASE Stop \/ Crash \/ UNCHANGED vars \/ \E k \in Jobs : Timeout(k)
    BY <1>1, <1>9 DEF Stop, Crash, vars, Timeout
  <1>. QED  BY <1>3, <1>4, <1>6, <1>7, <1>8, <1>9

\* An analyzer that is claimed leaves no extraction waiting behind it for a
\* first attempt: neither that of its own turn nor one of an earlier turn.
THEOREM AnalyzerWaitsForExtraction == Spec => []ExtractionGoesFirst
  <1>1. Init => TurnInvariant
    <2>. SUFFICES ASSUME Init PROVE TurnInvariant
      OBVIOUS
    <2>1. active = {}  BY DEF Init
    <2>2. PICK first \in {NoJob} \cup {Pending(t, 1) : t \in Types \ Registered} :
            job = [j \in Jobs |-> IF j = 1 THEN first ELSE NoJob]
      BY DEF Init
    <2>3. /\ NoJob.status = "none"
          /\ first.status = "none" \/
             (first.status = "pending" /\ first.born = 1 /\ first.type # "memory.extract")
      BY <2>2, TurnJobs DEF NoJob, Pending
    <2>4. \A j \in Jobs : TurnRow(j, job[j])
      BY <2>2, <2>3 DEF TurnRow
    <2>. QED  BY <2>1, <2>4, TurnByRow DEF ExtractionGoesFirst
  <1>2. WorkerInvariant /\ WorkerInvariant' /\ TurnInvariant /\ [Next]_vars => TurnInvariant'
    <2>. SUFFICES ASSUME WorkerInvariant, WorkerInvariant', TurnInvariant, [Next]_vars
                  PROVE  TurnInvariant'
      OBVIOUS
    <2>1. ASSUME NEW ts \in Transactions, Enqueue(ts) PROVE TurnInvariant'
      BY <2>1, EnqueueKeepsTurn
    <2>2. ASSUME NEW l \in Lanes, Claim(l) PROVE TurnInvariant'
      BY <2>2, ClaimKeepsTurn
    <2>3. ASSUME \/ \E j \in Jobs : Due(j) \/ Timeout(j) \/ HandlerEnds(j) \/ Purge(j)
                 \/ ClearMemory \/ Stop \/ Crash \/ Restart \/ UNCHANGED vars
          PROVE  TurnInvariant'
      BY <2>3, RowsAdvance, NobodyStarts
    <2>. QED  BY <2>1, <2>2, <2>3 DEF Next
  <1>3. TurnInvariant => ExtractionGoesFirst  BY DEF TurnInvariant
  <1>. QED  BY <1>1, <1>2, <1>3, WorkerInvariantHolds, PTL DEF Spec
===============================================================================
