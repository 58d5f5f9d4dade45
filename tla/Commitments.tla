----------------------------- MODULE Commitments -----------------------------
(***************************************************************************)
(* What the user has planned: FutureService and CommitmentRepo, the job     *)
(* future.analyze, the time-driven transitions of the maintenance job and   *)
(* the admin routes.                                                       *)
(*                                                                         *)
(* The analyzer reads the live rows, waits for the model, and then applies *)
(* what the model said of the rows it had read; the maintenance job and    *)
(* the admin may have changed them meanwhile.  Each row is written in a    *)
(* transaction of its own, and the receipt of the message last.            *)
(*                                                                         *)
(* Titles are compared by meaning: a topic stands for the titles that      *)
(* match.  Two dates of one topic are near enough to match, or too far     *)
(* apart: a plan and its rescheduled successor may be either.  A row may    *)
(* have the time it starts, the time it is due, both or neither, and each  *)
(* of them comes when its clock does.                                      *)
(***************************************************************************)
EXTENDS Naturals, Sequences

CONSTANTS
  NMessages,       \* user messages to analyze, in the order they arrive
  Topics,          \* what a commitment is about
  Mentions,        \* what a message may be read to say of a plan
  MaxNoted,        \* bound: rows up to which a mention adds one
  MaxRows,         \* bound: rows of commitments, rescheduled ones included
  MaxTries,        \* attempts of the job future.analyze
  MaxIncarnations  \* bound: incarnations of the process (crashes + 1)

Messages == 1 .. NMessages
Promises == {"assistant_commitment", "reminder_request"}
Kinds == Promises \cup {"user_event", "shared_plan", "follow_up"}

\* Firm: certain enough to be pending.  Reminds: with an explicit reminder.
ASSUME CommitmentConstants ==
  /\ Mentions \subseteq
       [topic : Topics, kind : Kinds, dated : BOOLEAN, firm : BOOLEAN, reminds : BOOLEAN]
  /\ NMessages \in Nat /\ MaxRows \in Nat /\ MaxNoted \in 0 .. MaxRows
  /\ MaxTries \in Nat \ {0} /\ MaxIncarnations \in Nat \ {0}

VARIABLES
  rows,        \* durable: commitments, oldest first
  runs,        \* durable: commitment_extraction_runs of each message
  job,         \* durable: the job of each message
  tries,       \* durable: its attempts
  view,        \* the live rows that the running analysis has read
  interrupted, \* history: messages whose analysis a crash cut short
  incarnation

commitmentVars == <<rows, runs, job, tries, view, interrupted, incarnation>>

Ids == DOMAIN rows

LiveStatuses == {"tentative", "pending", "due"}
Statuses == LiveStatuses \cup {"completed", "cancelled", "missed", "expired",
                               "superseded", "deleted"}

\* COMMITMENT_TRANSITIONS.
Transitions ==
  [tentative |-> {"pending", "completed", "cancelled", "expired", "superseded"},
   pending   |-> {"due", "completed", "cancelled", "missed", "superseded"},
   due       |-> {"completed", "cancelled", "missed", "superseded"}]

MayMove(r, status) == r.status \in LiveStatuses /\ status \in Transitions[r.status]

\* What has become of starts_at and of due_at: grace is the end of the days of
\* grace after due_at, and past due is past latest_reach_out_at too.
Starts == {"none", "ahead", "past"}
Dues == Starts \cup {"grace"}

Live(r) == r.status \in LiveStatuses /\ ~r.archived
Exists(r) == r.status # "deleted"

\* Nobody looks at the rest of a row that is deleted or superseded.
Past(r, status) ==
  [r EXCEPT !.status = status, !.starts = "none", !.due = "none", !.latest = FALSE,
            !.inOrder = TRUE, !.reminds = FALSE, !.archived = TRUE]

Dated(r) == r.starts # "none" \/ r.due # "none"

\* latest_reach_out_at, or the due date of what she promised herself.
HasDeadline(r) ==
  /\ r.reminds \/ r.kind \in Promises
  /\ r.latest \/ (r.kind = "assistant_commitment" /\ r.due # "none")

CommitmentsInit ==
  /\ rows = <<>>
  /\ runs = [m \in Messages |-> "none"]
  /\ job = [m \in Messages |-> "none"] /\ tries = [m \in Messages |-> 0]
  /\ view = {} /\ interrupted = {}
  /\ incarnation = 1

analysis == <<runs, job, tries, view, interrupted>>

-------------------------------------------------------------------------------
(***************************************************************************)
(* CommitmentRepo: the rows after each of its writes.                      *)
(***************************************************************************)
\* A promise without a date is degraded to a follow-up.
NewRow(n) ==
  LET degraded == n.kind \in Promises /\ ~n.dated
      reminds == ~degraded /\ (n.kind = "reminder_request" \/ n.reminds)
      when == IF n.dated THEN "ahead" ELSE "none"
  IN [topic |-> n.topic, kind |-> IF degraded THEN "follow_up" ELSE n.kind,
      reminds |-> reminds, starts |-> when, due |-> when, inOrder |-> TRUE,
      latest |-> n.dated /\ (reminds \/ n.kind = "assistant_commitment"),
      status |-> IF n.firm THEN "pending" ELSE "tentative",
      archived |-> FALSE, prev |-> 0, next |-> 0]

\* ingest(): a live row of the same meaning is reinforced, not repeated.
Matching(new) ==
  {i \in Ids : /\ Live(rows[i]) /\ rows[i].topic = new.topic /\ rows[i].kind = new.kind
               /\ Dated(rows[i]) = Dated(new)}

Ingested(new) ==
  {rows : i \in Matching(new)} \cup
  IF Len(rows) < MaxNoted /\ (Dated(new) \/ Matching(new) = {})
    THEN {Append(rows, new)} ELSE {}

\* resolve(): refused unless the table allows the move.
Resolved(rs, i, status) == [rs EXCEPT ![i].status = status]

\* supersede(): refused only for a row that has a successor.
CanSupersede_Exists(rs, i) == Exists(rs[i])
CanSupersede(rs, i) ==
  Exists(rs[i]) /\ rs[i].status # "superseded" /\ rs[i].next = 0

Superseded_Unlinked(rs, i, new) ==
  Append([rs EXCEPT ![i] = Past(@, "superseded")], [new EXCEPT !.prev = i])
Superseded(rs, i, new) ==
  Append([rs EXCEPT ![i] = [Past(@, "superseded") EXCEPT !.next = Len(rs) + 1]],
         [new EXCEPT !.prev = i])

\* applyTimeDrivenTransitions(): four updates, in this order.
Promoted(r) ==
  IF /\ r.status = "pending" /\ ~r.archived
     /\ r.starts = "past" \/ (r.starts = "none" /\ r.due \in {"past", "grace"})
    THEN [r EXCEPT !.status = "due"] ELSE r

Missed_DueOnly(r) ==
  IF r.status = "due" /\ ~r.archived /\ HasDeadline(r) /\ r.due = "past"
    THEN [r EXCEPT !.status = "missed"] ELSE r
Missed(r) ==
  IF /\ r.status \in {"pending", "due"} /\ ~r.archived
     /\ HasDeadline(r) /\ r.due \in {"past", "grace"}
    THEN [r EXCEPT !.status = "missed"] ELSE r

Expired(r) ==
  IF r.status = "tentative" /\ ~r.archived /\ r.due = "grace"
    THEN [r EXCEPT !.status = "expired"] ELSE r

Archived_MissedOnly(r) == r
Archived(r) ==
  IF r.status \in {"pending", "due"} /\ ~r.archived /\ r.due = "grace"
    THEN [r EXCEPT !.archived = TRUE] ELSE r

Transitioned(r) == Archived(Expired(Missed(Promoted(r))))

-------------------------------------------------------------------------------
(***************************************************************************)
(* future.analyze.  The jobs of the lane run one after the other.          *)
(***************************************************************************)
Running(m) == job[m] = "running"

Say(m) ==
  /\ job[m] = "none" /\ \A n \in 1 .. m - 1 : job[n] # "none"
  /\ job' = [job EXCEPT ![m] = "pending"]
  /\ UNCHANGED <<rows, runs, tries, view, interrupted, incarnation>>

Take(m) ==
  /\ job[m] = "pending"
  /\ \A n \in Messages : job[n] # "running"
  /\ tries' = [tries EXCEPT ![m] = @ + 1]

MayClaim(m) == runs[m] \in {"none", "stale"}

\* claimExtraction(): one lease, kept for fifteen minutes.
Claim(m) ==
  /\ Take(m) /\ MayClaim(m)
  /\ runs' = [runs EXCEPT ![m] = "claimed"]
  /\ job' = [job EXCEPT ![m] = "running"]
  /\ view' = {i \in Ids : Live(rows[i])}
  /\ UNCHANGED <<rows, interrupted, incarnation>>

\* Another lease, or the receipt: nothing to do.
Skip(m) ==
  /\ Take(m) /\ ~MayClaim(m)
  /\ job' = [job EXCEPT ![m] = "done"]
  /\ UNCHANGED <<rows, runs, view, interrupted, incarnation>>

\* What the model says of a row it was shown.
Said == [of : view, action : {"completed", "cancelled", "rescheduled"}]

AfterMention == {rows} \cup UNION {Ingested(NewRow(n)) : n \in Mentions}

\* The successor of a row is pending, with the dates it is given.
Successor(r, starts, due) ==
  [r EXCEPT !.status = "pending", !.archived = FALSE, !.prev = 0, !.next = 0,
            !.starts = starts, !.due = due]

\* The analyzer resolves both dates and the latest one to reach out, or none.
Moved(r) == [Successor(r, "ahead", "ahead") EXCEPT !.latest = TRUE, !.inOrder = TRUE]

\* The row is as it was when the analysis began, or as the admin or the clock
\* left it: then resolve() and supersede() throw.
Refuses(rs, s) ==
  IF s.action = "rescheduled" THEN ~CanSupersede(rs, s.of) ELSE ~MayMove(rs[s.of], s.action)

Told(rs, s) ==
  IF s.action = "rescheduled" THEN Superseded(rs, s.of, Moved(rs[s.of]))
  ELSE Resolved(rs, s.of, s.action)

MayBeTold(rs, s) ==
  ~Refuses(rs, s) /\ (s.action = "rescheduled" => Len(rs) < MaxRows)

\* A mention, then what is said of a row.  Bound: one of each.
AfterSaying ==
  {Told(x[1], x[2]) : x \in {y \in AfterMention \X Said : MayBeTold(y[1], y[2])}}
Written == AfterMention \cup AfterSaying

Finish(m, after) ==
  /\ rows' = after
  /\ runs' = [runs EXCEPT ![m] = "completed"]
  /\ job' = [job EXCEPT ![m] = "done"] /\ view' = {}

Released_Kept(m) == runs
Released(m) == [runs EXCEPT ![m] = "none"]

\* The lease is released and the job tried again, until its attempts are spent.
GiveBack(m) ==
  /\ runs' = Released(m) /\ view' = {}
  /\ job' = [job EXCEPT ![m] = IF tries[m] < MaxTries THEN "pending" ELSE "failed"]

\* analyzeAndApply() after the model has answered.  What is refused ends the
\* analysis, and what was written before stays.
Apply(m) ==
  /\ Running(m)
  /\ \E after \in Written :
       \/ Finish(m, after)
       \/ (\E s \in Said : Refuses(after, s)) /\ rows' = after /\ GiveBack(m)
  /\ UNCHANGED <<tries, interrupted, incarnation>>

\* The provider fails, or its output cannot be parsed.
AnalysisFails(m) ==
  /\ Running(m) /\ GiveBack(m)
  /\ UNCHANGED <<rows, tries, interrupted, incarnation>>

\* After fifteen minutes, which matters only to a job that waits.
LeaseGrowsStale(m) ==
  /\ runs[m] = "claimed" /\ job[m] = "pending"
  /\ runs' = [runs EXCEPT ![m] = "stale"]
  /\ UNCHANGED <<rows, job, tries, view, interrupted, incarnation>>

-------------------------------------------------------------------------------
(***************************************************************************)
(* Time, the maintenance job and the admin.                                *)
(***************************************************************************)
\* The clock matters to no row that has ended.
StartComes(r) ==
  IF r.starts = "ahead" THEN {[r EXCEPT !.starts = "past"]} ELSE {}

DueComes(r) ==
  IF r.inOrder /\ r.starts = "ahead" THEN {}
  ELSE {[r EXCEPT !.due = d] :
          d \in CASE r.due = "ahead" -> {"past"} [] r.due = "past" -> {"grace"} [] OTHER -> {}}

TimePasses(i) ==
  /\ i \in Ids /\ Live(rows[i])
  /\ \E r \in StartComes(rows[i]) \cup DueComes(rows[i]) : rows' = [rows EXCEPT ![i] = r]
  /\ UNCHANGED <<analysis, incarnation>>

TimeGoesOn == \E i \in Ids : TimePasses(i)

Tick ==
  /\ rows' = [i \in Ids |-> Transitioned(rows[i])]
  /\ UNCHANGED <<analysis, incarnation>>

AdminResolves(i, status) ==
  /\ MayMove(rows[i], status)
  /\ rows' = Resolved(rows, i, status)
  /\ UNCHANGED <<analysis, incarnation>>

AdminArchives(i) ==
  /\ Live(rows[i])
  /\ rows' = [rows EXCEPT ![i].archived = TRUE]
  /\ UNCHANGED <<analysis, incarnation>>

\* The route takes startsAt and dueAt each for itself, in any order, and keeps the
\* one that is not given; it passes no latestReachOutAt on, and does not look at
\* the status.
AdminReschedules(i) ==
  /\ CanSupersede(rows, i) /\ Len(rows) < MaxRows
  /\ \E starts \in {rows[i].starts, "ahead"}, due \in {rows[i].due, "ahead"} :
       rows' = Superseded(rows, i,
                 [Successor(rows[i], starts, due) EXCEPT !.latest = FALSE, !.inOrder = FALSE])
  /\ UNCHANGED <<analysis, incarnation>>

\* ON DELETE SET NULL on both ends of the chain.
AdminDeletes(i) ==
  /\ Exists(rows[i])
  /\ rows' = [j \in Ids |->
       IF j = i THEN [Past(rows[i], "deleted") EXCEPT !.prev = 0, !.next = 0]
       ELSE [rows[j] EXCEPT !.prev = IF @ = i THEN 0 ELSE @,
                            !.next = IF @ = i THEN 0 ELSE @]]
  /\ UNCHANGED <<analysis, incarnation>>

-------------------------------------------------------------------------------
\* The process dies and comes back: a job that was running is pending again.
\* A death with no analysis under way leaves everything as it was.
ProcessDies ==
  /\ incarnation < MaxIncarnations /\ incarnation' = incarnation + 1
  /\ view' = {}
  /\ job' = [m \in Messages |-> IF job[m] = "running" THEN "pending" ELSE job[m]]
  /\ interrupted' = interrupted \cup {m \in Messages : job[m] = "running"}
  /\ UNCHANGED <<runs, tries>>

CrashAnalyzing(m) == Running(m) /\ ProcessDies /\ UNCHANGED rows

\* Between the transactions of the rows and the receipt.
CrashApplying(m) ==
  /\ Running(m) /\ ProcessDies
  /\ rows' \in Written \ {rows}

Analyze(m) == Claim(m) \/ Skip(m) \/ AnalysisFails(m) \/ Apply(m)

Admin(i) ==
  \/ \E s \in {"completed", "cancelled"} : AdminResolves(i, s)
  \/ AdminArchives(i) \/ AdminReschedules(i) \/ AdminDeletes(i)

CommitmentsNext ==
  \/ \E m \in Messages : Say(m) \/ Analyze(m) \/ LeaseGrowsStale(m)
                      \/ CrashAnalyzing(m) \/ CrashApplying(m)
  \/ \E i \in Ids : Admin(i)
  \/ TimeGoesOn \/ Tick

CommitmentsSpec == CommitmentsInit /\ [][CommitmentsNext]_commitmentVars

\* Time goes on and the maintenance job recurs.  Nothing is asked of the analyzer.
FairCommitmentsSpec ==
  CommitmentsSpec /\ WF_commitmentVars(TimeGoesOn) /\ WF_commitmentVars(Tick)

-------------------------------------------------------------------------------
(***************************************************************************)
(* Properties                                                              *)
(***************************************************************************)
Row == [topic : Topics, kind : Kinds, reminds : BOOLEAN, starts : Starts, due : Dues,
        inOrder : BOOLEAN, latest : BOOLEAN, status : Statuses, archived : BOOLEAN,
        prev : Nat, next : Nat]

CommitmentsTypeOK ==
  /\ rows \in Seq(Row) /\ Len(rows) <= MaxRows
  /\ runs \in [Messages -> {"none", "claimed", "stale", "completed"}]
  /\ job \in [Messages -> {"none", "pending", "running", "done", "failed"}]
  /\ tries \in [Messages -> 0 .. MaxTries + MaxIncarnations]
  /\ view \subseteq Ids /\ interrupted \subseteq Messages
  /\ incarnation \in 1 .. MaxIncarnations

\* Reschedulings form chains that can be walked both ways, whatever is deleted
\* from them and however the analyzer and the admin meet: a row has one
\* predecessor and one successor, and only the last row of a chain is live.
HistoryIsKept ==
  \A i \in Ids :
    /\ rows[i].next # 0 =>
         /\ rows[i].next \in Ids /\ rows[rows[i].next].prev = i
         /\ rows[i].status = "superseded"
    /\ rows[i].prev # 0 =>
         rows[i].prev \in Ids /\ rows[rows[i].prev].next = i /\ rows[i].prev < i

\* The job of a message ends well only with its receipt: a failed attempt is
\* never taken for an analysis that found nothing.  Only an analysis that died
\* with the process may be skipped, while its lease is still fresh.
DoneMeansAnalyzed ==
  \A m \in Messages : job[m] = "done" => runs[m] = "completed" \/ m \in interrupted

\* applyTimeDrivenTransitions(): "an overdue reminder becomes `missed` rather
\* than being archived into silence", provided it still has its deadline.
NotSilenced ==
  [][Tick => \A i \in Ids :
       HasDeadline(rows[i]) => rows'[i].archived = rows[i].archived]_commitmentVars

\* A commitment with a due date does not stay open for ever, whoever moves it.
\* One that the admin gives a start and no due date becomes due and stays so.
EveryPlanEnds ==
  \A i \in 1 .. MaxRows :
    LET open == i \in Ids /\ Live(rows[i]) /\ rows[i].due # "none" IN open ~> ~open
===============================================================================
