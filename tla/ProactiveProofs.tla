---------------------------- MODULE ProactiveProofs ----------------------------
(***************************************************************************)
(* Commitments and Initiative: what the user has planned, and what she     *)
(* says of her own accord.  Each has an invariant of its own; Initiative   *)
(* knows a commitment only as one of its Plans.                            *)
(***************************************************************************)
EXTENDS TLAPS, SequenceTheorems, Commitments, Initiative

-------------------------------------------------------------------------------
(***************************************************************************)
(* Commitments.                                                            *)
(*                                                                         *)
(* For any messages, rows, attempts and crashes: the chains of             *)
(* reschedulings can be walked both ways, a job that is done has its       *)
(* receipt unless a crash cut its analysis short, and no deadline passes   *)
(* in silence.                                                             *)
(*                                                                         *)
(* The rows and the jobs are invariant for themselves: a write of the      *)
(* table keeps its chains whatever the job it belongs to does next.        *)
(***************************************************************************)

\* HistoryIsKept of any sequence of rows.
Chained(rs) ==
  \A i \in 1 .. Len(rs) :
    /\ rs[i].next # 0 =>
         /\ rs[i].next \in 1 .. Len(rs) /\ rs[rs[i].next].prev = i
         /\ rs[i].status = "superseded"
    /\ rs[i].prev # 0 =>
         rs[i].prev \in 1 .. Len(rs) /\ rs[rs[i].prev].next = i /\ rs[i].prev < i

Good(rs) == rs \in Seq(Row) /\ Len(rs) <= MaxRows /\ Chained(rs)

\* A waiting job has an attempt left or died with the process; one that runs
\* has the lease, and one that waits beside a fresh lease was interrupted.
GoodJob(m) ==
  /\ tries[m] <= MaxTries + incarnation - 1
  /\ job[m] = "none" => tries[m] = 0 /\ runs[m] = "none"
  /\ job[m] = "pending" => tries[m] <= MaxTries + incarnation - 2
  /\ job[m] = "running" => runs[m] = "claimed"
  /\ job[m] = "pending" /\ runs[m] = "claimed" => m \in interrupted
  /\ job[m] = "done" => runs[m] = "completed" \/ m \in interrupted

JobsInvariant ==
  /\ runs \in [Messages -> {"none", "claimed", "stale", "completed"}]
  /\ job \in [Messages -> {"none", "pending", "running", "done", "failed"}]
  /\ tries \in [Messages -> Nat]
  /\ interrupted \subseteq Messages /\ incarnation \in 1 .. MaxIncarnations
  /\ \A m \in Messages : GoodJob(m)

RowsInvariant == Good(rows) /\ view \subseteq Ids

CommitmentsInvariant == RowsInvariant /\ JobsInvariant

LEMMA CommitmentsFacts ==
  /\ NMessages \in Nat /\ MaxRows \in Nat /\ MaxNoted \in Nat /\ MaxNoted <= MaxRows
  /\ MaxTries \in Nat \ {0} /\ MaxIncarnations \in Nat \ {0}
  BY CommitmentConstants DEF CommitmentConstants

LEMMA CommitmentsGiveProperties ==
  CommitmentsInvariant => CommitmentsTypeOK /\ HistoryIsKept /\ DoneMeansAnalyzed
  <1>. SUFFICES ASSUME CommitmentsInvariant
                PROVE  CommitmentsTypeOK /\ HistoryIsKept /\ DoneMeansAnalyzed
    OBVIOUS
  <1>1. rows \in Seq(Row) /\ Len(rows) <= MaxRows /\ Ids = 1 .. Len(rows)
    BY DEF CommitmentsInvariant, RowsInvariant, Good, Ids
  <1>2. HistoryIsKept
    BY <1>1 DEF CommitmentsInvariant, RowsInvariant, Good, Chained, HistoryIsKept
  <1>3. DoneMeansAnalyzed
    BY DEF CommitmentsInvariant, JobsInvariant, GoodJob, DoneMeansAnalyzed
  <1>4. tries \in [Messages -> 0 .. MaxTries + MaxIncarnations]
    BY CommitmentsFacts DEF CommitmentsInvariant, JobsInvariant, GoodJob
  <1>. QED
    BY <1>1, <1>2, <1>3, <1>4
    DEF CommitmentsInvariant, RowsInvariant, JobsInvariant, GoodJob, CommitmentsTypeOK

LEMMA CommitmentsInitKeeps == CommitmentsInit => CommitmentsInvariant
  BY CommitmentsFacts
  DEF CommitmentsInit, CommitmentsInvariant, RowsInvariant, JobsInvariant, GoodJob,
      Good, Chained, Ids

-------------------------------------------------------------------------------
(***************************************************************************)
(* The writes of CommitmentRepo.                                           *)
(***************************************************************************)
LEMMA RowFields ==
  ASSUME NEW rs, Good(rs), NEW i \in 1 .. Len(rs)
  PROVE  /\ rs[i] \in Row /\ rs[i].next \in Nat /\ rs[i].prev \in Nat
         /\ rs[i].status \in Statuses
  <1>1. rs[i] \in Row  BY DEF Good
  <1>. QED  BY <1>1 DEF Row

\* Rows that keep their links, and stay superseded if they were.
LEMMA LinksKept ==
  ASSUME NEW rs, Good(rs), NEW after \in Seq(Row), Len(after) = Len(rs),
         \A i \in 1 .. Len(rs) :
           /\ after[i].prev = rs[i].prev /\ after[i].next = rs[i].next
           /\ rs[i].status = "superseded" => after[i].status = "superseded"
  PROVE  Good(after)
  BY RowFields DEF Good, Chained

LEMMA RowChanged ==
  ASSUME NEW rs, Good(rs), NEW i \in 1 .. Len(rs), NEW r \in Row,
         r.prev = rs[i].prev, r.next = rs[i].next, rs[i].status # "superseded"
  PROVE  Good([rs EXCEPT ![i] = r])
  <1>. DEFINE after == [rs EXCEPT ![i] = r]
  <1>1. after \in Seq(Row) /\ Len(after) = Len(rs)
    BY DEF Good
  <1>2. ASSUME NEW j \in 1 .. Len(rs)
        PROVE  after[j] = IF j = i THEN r ELSE rs[j]
    BY DEF Good
  <1>. HIDE DEF after
  <1>3. ASSUME NEW j \in 1 .. Len(rs)
        PROVE  /\ after[j].prev = rs[j].prev /\ after[j].next = rs[j].next
               /\ rs[j].status = "superseded" => after[j].status = "superseded"
    BY <1>2
  <1>4. Good(after)  BY <1>1, <1>3, LinksKept
  <1>. QED  BY <1>4 DEF after

LEMMA ResolvedKeeps ==
  ASSUME NEW rs, Good(rs), NEW i \in 1 .. Len(rs), NEW status \in Statuses,
         rs[i].status # "superseded"
  PROVE  Good(Resolved(rs, i, status))
  <1>. DEFINE r == [rs[i] EXCEPT !.status = status]
  <1>1. r \in Row  BY RowFields DEF Row
  <1>2. Resolved(rs, i, status) = [rs EXCEPT ![i] = r]
    BY DEF Resolved
  <1>3. r.prev = rs[i].prev /\ r.next = rs[i].next
    BY RowFields DEF Row
  <1>. HIDE DEF r
  <1>. QED  BY <1>1, <1>2, <1>3, RowChanged

LEMMA AppendKeeps ==
  ASSUME NEW rs, Good(rs), NEW r \in Row, r.prev = 0, r.next = 0, Len(rs) < MaxRows
  PROVE  Good(Append(rs, r))
  <1>1. Append(rs, r) \in Seq(Row) /\ Len(Append(rs, r)) = Len(rs) + 1
    BY DEF Good
  <1>2. ASSUME NEW j \in 1 .. Len(rs) + 1
        PROVE  Append(rs, r)[j] = IF j = Len(rs) + 1 THEN r ELSE rs[j]
    BY DEF Good
  <1>3. Chained(Append(rs, r))
    BY <1>1, <1>2, RowFields DEF Good, Chained
  <1>. QED  BY <1>1, <1>3, CommitmentsFacts DEF Good

LEMMA PastIsRow ==
  ASSUME NEW r \in Row, NEW status \in Statuses
  PROVE  /\ Past(r, status) \in Row /\ Past(r, status).status = status
         /\ Past(r, status).prev = r.prev /\ Past(r, status).next = r.next
  BY DEF Past, Row, Starts, Dues

\* A link is made at both ends, and only where there was none.
LEMMA SupersededKeeps ==
  ASSUME NEW rs, Good(rs), NEW i \in 1 .. Len(rs), CanSupersede(rs, i),
         NEW r \in Row, r.next = 0, Len(rs) < MaxRows
  PROVE  /\ Good(Superseded(rs, i, r))
         /\ Len(Superseded(rs, i, r)) = Len(rs) + 1
  <1>. DEFINE past == Past(rs[i], "superseded")
              old == [past EXCEPT !.next = Len(rs) + 1]
              new == [r EXCEPT !.prev = i]
              after == Superseded(rs, i, r)
  <1>1. Len(rs) \in Nat /\ rs \in Seq(Row) /\ rs[i].next = 0
    BY DEF Good, CanSupersede
  <1>2. rs[i] \in Row  BY RowFields
  <1>3. "superseded" \in Statuses /\ Len(rs) + 1 \in Nat  BY <1>1 DEF Statuses
  <1>12. past \in Row /\ past.status = "superseded" /\ past.prev = rs[i].prev
    BY <1>2, <1>3, PastIsRow
  <1>6. after = Append([rs EXCEPT ![i] = old], new)
    BY <1>1 DEF Superseded
  <1>. HIDE DEF past
  <1>4. old \in Row
    BY <1>3, <1>12 DEF Row
  <1>11. old.status = "superseded" /\ old.next = Len(rs) + 1 /\ old.prev = rs[i].prev
    BY <1>12 DEF Row
  <1>5. new \in Row /\ new.prev = i /\ new.next = 0  BY DEF Row
  <1>. HIDE DEF old, new
  <1>7. after \in Seq(Row) /\ Len(after) = Len(rs) + 1
    BY <1>1, <1>4, <1>5, <1>6
  <1>8. ASSUME NEW j \in 1 .. Len(rs) + 1
        PROVE  after[j] = IF j = Len(rs) + 1 THEN new ELSE IF j = i THEN old ELSE rs[j]
    BY <1>1, <1>4, <1>5, <1>6
  <1>9. ASSUME NEW j \in 1 .. Len(rs) + 1, after[j].next # 0
        PROVE  /\ after[j].next \in 1 .. Len(rs) + 1 /\ after[after[j].next].prev = j
               /\ after[j].status = "superseded"
    <2>1. CASE j = i
      BY <1>1, <1>11, <1>5, <1>8, <2>1
    <2>2. CASE j # i
      <3>1. j \in 1 .. Len(rs) /\ after[j] = rs[j]
        BY <1>1, <1>5, <1>8, <1>9, <2>2
      <3>2. /\ rs[j].next \in 1 .. Len(rs) /\ rs[rs[j].next].prev = j
            /\ rs[j].status = "superseded"
        BY <1>9, <3>1 DEF Good, Chained
      <3>. QED  BY <1>1, <1>11, <1>8, <3>1, <3>2
    <2>. QED  BY <2>1, <2>2
  <1>10. ASSUME NEW j \in 1 .. Len(rs) + 1, after[j].prev # 0
        PROVE  /\ after[j].prev \in 1 .. Len(rs) + 1 /\ after[after[j].prev].next = j
               /\ after[j].prev < j
    <2>1. CASE j = Len(rs) + 1
      BY <1>1, <1>11, <1>5, <1>8, <2>1
    <2>2. CASE j # Len(rs) + 1
      <3>1. j \in 1 .. Len(rs) /\ after[j].prev = rs[j].prev
        BY <1>1, <1>11, <1>8, <2>2
      <3>2. /\ rs[j].prev \in 1 .. Len(rs) /\ rs[rs[j].prev].next = j
            /\ rs[j].prev < j
        BY <1>10, <3>1 DEF Good, Chained
      <3>3. rs[j].prev # i  BY <1>1, <3>1, <3>2
      <3>. QED  BY <1>1, <1>8, <3>1, <3>2, <3>3
    <2>. QED  BY <2>1, <2>2
  <1>. QED  BY <1>1, <1>7, <1>9, <1>10, CommitmentsFacts DEF Good, Chained

\* What ingest() may leave: a row more, or none.
LEMMA NewRowIsRow ==
  ASSUME NEW n \in Mentions
  PROVE  NewRow(n) \in Row /\ NewRow(n).prev = 0 /\ NewRow(n).next = 0
  <1>. DEFINE degraded == n.kind \in Promises /\ ~n.dated
              reminds == ~degraded /\ (n.kind = "reminder_request" \/ n.reminds)
              latest == n.dated /\ (reminds \/ n.kind = "assistant_commitment")
              when == IF n.dated THEN "ahead" ELSE "none"
              kind == IF degraded THEN "follow_up" ELSE n.kind
              status == IF n.firm THEN "pending" ELSE "tentative"
  <1>1. /\ n.topic \in Topics /\ n.kind \in Kinds /\ n.dated \in BOOLEAN
        /\ n.firm \in BOOLEAN /\ n.reminds \in BOOLEAN
    BY CommitmentConstants DEF CommitmentConstants
  <1>2. kind \in Kinds /\ status \in Statuses /\ when \in Starts /\ when \in Dues
    BY <1>1 DEF Kinds, Statuses, LiveStatuses, Starts, Dues
  <1>3. reminds \in BOOLEAN /\ latest \in BOOLEAN
    BY <1>1, Zenon
  <1>4. NewRow(n) = [topic |-> n.topic, kind |-> kind, reminds |-> reminds,
                     starts |-> when, due |-> when, inOrder |-> TRUE, latest |-> latest,
                     status |-> status, archived |-> FALSE, prev |-> 0, next |-> 0]
    BY DEF NewRow
  <1>. HIDE DEF degraded, reminds, latest, when, kind, status
  <1>. QED  BY <1>1, <1>2, <1>3, <1>4 DEF Row

LEMMA SuccessorIsRow ==
  ASSUME NEW r \in Row, NEW starts \in Starts, NEW due \in Dues
  PROVE  Successor(r, starts, due) \in Row /\ Successor(r, starts, due).next = 0
  BY DEF Successor, Row, Statuses, LiveStatuses

LEMMA MovedIsRow ==
  ASSUME NEW r \in Row
  PROVE  Moved(r) \in Row /\ Moved(r).next = 0
  <1>. DEFINE s == Successor(r, "ahead", "ahead")
  <1>1. s \in Row /\ s.next = 0  BY SuccessorIsRow DEF Starts, Dues
  <1>2. Moved(r) = [s EXCEPT !.latest = TRUE, !.inOrder = TRUE]  BY DEF Moved
  <1>. HIDE DEF s
  <1>. QED  BY <1>1, <1>2 DEF Row

LEMMA MentionKeeps ==
  ASSUME Good(rows), NEW after \in AfterMention
  PROVE  Good(after) /\ Ids = 1 .. Len(rows) /\ Ids \subseteq 1 .. Len(after)
  <1>1. rows \in Seq(Row) /\ Len(rows) \in Nat /\ Ids = 1 .. Len(rows)
    BY DEF Good, Ids
  <1>2. CASE after = rows
    BY <1>1, <1>2
  <1>3. CASE after # rows
    <2>1. PICK n \in Mentions : after \in Ingested(NewRow(n))
      BY <1>3 DEF AfterMention
    <2>. DEFINE new == NewRow(n)
    <2>2. new \in Row /\ new.prev = 0 /\ new.next = 0
      BY NewRowIsRow
    <2>3. Len(rows) < MaxRows /\ after = Append(rows, new)
      BY <1>1, <1>3, <2>1, CommitmentsFacts DEF Ingested
    <2>. HIDE DEF new
    <2>. QED  BY <1>1, <2>2, <2>3, AppendKeeps
  <1>. QED  BY <1>2, <1>3

\* What was said of a row is checked against the row as it now is.
LEMMA WrittenKeeps ==
  ASSUME Good(rows), view \subseteq Ids, NEW after \in Written
  PROVE  Good(after) /\ Ids \subseteq 1 .. Len(after)
  <1>1. CASE after \in AfterMention
    BY <1>1, MentionKeeps
  <1>2. CASE after \in AfterSaying
    <2>1. PICK rs \in AfterMention, s \in Said : MayBeTold(rs, s) /\ after = Told(rs, s)
      BY <1>2 DEF AfterSaying
    <2>2. Good(rs) /\ Ids \subseteq 1 .. Len(rs) /\ s.of \in 1 .. Len(rs)
      BY <2>1, MentionKeeps DEF Said
    <2>3. rs[s.of] \in Row /\ Len(rs) \in Nat  BY <2>2, RowFields DEF Good
    <2>4. CASE s.action = "rescheduled"
      <3>1. CanSupersede(rs, s.of) /\ Len(rs) < MaxRows
            /\ after = Superseded(rs, s.of, Moved(rs[s.of]))
        BY <2>1, <2>4 DEF MayBeTold, Refuses, Told
      <3>2. Moved(rs[s.of]) \in Row /\ Moved(rs[s.of]).next = 0
        BY <2>3, MovedIsRow
      <3>. QED  BY <2>2, <2>3, <3>1, <3>2, SupersededKeeps
    <2>5. CASE s.action # "rescheduled"
      <3>1. MayMove(rs[s.of], s.action) /\ after = Resolved(rs, s.of, s.action)
        BY <2>1, <2>5 DEF MayBeTold, Refuses, Told
      <3>2. rs[s.of].status # "superseded" /\ s.action \in Statuses
        BY <3>1, <2>5 DEF MayMove, LiveStatuses, Statuses, Said
      <3>3. Len(after) = Len(rs)  BY <2>2, <3>1 DEF Good, Resolved
      <3>. QED  BY <2>2, <3>1, <3>2, <3>3, ResolvedKeeps
    <2>. QED  BY <2>4, <2>5
  <1>. QED  BY <1>1, <1>2 DEF Written

-------------------------------------------------------------------------------
(***************************************************************************)
(* The clock.                                                              *)
(***************************************************************************)
\* None of the four updates touches a link, nor a row that is superseded.
SameLinks(r, s) ==
  /\ s \in Row /\ s.prev = r.prev /\ s.next = r.next
  /\ r.status = "superseded" => s.status = "superseded"

LEMMA UpdatesKeepLinks ==
  ASSUME NEW r \in Row
  PROVE  SameLinks(r, Promoted(r)) /\ SameLinks(r, Missed(r))
         /\ SameLinks(r, Expired(r)) /\ SameLinks(r, Archived(r))
  <1>1. SameLinks(r, r)  BY DEF SameLinks
  <1>2. SameLinks(r, Promoted(r))
    BY <1>1 DEF SameLinks, Promoted, Row, Statuses, LiveStatuses
  <1>3. SameLinks(r, Missed(r))
    BY <1>1 DEF SameLinks, Missed, Row, Statuses, LiveStatuses
  <1>4. SameLinks(r, Expired(r))
    BY <1>1 DEF SameLinks, Expired, Row, Statuses, LiveStatuses
  <1>5. SameLinks(r, Archived(r))
    BY <1>1 DEF SameLinks, Archived, Row
  <1>. QED  BY <1>2, <1>3, <1>4, <1>5

LEMMA TransitionKeepsLinks ==
  ASSUME NEW r \in Row
  PROVE  SameLinks(r, Transitioned(r))
  <1>1. SameLinks(r, Promoted(r))  BY UpdatesKeepLinks
  <1>2. SameLinks(Promoted(r), Missed(Promoted(r)))
    BY <1>1, UpdatesKeepLinks DEF SameLinks
  <1>3. SameLinks(Missed(Promoted(r)), Expired(Missed(Promoted(r))))
    BY <1>2, UpdatesKeepLinks DEF SameLinks
  <1>4. SameLinks(Expired(Missed(Promoted(r))), Transitioned(r))
    BY <1>3, UpdatesKeepLinks DEF SameLinks, Transitioned
  <1>. QED  BY <1>1, <1>2, <1>3, <1>4 DEF SameLinks

\* What has its deadline is missed before it could be archived.
LEMMA DeadlineIsNotSilenced ==
  ASSUME NEW r \in Row, HasDeadline(r)
  PROVE  Transitioned(r).archived = r.archived
  <1>. DEFINE p == Promoted(r)  m == Missed(p)  e == Expired(m)
  <1>1. /\ p \in Row /\ p.archived = r.archived /\ p.due = r.due
        /\ HasDeadline(p)
    BY DEF Promoted, Row, HasDeadline, Statuses, LiveStatuses
  <1>. HIDE DEF p
  <1>2. /\ m \in Row /\ m.archived = r.archived
        /\ m.status \in {"pending", "due"} => m.archived \/ m.due # "grace"
    BY <1>1 DEF Missed, Row, Statuses, LiveStatuses
  <1>. HIDE DEF m
  <1>3. /\ e \in Row /\ e.archived = r.archived
        /\ e.status \in {"pending", "due"} => e.archived \/ e.due # "grace"
    BY <1>2 DEF Expired, Row, Statuses
  <1>4. Transitioned(r) = Archived(e)  BY DEF Transitioned, e, m, p
  <1>. HIDE DEF e
  <1>5. Archived(e) = e
    BY <1>3 DEF Archived, Row
  <1>. QED  BY <1>3, <1>4, <1>5

-------------------------------------------------------------------------------
(***************************************************************************)
(* The jobs: what each action does to them, whatever it does to the rows.  *)
(***************************************************************************)
LEMMA SayKeepsJobs ==
  ASSUME JobsInvariant, NEW m \in Messages, Say(m)
  PROVE  JobsInvariant'
  <1>1. /\ m \in DOMAIN job /\ job[m] = "none" /\ job' = [job EXCEPT ![m] = "pending"]
        /\ tries[m] = 0 /\ runs[m] = "none" /\ 0 <= MaxTries + incarnation - 2
        /\ UNCHANGED <<runs, tries, interrupted, incarnation>>
    BY CommitmentsFacts DEF JobsInvariant, GoodJob, Say
  <1>2. job' \in [Messages -> {"none", "pending", "running", "done", "failed"}]
    BY <1>1 DEF JobsInvariant
  <1>3. ASSUME NEW n \in Messages  PROVE GoodJob(n)'
    <2>1. CASE n = m
      BY <1>1, <2>1, CommitmentsFacts DEF JobsInvariant, GoodJob
    <2>2. CASE n # m
      BY <1>1, <2>2 DEF JobsInvariant, GoodJob
    <2>. QED  BY <2>1, <2>2
  <1>. QED  BY <1>1, <1>2, <1>3 DEF JobsInvariant

LEMMA ClaimKeepsJobs ==
  ASSUME JobsInvariant, NEW m \in Messages, Claim(m)
  PROVE  JobsInvariant'
  BY CommitmentsFacts DEF JobsInvariant, GoodJob, Claim, Take

LEMMA SkipKeepsJobs ==
  ASSUME JobsInvariant, NEW m \in Messages, Skip(m)
  PROVE  JobsInvariant'
  BY CommitmentsFacts DEF JobsInvariant, GoodJob, Skip, Take, MayClaim

LEMMA FinishKeepsJobs ==
  ASSUME JobsInvariant, NEW m \in Messages, Running(m), NEW after, Finish(m, after),
         UNCHANGED <<tries, interrupted, incarnation>>
  PROVE  JobsInvariant'
  BY CommitmentsFacts DEF JobsInvariant, GoodJob, Finish, Running

LEMMA GiveBackKeepsJobs ==
  ASSUME JobsInvariant, NEW m \in Messages, Running(m), GiveBack(m),
         UNCHANGED <<tries, interrupted, incarnation>>
  PROVE  JobsInvariant'
  BY CommitmentsFacts DEF JobsInvariant, GoodJob, GiveBack, Released, Running

LEMMA LeaseKeepsJobs ==
  ASSUME JobsInvariant, NEW m \in Messages, LeaseGrowsStale(m)
  PROVE  JobsInvariant'
  BY CommitmentsFacts DEF JobsInvariant, GoodJob, LeaseGrowsStale

\* A death grants the job it interrupts the attempt it takes.
LEMMA DeathKeepsJobs ==
  ASSUME JobsInvariant, ProcessDies
  PROVE  JobsInvariant'
  BY CommitmentsFacts DEF JobsInvariant, GoodJob, ProcessDies

LEMMA OthersKeepJobs ==
  ASSUME JobsInvariant, UNCHANGED <<analysis, incarnation>>
  PROVE  JobsInvariant'
  BY DEF JobsInvariant, GoodJob, analysis

-------------------------------------------------------------------------------
(***************************************************************************)
(* The rows, action by action.                                             *)
(***************************************************************************)
LEMMA TimeKeepsRows ==
  ASSUME RowsInvariant, NEW i \in Ids, TimePasses(i)
  PROVE  RowsInvariant'
  <1>1. Good(rows) /\ Ids = 1 .. Len(rows) /\ rows[i] \in Row
        /\ rows[i].status # "superseded"
    BY RowFields DEF RowsInvariant, Good, Ids, TimePasses, Live, LiveStatuses
  <1>2. PICK r \in StartComes(rows[i]) \cup DueComes(rows[i]) : rows' = [rows EXCEPT ![i] = r]
    BY DEF TimePasses
  <1>3. r \in Row /\ r.prev = rows[i].prev /\ r.next = rows[i].next
    BY <1>1, <1>2 DEF StartComes, DueComes, Row, Starts, Dues
  <1>4. Good(rows')  BY <1>1, <1>2, <1>3, RowChanged
  <1>5. Ids' = Ids /\ view' = view  BY <1>2 DEF Ids, TimePasses, analysis
  <1>. QED  BY <1>4, <1>5 DEF RowsInvariant

LEMMA TickKeepsRows ==
  ASSUME RowsInvariant, Tick
  PROVE  RowsInvariant'
  <1>1. Good(rows) /\ Ids = 1 .. Len(rows) /\ Len(rows) \in Nat
    BY DEF RowsInvariant, Good, Ids
  <1>2. rows' = [i \in 1 .. Len(rows) |-> Transitioned(rows[i])] /\ view' = view
    BY <1>1 DEF Tick, analysis
  <1>3. ASSUME NEW i \in 1 .. Len(rows)
        PROVE  rows[i] \in Row /\ SameLinks(rows[i], rows'[i])
    BY <1>1, <1>2, RowFields, TransitionKeepsLinks
  <1>4. rows' \in Seq(Row) /\ Len(rows') = Len(rows) /\ Ids' = Ids
    BY <1>1, <1>2, <1>3 DEF SameLinks, Ids
  <1>5. Good(rows')  BY <1>1, <1>3, <1>4, LinksKept DEF SameLinks
  <1>. QED  BY <1>2, <1>4, <1>5 DEF RowsInvariant

LEMMA ResolveKeepsRows ==
  ASSUME RowsInvariant, NEW i \in Ids, NEW status \in {"completed", "cancelled"},
         AdminResolves(i, status)
  PROVE  RowsInvariant'
  <1>1. Good(rows) /\ Ids = 1 .. Len(rows) /\ rows[i].status # "superseded"
    BY DEF RowsInvariant, Good, Ids, AdminResolves, MayMove, LiveStatuses
  <1>2. Good(rows')
    BY <1>1, ResolvedKeeps DEF AdminResolves, Statuses
  <1>3. Ids' = Ids /\ view' = view
    BY DEF Ids, AdminResolves, Resolved, analysis
  <1>. QED  BY <1>2, <1>3 DEF RowsInvariant

LEMMA ArchiveKeepsRows ==
  ASSUME RowsInvariant, NEW i \in Ids, AdminArchives(i)
  PROVE  RowsInvariant'
  <1>. DEFINE r == [rows[i] EXCEPT !.archived = TRUE]
  <1>1. Good(rows) /\ Ids = 1 .. Len(rows) /\ rows[i] \in Row
        /\ rows[i].status # "superseded"
    BY RowFields DEF RowsInvariant, Good, Ids, AdminArchives, Live, LiveStatuses
  <1>2. r \in Row /\ r.prev = rows[i].prev /\ r.next = rows[i].next
    BY <1>1 DEF Row
  <1>3. rows' = [rows EXCEPT ![i] = r] /\ view' = view
    BY DEF AdminArchives, analysis
  <1>. HIDE DEF r
  <1>4. Good(rows')  BY <1>1, <1>2, <1>3, RowChanged
  <1>5. Ids' = Ids  BY <1>3 DEF Ids
  <1>. QED  BY <1>3, <1>4, <1>5 DEF RowsInvariant

LEMMA RescheduleKeepsRows ==
  ASSUME RowsInvariant, NEW i \in Ids, AdminReschedules(i)
  PROVE  RowsInvariant'
  <1>1. Good(rows) /\ Ids = 1 .. Len(rows) /\ rows[i] \in Row
    BY RowFields DEF RowsInvariant, Good, Ids
  <1>2. PICK starts \in {rows[i].starts, "ahead"}, due \in {rows[i].due, "ahead"} :
          rows' = Superseded(rows, i,
                    [Successor(rows[i], starts, due) EXCEPT !.latest = FALSE, !.inOrder = FALSE])
    BY DEF AdminReschedules
  <1>. DEFINE s == Successor(rows[i], starts, due)
              r == [s EXCEPT !.latest = FALSE, !.inOrder = FALSE]
  <1>3. starts \in Starts /\ due \in Dues
    BY <1>1 DEF Row, Starts, Dues
  <1>4. s \in Row /\ s.next = 0  BY <1>1, <1>3, SuccessorIsRow
  <1>5. rows' = Superseded(rows, i, r) /\ CanSupersede(rows, i)
        /\ Len(rows) < MaxRows /\ view' = view
    BY <1>2 DEF AdminReschedules, analysis
  <1>. HIDE DEF s
  <1>6. r \in Row /\ r.next = 0  BY <1>4 DEF Row
  <1>. HIDE DEF r
  <1>7. Good(rows') /\ Len(rows') = Len(rows) + 1
    BY <1>1, <1>5, <1>6, SupersededKeeps
  <1>8. Ids \subseteq Ids'  BY <1>1, <1>7 DEF Good, Ids
  <1>. QED  BY <1>5, <1>7, <1>8 DEF RowsInvariant

\* Whatever pointed to the row that goes is cleared at both ends.
LEMMA DeleteKeepsRows ==
  ASSUME RowsInvariant, NEW i \in Ids, AdminDeletes(i)
  PROVE  RowsInvariant'
  <1>. DEFINE past == Past(rows[i], "deleted")
              gone == [past EXCEPT !.prev = 0, !.next = 0]
              Cut(r) == [r EXCEPT !.prev = IF @ = i THEN 0 ELSE @,
                                  !.next = IF @ = i THEN 0 ELSE @]
  <1>1. Good(rows) /\ Ids = 1 .. Len(rows) /\ Len(rows) \in Nat
        /\ \A j \in 1 .. Len(rows) : rows[j] \in Row
    BY RowFields DEF RowsInvariant, Good, Ids
  <1>2. rows' = [j \in 1 .. Len(rows) |-> IF j = i THEN gone ELSE Cut(rows[j])]
        /\ view' = view
    BY <1>1 DEF AdminDeletes, analysis
  <1>3. gone \in Row /\ gone.prev = 0 /\ gone.next = 0
    <2>1. past \in Row
      BY <1>1, PastIsRow DEF Statuses
    <2>. HIDE DEF past
    <2>. QED  BY <2>1 DEF Row
  <1>4. ASSUME NEW r \in Row
        PROVE  /\ Cut(r) \in Row /\ Cut(r).status = r.status
               /\ Cut(r).prev = IF r.prev = i THEN 0 ELSE r.prev
               /\ Cut(r).next = IF r.next = i THEN 0 ELSE r.next
    BY DEF Row
  <1>. HIDE DEF gone, Cut
  <1>5. rows' \in Seq(Row) /\ Len(rows') = Len(rows) /\ Ids' = Ids
    BY <1>1, <1>2, <1>3, <1>4 DEF Ids
  <1>6. ASSUME NEW j \in 1 .. Len(rows), rows'[j].next # 0
        PROVE  /\ rows'[j].next \in 1 .. Len(rows)
               /\ rows'[rows'[j].next].prev = j /\ rows'[j].status = "superseded"
    <2>1. j # i /\ rows'[j] = Cut(rows[j])  BY <1>2, <1>3, <1>6
    <2>2. /\ rows[j].next # 0 /\ rows[j].next # i /\ rows'[j].next = rows[j].next
          /\ rows'[j].status = rows[j].status
      BY <1>1, <1>4, <1>6, <2>1
    <2>3. /\ rows[j].next \in 1 .. Len(rows) /\ rows[rows[j].next].prev = j
          /\ rows[j].status = "superseded"
      BY <1>1, <2>2 DEF Good, Chained
    <2>. QED  BY <1>1, <1>2, <1>4, <2>1, <2>2, <2>3
  <1>7. ASSUME NEW j \in 1 .. Len(rows), rows'[j].prev # 0
        PROVE  /\ rows'[j].prev \in 1 .. Len(rows)
               /\ rows'[rows'[j].prev].next = j /\ rows'[j].prev < j
    <2>1. j # i /\ rows'[j] = Cut(rows[j])  BY <1>2, <1>3, <1>7
    <2>2. rows[j].prev # 0 /\ rows[j].prev # i /\ rows'[j].prev = rows[j].prev
      BY <1>1, <1>4, <1>7, <2>1
    <2>3. /\ rows[j].prev \in 1 .. Len(rows) /\ rows[rows[j].prev].next = j
          /\ rows[j].prev < j
      BY <1>1, <2>2 DEF Good, Chained
    <2>. QED  BY <1>1, <1>2, <1>4, <2>1, <2>2, <2>3
  <1>8. Good(rows')  BY <1>1, <1>5, <1>6, <1>7 DEF Good, Chained
  <1>. QED  BY <1>2, <1>5, <1>8 DEF RowsInvariant

LEMMA AdminKeepsRows ==
  ASSUME RowsInvariant, NEW i \in Ids, Admin(i)
  PROVE  RowsInvariant' /\ UNCHANGED <<analysis, incarnation>>
  <1>1. ASSUME NEW s \in {"completed", "cancelled"}, AdminResolves(i, s)
        PROVE  RowsInvariant' /\ UNCHANGED <<analysis, incarnation>>
    BY <1>1, ResolveKeepsRows DEF AdminResolves
  <1>2. CASE AdminArchives(i)
    BY <1>2, ArchiveKeepsRows DEF AdminArchives
  <1>3. CASE AdminReschedules(i)
    BY <1>3, RescheduleKeepsRows DEF AdminReschedules
  <1>4. CASE AdminDeletes(i)
    BY <1>4, DeleteKeepsRows DEF AdminDeletes
  <1>. QED  BY <1>1, <1>2, <1>3, <1>4 DEF Admin

\* Whether the answer is applied or refused, the table keeps its chains.
LEMMA ApplyKeeps ==
  ASSUME CommitmentsInvariant, NEW m \in Messages, Apply(m)
  PROVE  CommitmentsInvariant'
  <1>1. Good(rows) /\ view \subseteq Ids /\ JobsInvariant /\ Running(m)
        /\ UNCHANGED <<tries, interrupted, incarnation>>
    BY DEF CommitmentsInvariant, RowsInvariant, Apply
  <1>2. PICK after \in Written : Finish(m, after) \/ (rows' = after /\ GiveBack(m))
    BY DEF Apply
  <1>3. Good(after)  BY <1>1, WrittenKeeps
  <1>4. JobsInvariant'  BY <1>1, <1>2, FinishKeepsJobs, GiveBackKeepsJobs
  <1>5. RowsInvariant'  BY <1>2, <1>3 DEF RowsInvariant, Finish, GiveBack
  <1>. QED  BY <1>4, <1>5 DEF CommitmentsInvariant

LEMMA AnalyzeKeeps ==
  ASSUME CommitmentsInvariant, NEW m \in Messages, Analyze(m)
  PROVE  CommitmentsInvariant'
  <1>1. CASE Claim(m)
    <2>1. JobsInvariant'  BY <1>1, ClaimKeepsJobs DEF CommitmentsInvariant
    <2>2. RowsInvariant'
      BY <1>1 DEF CommitmentsInvariant, RowsInvariant, Claim, Ids
    <2>. QED  BY <2>1, <2>2 DEF CommitmentsInvariant
  <1>2. CASE Skip(m)
    <2>1. JobsInvariant'  BY <1>2, SkipKeepsJobs DEF CommitmentsInvariant
    <2>2. RowsInvariant'
      BY <1>2 DEF CommitmentsInvariant, RowsInvariant, Skip, Ids
    <2>. QED  BY <2>1, <2>2 DEF CommitmentsInvariant
  <1>3. CASE Apply(m)
    BY <1>3, ApplyKeeps
  <1>4. CASE AnalysisFails(m)
    <2>1. JobsInvariant'
      BY <1>4, GiveBackKeepsJobs DEF CommitmentsInvariant, AnalysisFails
    <2>2. RowsInvariant'
      BY <1>4 DEF CommitmentsInvariant, RowsInvariant, AnalysisFails, GiveBack
    <2>. QED  BY <2>1, <2>2 DEF CommitmentsInvariant
  <1>. QED  BY <1>1, <1>2, <1>3, <1>4 DEF Analyze

LEMMA DeathKeepsCommitments ==
  ASSUME CommitmentsInvariant, NEW m \in Messages, CrashAnalyzing(m) \/ CrashApplying(m)
  PROVE  CommitmentsInvariant'
  <1>1. ProcessDies /\ view' = {}  BY DEF CrashAnalyzing, CrashApplying, ProcessDies
  <1>2. JobsInvariant'  BY <1>1, DeathKeepsJobs DEF CommitmentsInvariant
  <1>3. Good(rows')
    BY WrittenKeeps
    DEF CommitmentsInvariant, RowsInvariant, CrashAnalyzing, CrashApplying
  <1>. QED  BY <1>1, <1>2, <1>3 DEF CommitmentsInvariant, RowsInvariant

LEMMA CommitmentsStepKeeps ==
  CommitmentsInvariant /\ [CommitmentsNext]_commitmentVars => CommitmentsInvariant'
  <1>. SUFFICES ASSUME CommitmentsInvariant, [CommitmentsNext]_commitmentVars
                PROVE  CommitmentsInvariant'
    OBVIOUS
  <1>1. ASSUME NEW m \in Messages, Say(m)  PROVE CommitmentsInvariant'
    <2>1. JobsInvariant'  BY <1>1, SayKeepsJobs DEF CommitmentsInvariant
    <2>2. RowsInvariant'
      BY <1>1 DEF CommitmentsInvariant, RowsInvariant, Say, Ids
    <2>. QED  BY <2>1, <2>2 DEF CommitmentsInvariant
  <1>2. ASSUME NEW m \in Messages, Analyze(m)  PROVE CommitmentsInvariant'
    BY <1>2, AnalyzeKeeps
  <1>3. ASSUME NEW m \in Messages, LeaseGrowsStale(m)  PROVE CommitmentsInvariant'
    <2>1. JobsInvariant'  BY <1>3, LeaseKeepsJobs DEF CommitmentsInvariant
    <2>2. RowsInvariant'
      BY <1>3 DEF CommitmentsInvariant, RowsInvariant, LeaseGrowsStale, Ids
    <2>. QED  BY <2>1, <2>2 DEF CommitmentsInvariant
  <1>4. ASSUME NEW m \in Messages, CrashAnalyzing(m) \/ CrashApplying(m)
        PROVE  CommitmentsInvariant'
    BY <1>4, DeathKeepsCommitments
  <1>5. ASSUME RowsInvariant', UNCHANGED <<analysis, incarnation>>
        PROVE  CommitmentsInvariant'
    BY <1>5, OthersKeepJobs DEF CommitmentsInvariant
  <1>6. ASSUME NEW i \in Ids, TimePasses(i)  PROVE CommitmentsInvariant'
    BY <1>5, <1>6, TimeKeepsRows DEF CommitmentsInvariant, TimePasses
  <1>7. ASSUME NEW i \in Ids, Admin(i)  PROVE CommitmentsInvariant'
    BY <1>5, <1>7, AdminKeepsRows DEF CommitmentsInvariant
  <1>8. CASE Tick
    BY <1>5, <1>8, TickKeepsRows DEF CommitmentsInvariant, Tick
  <1>9. CASE UNCHANGED commitmentVars
    BY <1>9
    DEF commitmentVars, CommitmentsInvariant, RowsInvariant, JobsInvariant, GoodJob, Ids
  <1>. QED
    BY <1>1, <1>2, <1>3, <1>4, <1>6, <1>7, <1>8, <1>9 DEF CommitmentsNext, TimeGoesOn

-------------------------------------------------------------------------------
(***************************************************************************)
(* Theorems                                                                *)
(***************************************************************************)
\* Rows, chains, jobs and leases agree in every reachable state, for any
\* number of messages, rows, attempts and deaths of the process.
THEOREM CommitmentsInvariantHolds == CommitmentsSpec => []CommitmentsInvariant
  BY CommitmentsInitKeeps, CommitmentsStepKeeps, PTL DEF CommitmentsSpec

\* Type correctness of commitments, receipts and jobs.
THEOREM CommitmentTypesAreCorrect == CommitmentsSpec => []CommitmentsTypeOK
  BY CommitmentsInvariantHolds, CommitmentsGiveProperties, PTL

\* supersede() and the deletion of a row keep the chains of reschedulings
\* whole at both ends, however analyzer, admin and clock meet.
THEOREM ChainsStayWhole == CommitmentsSpec => []HistoryIsKept
  BY CommitmentsInvariantHolds, CommitmentsGiveProperties, PTL

\* A job of future.analyze is done only with the receipt of its message, or
\* when the death of the process left a fresh lease behind.
THEOREM ReceiptsAreTrue == CommitmentsSpec => []DoneMeansAnalyzed
  BY CommitmentsInvariantHolds, CommitmentsGiveProperties, PTL

\* The order of the four updates of applyTimeDrivenTransitions() lets no
\* deadline pass into the archive.
THEOREM NothingIsSilenced == CommitmentsSpec => NotSilenced
  <1>1. CommitmentsInvariant /\ [CommitmentsNext]_commitmentVars =>
          [Tick => \A i \in Ids :
             HasDeadline(rows[i]) => rows'[i].archived = rows[i].archived]_commitmentVars
    <2>. SUFFICES ASSUME CommitmentsInvariant, Tick, NEW i \in Ids, HasDeadline(rows[i])
                  PROVE  rows'[i].archived = rows[i].archived
      OBVIOUS
    <2>1. rows[i] \in Row
      BY RowFields DEF CommitmentsInvariant, RowsInvariant, Good, Ids
    <2>2. rows'[i] = Transitioned(rows[i])  BY DEF Tick
    <2>. QED  BY <2>1, <2>2, DeadlineIsNotSilenced
  <1>. QED  BY <1>1, CommitmentsInvariantHolds, PTL DEF CommitmentsSpec, NotSilenced

-------------------------------------------------------------------------------
(***************************************************************************)
(* Initiative.                                                             *)
(*                                                                         *)
(* For any events, commitments, runs and deaths of the process: an event   *)
(* of her life is told once at most, the queue and its runs agree, and a   *)
(* share yields to the user.                                               *)
(*                                                                         *)
(* The invariant has two halves.  What is recorded of each attempt and     *)
(* what was said are invariant whatever the queue does; the queue looks at *)
(* the subject of an attempt only, which never changes.                    *)
(***************************************************************************)

AttemptRow == [of : Candidates \cup {NoCandidate}, status : {"blocked", "sent", "failed"}]
Phases == {"queued", "composing", "wording", "done"}

\* What is durable, and what of it was said.
StoryInvariant ==
  /\ attempts \in Seq(AttemptRow) /\ Len(attempts) <= MaxAttempts
  /\ moments \subseteq 1 .. happened /\ said \in [Candidates -> Nat]
  /\ unanswered \in Nat /\ shares \in Nat /\ heard \in 0 .. Len(attempts)
  /\ happened \in 0 .. Events /\ upcoming \subseteq Plans
  /\ batch \in {"none", "user", "retry"} /\ gap \in BOOLEAN
  /\ mode \in {"up", "down"} /\ epoch \in 1 .. MaxEpoch
  /\ mode = "down" => epoch < MaxEpoch
  /\ LifeSharedOnce

\* A delivery is about an event that has happened, a mention about a plan.
Subjects ==
  \A i \in Attempts :
    /\ Waiting(i) => attempts[i].of \in 1 .. happened
    /\ phase[i] = "wording" => attempts[i].of \in Plans

\* Nobody stands twice in the queue.
Distinct ==
  /\ queue \in Seq(Attempts)
  /\ \A k \in 1 .. Len(queue), l \in 1 .. Len(queue) : queue[k] = queue[l] => k = l
  /\ queue # <<>> => active # 0

Line == Distinct /\ Placed /\ Alone

\* Whatever may still be said was decided after the user spoke.
Yielding ==
  /\ \A i \in Range(queue) : i > heard
  /\ active # 0 /\ ~aborted => active > heard /\ batch # "user"

QueueInvariant ==
  /\ phase \in Seq(Phases) /\ Len(phase) = Len(attempts)
  /\ active \in 0 .. Len(attempts) /\ aborted \in BOOLEAN
  /\ Line /\ Subjects /\ Yielding

InitiativeInvariant == StoryInvariant /\ QueueInvariant

LEMMA Constants ==
  /\ Events \in Nat /\ Shared = 1 .. Events /\ Plans \cap Shared = {}
  /\ MaxAttempts \in Nat /\ MaxEpoch \in Nat \ {0} /\ NoCandidate \notin Candidates \ Plans
  /\ 0 \notin Plans /\ NoCandidate \notin Shared
  BY InitiativeConstants DEF InitiativeConstants, Shared, Candidates, NoCandidate

LEMMA InvariantGivesProperties ==
  InitiativeInvariant => TypeOK /\ LifeSharedOnce /\ QueueIsSound
  <1>. SUFFICES ASSUME InitiativeInvariant
                PROVE  TypeOK /\ LifeSharedOnce /\ OneDelivery
    BY DEF QueueIsSound
  <1>1. Attempts = 1 .. Len(attempts)
    BY DEF InitiativeInvariant, StoryInvariant, Attempts
  <1>2. Range(queue) \subseteq Attempts
    BY <1>1 DEF InitiativeInvariant, QueueInvariant, Line, Distinct, Range
  <1>3. TypeOK
    BY <1>1, <1>2
    DEF InitiativeInvariant, StoryInvariant, QueueInvariant, AttemptRow, Phases, TypeOK
  <1>4. OneDelivery
    BY DEF InitiativeInvariant, QueueInvariant, Line, Distinct, OneDelivery
  <1>. QED  BY <1>3, <1>4 DEF InitiativeInvariant, StoryInvariant

LEMMA InitKeeps == Init => InitiativeInvariant
  <1>. SUFFICES ASSUME Init PROVE InitiativeInvariant
    OBVIOUS
  <1>1. attempts = <<>> /\ phase = <<>> /\ queue = <<>> /\ Len(attempts) = 0
        /\ active = 0 /\ aborted = FALSE
    BY DEF Init
  <1>2. LifeSharedOnce
    BY <1>1 DEF Init, LifeSharedOnce, Attempts, Shared, Candidates
  <1>3. \A S : <<>> \in Seq(S)
    OBVIOUS
  <1>4. said \in [Candidates -> Nat] /\ moments = {} /\ heard = 0 /\ happened = 0
        /\ 0 \in 0 .. Events /\ 1 \in 1 .. MaxEpoch
    BY Constants DEF Init
  <1>5. StoryInvariant
    <2>1. Len(attempts) <= MaxAttempts /\ attempts \in Seq(AttemptRow)
      BY <1>1, <1>3, Constants
    <2>2. heard \in 0 .. Len(attempts) /\ moments \subseteq 1 .. happened
      BY <1>1, <1>4
    <2>. QED
      BY <1>2, <1>4, <2>1, <2>2 DEF Init, StoryInvariant
  <1>6. Line
    <2>1. Range(queue) = {} /\ Attempts = {}  BY <1>1 DEF Range, Attempts
    <2>. QED  BY <1>1, <1>3, <2>1 DEF Line, Distinct, Placed, Alone
  <1>7. Subjects /\ Yielding
    BY <1>1 DEF Subjects, Yielding, Range, Attempts
  <1>8. QueueInvariant
    <2>1. phase \in Seq(Phases) /\ Len(phase) = Len(attempts)
      BY <1>1, <1>3
    <2>2. active \in 0 .. Len(attempts)
      BY <1>1
    <2>3. aborted \in BOOLEAN
      BY <1>1
    <2>. QED  BY <1>6, <1>7, <2>1, <2>2, <2>3 DEF QueueInvariant
  <1>. QED  BY <1>5, <1>8 DEF InitiativeInvariant

-------------------------------------------------------------------------------
(***************************************************************************)
(* The queue.                                                              *)
(***************************************************************************)
\* The rows of the attempts may have another status, and no more.
SameSubjects ==
  /\ attempts' \in Seq(AttemptRow) /\ Len(attempts') = Len(attempts)
  /\ \A i \in Attempts : attempts'[i].of = attempts[i].of

LEMMA QueueStays ==
  ASSUME StoryInvariant, QueueInvariant, SameSubjects,
         UNCHANGED <<heard, phase, queue, active, aborted>>,
         happened' \in Nat, happened <= happened', batch' = "user" => batch = "user"
  PROVE  QueueInvariant'
  <1>1. Attempts' = Attempts
    BY DEF StoryInvariant, SameSubjects, Attempts
  <1>2. Distinct' /\ Placed' /\ Yielding'
    BY <1>1 DEF QueueInvariant, Line, Distinct, Placed, Yielding
  <1>3. Alone'
    BY <1>1 DEF QueueInvariant, SameSubjects, Line, Alone, Waiting
  <1>4. Subjects'
    BY <1>1 DEF StoryInvariant, QueueInvariant, SameSubjects, Subjects, Waiting
  <1>. QED
    BY <1>2, <1>3, <1>4 DEF QueueInvariant, SameSubjects, Line

\* A run joins: it has returned, or words a plan.
LEMMA RunJoinsBeside ==
  ASSUME StoryInvariant, QueueInvariant, NEW c, NEW p \in {"done", "wording"},
         p = "wording" => c \in Plans,
         attempts' = Record(c, "blocked"), phase' = Append(phase, p),
         UNCHANGED <<heard, happened, batch, queue, active, aborted>>
  PROVE  QueueInvariant'
  <1>. DEFINE n == Len(attempts)
  <1>1. /\ n \in Nat /\ Attempts = 1 .. n /\ Len(phase) = n /\ active \in 0 .. n
        /\ attempts \in Seq(AttemptRow) /\ phase \in Seq(Phases)
        /\ queue \in Seq(1 .. n) /\ Range(queue) \subseteq 1 .. n
    BY DEF StoryInvariant, QueueInvariant, Line, Distinct, Attempts, Range
  <1>2. /\ Len(attempts') = n + 1 /\ Attempts' = 1 .. n + 1 /\ attempts'[n + 1].of = c
        /\ \A i \in 1 .. n : attempts'[i] = attempts[i]
    BY <1>1 DEF Record, Attempts
  <1>3. /\ phase' \in Seq(Phases) /\ Len(phase') = n + 1 /\ phase'[n + 1] = p
        /\ \A i \in 1 .. n : phase'[i] = phase[i]
    BY <1>1 DEF Phases
  <1>. HIDE DEF n
  <1>4. queue' \in Seq(Attempts')
    BY <1>1, <1>2
  <1>5. Distinct'
    BY <1>4 DEF QueueInvariant, Line, Distinct
  <1>6. Placed'
    BY <1>1, <1>2, <1>3 DEF QueueInvariant, Line, Placed
  <1>7. Alone'
    <2>1. \A i \in 1 .. n + 1 : Waiting(i)' <=> i \in 1 .. n /\ Waiting(i)
      BY <1>1, <1>3 DEF Waiting
    <2>2. ASSUME NEW i \in 1 .. n, NEW j \in 1 .. n, i # j,
                 attempts[i].of = attempts[j].of, Waiting(i)
          PROVE  ~Waiting(j)
      BY <1>1, <2>2 DEF QueueInvariant, Line, Alone
    <2>. QED  BY <1>1, <1>2, <2>1, <2>2 DEF Alone
  <1>8. Subjects'
    BY <1>1, <1>2, <1>3 DEF QueueInvariant, Subjects, Waiting
  <1>9. Yielding'
    BY DEF QueueInvariant, Yielding
  <1>10. active' \in 0 .. Len(attempts') /\ aborted' = aborted
    <2>1. active' = active /\ active \in 0 .. n  BY <1>1
    <2>. QED  BY <1>1, <1>2, <2>1
  <1>. QED
    BY <1>2, <1>3, <1>5, <1>6, <1>7, <1>8, <1>9, <1>10 DEF QueueInvariant, Line

\* Nobody waits with an event that is not queued.
LEMMA NotQueued ==
  ASSUME QueueInvariant, NEW c, ~IsQueued(c), NEW i \in Attempts, attempts[i].of = c,
         0 \notin Attempts
  PROVE  ~Waiting(i)
  <1>1. i # 0  OBVIOUS
  <1>2. i \notin Range(queue)
    BY DEF IsQueued
  <1>3. i # active
    BY <1>1 DEF IsQueued
  <1>4. phase[i] # "composing" /\ phase[i] # "queued"
    BY <1>2, <1>3 DEF QueueInvariant, Line, Placed
  <1>. QED  BY <1>4 DEF Waiting

\* A run is composed at once.
LEMMA RunStarts ==
  ASSUME StoryInvariant, QueueInvariant, NEW c \in 1 .. happened, ~IsQueued(c),
         active = 0, batch = "none",
         attempts' = Record(c, "blocked"), phase' = Append(phase, "composing"),
         active' = Len(attempts) + 1, aborted' = FALSE,
         UNCHANGED <<heard, happened, batch, queue>>
  PROVE  QueueInvariant'
  <1>. DEFINE n == Len(attempts)
  <1>1. /\ n \in Nat /\ Attempts = 1 .. n /\ Len(phase) = n /\ queue = <<>>
        /\ attempts \in Seq(AttemptRow) /\ phase \in Seq(Phases) /\ heard \in 0 .. n
    BY DEF StoryInvariant, QueueInvariant, Line, Distinct, Attempts
  <1>2. /\ Len(attempts') = n + 1 /\ Attempts' = 1 .. n + 1 /\ attempts'[n + 1].of = c
        /\ \A i \in 1 .. n : attempts'[i] = attempts[i]
    BY <1>1 DEF Record, Attempts
  <1>3. /\ phase' \in Seq(Phases) /\ Len(phase') = n + 1 /\ phase'[n + 1] = "composing"
        /\ \A i \in 1 .. n : phase'[i] = phase[i]
    BY <1>1 DEF Phases
  <1>4. active' = n + 1 /\ queue' = <<>> /\ Range(queue') = {} /\ Range(queue) = {}
    BY <1>1 DEF Range
  <1>. HIDE DEF n
  <1>5. Distinct'
    BY <1>1, <1>2, <1>4 DEF Distinct
  <1>6. Placed'
    BY <1>1, <1>2, <1>3, <1>4 DEF QueueInvariant, Line, Placed
  <1>7. ASSUME NEW i \in 1 .. n  PROVE ~Waiting(i) /\ ~Waiting(i)'
    <2>1. phase[i] # "composing" /\ phase[i] # "queued"
      BY <1>1, <1>4 DEF QueueInvariant, Line, Placed
    <2>. QED  BY <1>3, <2>1 DEF Waiting
  <1>8. Alone'
    BY <1>1, <1>2, <1>7 DEF Alone
  <1>9. Subjects'
    BY <1>1, <1>2, <1>3, <1>7 DEF QueueInvariant, Subjects
  <1>10. Yielding'
    BY <1>1, <1>4 DEF Yielding
  <1>11. active' \in 0 .. Len(attempts') /\ aborted' = FALSE
    BY <1>1, <1>2, <1>4
  <1>. QED
    BY <1>2, <1>3, <1>5, <1>6, <1>8, <1>9, <1>10, <1>11 DEF QueueInvariant, Line

\* A run waits behind the delivery that is under way.
LEMMA RunWaits ==
  ASSUME StoryInvariant, QueueInvariant, NEW c \in 1 .. happened, ~IsQueued(c),
         active # 0,
         attempts' = Record(c, "blocked"), phase' = Append(phase, "queued"),
         queue' = Append(queue, Len(attempts) + 1),
         UNCHANGED <<heard, happened, batch, active, aborted>>
  PROVE  QueueInvariant'
  <1>. DEFINE n == Len(attempts)
  <1>1. /\ n \in Nat /\ Attempts = 1 .. n /\ Len(phase) = n /\ active \in 0 .. n
        /\ attempts \in Seq(AttemptRow) /\ phase \in Seq(Phases) /\ heard \in 0 .. n
        /\ queue \in Seq(1 .. n) /\ Range(queue) \subseteq 1 .. n
    BY DEF StoryInvariant, QueueInvariant, Line, Distinct, Attempts, Range
  <1>2. /\ Len(attempts') = n + 1 /\ Attempts' = 1 .. n + 1 /\ attempts'[n + 1].of = c
        /\ \A i \in 1 .. n : attempts'[i] = attempts[i]
    BY <1>1 DEF Record, Attempts
  <1>3. /\ phase' \in Seq(Phases) /\ Len(phase') = n + 1 /\ phase'[n + 1] = "queued"
        /\ \A i \in 1 .. n : phase'[i] = phase[i]
    BY <1>1 DEF Phases
  <1>4. /\ queue' \in Seq(1 .. n + 1) /\ Len(queue') = Len(queue) + 1
        /\ queue'[Len(queue) + 1] = n + 1 /\ Len(queue) \in Nat
        /\ \A k \in 1 .. Len(queue) : queue'[k] = queue[k] /\ queue[k] \in 1 .. n
    BY <1>1
  <1>5. Range(queue') = Range(queue) \cup {n + 1}
    <2>1. Range(queue) = {queue[k] : k \in 1 .. Len(queue)}
      BY <1>1, RangeEquality
    <2>2. Range(queue') = {queue'[k] : k \in 1 .. Len(queue')}
      <3>. DEFINE q == queue'
      <3>1. q \in Seq(1 .. n + 1)  BY <1>4
      <3>. HIDE DEF q
      <3>2. Range(q) = {q[k] : k \in 1 .. Len(q)}
        BY <3>1, RangeEquality
      <3>. QED  BY <3>2 DEF q
    <2>3. ASSUME NEW x  PROVE x \in Range(queue') <=> x \in Range(queue) \cup {n + 1}
      <3>1. ASSUME NEW k \in 1 .. Len(queue'), x = queue'[k]
            PROVE  x \in Range(queue) \cup {n + 1}
        BY <1>4, <2>1, <3>1
      <3>2. ASSUME NEW k \in 1 .. Len(queue), x = queue[k]
            PROVE  x \in Range(queue')
        BY <1>4, <2>2, <3>2
      <3>3. n + 1 \in Range(queue')
        BY <1>4, <2>2
      <3>. QED  BY <2>1, <2>2, <3>1, <3>2, <3>3
    <2>. QED  BY <2>3
  <1>. HIDE DEF n
  <1>6. Distinct'
    <2>1. ASSUME NEW k \in 1 .. Len(queue'), NEW l \in 1 .. Len(queue'),
                 queue'[k] = queue'[l]
          PROVE  k = l
      BY <1>1, <1>4, <2>1 DEF QueueInvariant, Line, Distinct
    <2>. QED  BY <1>2, <1>4, <2>1 DEF Distinct
  <1>7. Placed'
    BY <1>1, <1>2, <1>3, <1>5 DEF QueueInvariant, Line, Placed
  <1>8. ASSUME NEW i \in 1 .. n
        PROVE  (Waiting(i)' <=> Waiting(i)) /\ (attempts[i].of = c => ~Waiting(i))
    BY <1>1, <1>3, NotQueued DEF Waiting
  <1>9. Alone'
    <2>1. ASSUME NEW i \in 1 .. n, NEW j \in 1 .. n, i # j,
                 attempts[i].of = attempts[j].of, Waiting(i)
          PROVE  ~Waiting(j)
      BY <1>1, <2>1 DEF QueueInvariant, Line, Alone
    <2>2. ASSUME NEW i \in 1 .. n + 1, NEW j \in 1 .. n + 1, i # j,
                 attempts'[i].of = attempts'[j].of, Waiting(i)'
          PROVE  ~Waiting(j)'
      <3>1. CASE i \in 1 .. n /\ j \in 1 .. n
        BY <1>2, <1>8, <2>1, <2>2, <3>1
      <3>2. CASE i = n + 1
        <4>1. j \in 1 .. n  BY <1>1, <2>2, <3>2
        <4>2. attempts[j].of = c  BY <1>2, <2>2, <3>2, <4>1
        <4>. QED  BY <1>8, <4>1, <4>2
      <3>3. CASE j = n + 1
        <4>1. i \in 1 .. n /\ Waiting(i)  BY <1>1, <1>8, <2>2, <3>3
        <4>2. attempts[i].of = c  BY <1>2, <2>2, <3>3, <4>1
        <4>. QED  BY <1>8, <4>1, <4>2
      <3>. QED  BY <1>1, <3>1, <3>2, <3>3
    <2>. QED  BY <1>2, <2>2 DEF Alone
  <1>10. Subjects'
    <2>1. \A i \in 1 .. n : /\ Waiting(i) => attempts[i].of \in 1 .. happened
                            /\ phase[i] = "wording" => attempts[i].of \in Plans
      BY <1>1 DEF QueueInvariant, Subjects
    <2>2. ASSUME NEW i \in 1 .. n + 1
          PROVE  /\ Waiting(i)' => attempts'[i].of \in 1 .. happened'
                 /\ phase'[i] = "wording" => attempts'[i].of \in Plans
      <3>1. CASE i = n + 1
        <4>1. attempts'[i].of = c /\ phase'[i] = "queued" /\ happened' = happened
          BY <1>2, <1>3, <3>1
        <4>. QED  BY <4>1
      <3>2. CASE i \in 1 .. n
        <4>1. attempts'[i] = attempts[i] /\ phase'[i] = phase[i] /\ happened' = happened
          BY <1>2, <1>3, <3>2
        <4>2. /\ Waiting(i) => attempts[i].of \in 1 .. happened
              /\ phase[i] = "wording" => attempts[i].of \in Plans
          BY <2>1, <3>2
        <4>3. Waiting(i)' => Waiting(i)  BY <1>8, <3>2
        <4>. QED  BY <4>1, <4>2, <4>3
      <3>. QED  BY <1>1, <3>1, <3>2
    <2>. QED  BY <1>2, <2>2 DEF Subjects
  <1>11. Yielding'
    BY <1>1, <1>5 DEF QueueInvariant, Yielding
  <1>12. active' \in 0 .. Len(attempts') /\ aborted' = aborted
    <2>1. active' = active /\ active \in 0 .. n  BY <1>1
    <2>. QED  BY <1>1, <1>2, <2>1
  <1>. QED
    BY <1>2, <1>3, <1>6, <1>7, <1>9, <1>10, <1>11, <1>12 DEF QueueInvariant, Line

\* The delivery under way ends, and the loop takes the next or empties the queue.
LEMMA EndsKeeps ==
  ASSUME StoryInvariant, QueueInvariant, SameSubjects,
         NEW i \in Attempts, i = active, Ends(i),
         UNCHANGED <<heard, happened, batch>>
  PROVE  QueueInvariant'
  <1>. DEFINE n == Len(attempts)
  <1>1. /\ n \in Nat /\ Attempts = 1 .. n /\ Len(phase) = n
        /\ phase \in [1 .. n -> Phases] /\ queue \in Seq(1 .. n)
        /\ Len(attempts') = n /\ Attempts' = 1 .. n
    BY DEF StoryInvariant, QueueInvariant, Line, Distinct, Attempts, SameSubjects
  <1>2. /\ \A j \in 1 .. n : phase[j] = "composing" <=> j = i
        /\ \A j \in 1 .. n : phase[j] = "queued" <=> j \in Range(queue)
        /\ \A k \in 1 .. Len(queue), l \in 1 .. Len(queue) : queue[k] = queue[l] => k = l
        /\ \A j \in Range(queue) : j > heard
        /\ \A j \in 1 .. n : attempts'[j].of = attempts[j].of
    BY <1>1 DEF QueueInvariant, Line, Placed, Distinct, Yielding, SameSubjects
  <1>. HIDE DEF n
  \* Nobody begins to wait: the rest follows from where each stands.
  <1>3. ASSUME phase' \in [1 .. n -> Phases], \A j \in 1 .. n : Waiting(j)' => Waiting(j),
               \A j \in 1 .. n : phase'[j] = "wording" => phase[j] = "wording"
        PROVE  Alone' /\ Subjects' /\ phase' \in Seq(Phases) /\ Len(phase') = n
    <2>1. Alone'
      BY <1>1, <1>2, <1>3 DEF QueueInvariant, Line, Alone
    <2>2. Subjects'
      BY <1>1, <1>2, <1>3 DEF QueueInvariant, Subjects
    <2>. QED  BY <1>1, <1>3, <2>1, <2>2
  <1>4. CASE DrainNext
    <2>. DEFINE h == Head(queue)
    <2>1. /\ h = queue[1] /\ h \in 1 .. n /\ h \in Range(queue) /\ h # i
          /\ queue' = Tail(queue) /\ active' = h /\ aborted' = FALSE /\ batch' = "none"
          /\ phase' = [phase EXCEPT ![i] = "done", ![h] = "composing"]
      <3>1. queue # <<>> /\ Len(queue) \in Nat \ {0} /\ batch' = "none"
        BY <1>1, <1>4 DEF DrainNext
      <3>2. h = queue[1] /\ h \in 1 .. n
        BY <1>1, <3>1
      <3>3. h \in Range(queue)
        BY <1>1, <3>1, <3>2 DEF Range
      <3>4. h # i
        <4>1. phase[h] = "queued" /\ phase[i] = "composing"
          BY <1>1, <1>2, <3>2, <3>3
        <4>. QED  BY <4>1
      <3>. QED  BY <1>4, <3>1, <3>2, <3>3, <3>4 DEF Ends
    <2>2. /\ queue' \in Seq(1 .. n) /\ Len(queue') = Len(queue) - 1
          /\ \A k \in 1 .. Len(queue') : queue'[k] = queue[k + 1]
      BY <1>1, <1>4, <2>1 DEF DrainNext
    <2>3. Range(queue') = Range(queue) \ {h}
      <3>. DEFINE q == queue'
      <3>1. q \in Seq(1 .. n)  BY <2>2
      <3>. HIDE DEF q
      <3>2. Range(q) = {q[k] : k \in 1 .. Len(q)}
        BY <3>1, RangeEquality
      <3>3. Range(queue) = {queue[k] : k \in 1 .. Len(queue)}
        BY <1>1, RangeEquality
      <3>4. ASSUME NEW k \in 1 .. Len(q)
            PROVE  q[k] \in Range(queue) \ {h}
        BY <1>1, <1>2, <2>1, <2>2, <3>3 DEF q
      <3>5. ASSUME NEW k \in 1 .. Len(queue), queue[k] # h
            PROVE  queue[k] \in Range(q)
        <4>1. k - 1 \in 1 .. Len(q)  BY <1>1, <2>1, <2>2, <3>5 DEF q
        <4>2. q[k - 1] = queue[k]  BY <1>1, <2>2, <4>1 DEF q
        <4>. QED  BY <3>2, <4>1, <4>2
      <3>. QED  BY <3>2, <3>3, <3>4, <3>5 DEF q
    <2>. HIDE DEF h
    <2>4. Distinct'
      <3>1. ASSUME NEW k \in 1 .. Len(queue'), NEW l \in 1 .. Len(queue'),
                   queue'[k] = queue'[l]
            PROVE  k = l
        <4>1. k + 1 \in 1 .. Len(queue) /\ l + 1 \in 1 .. Len(queue)
          BY <1>1, <2>2
        <4>2. queue[k + 1] = queue[l + 1]  BY <2>2, <3>1
        <4>3. k + 1 = l + 1  BY <1>2, <4>1, <4>2
        <4>. QED  BY <2>2, <4>3
      <3>2. active' # 0  BY <1>1, <2>1
      <3>. QED  BY <1>1, <2>2, <3>1, <3>2 DEF Distinct
    <2>5. Placed'
      BY <1>1, <1>2, <2>1, <2>3 DEF Placed
    <2>6. Yielding'
      BY <1>2, <2>1, <2>3 DEF Yielding
    <2>7. Alone' /\ Subjects' /\ phase' \in Seq(Phases) /\ Len(phase') = n
      <3>1. phase' \in [1 .. n -> Phases]
        BY <1>1, <2>1 DEF Phases
      <3>2. \A j \in 1 .. n : Waiting(j)' => Waiting(j)
        BY <1>1, <1>2, <2>1 DEF Waiting
      <3>. QED  BY <1>1, <1>3, <2>1, <3>1, <3>2
    <2>8. active' \in 0 .. Len(attempts') /\ aborted' = FALSE
      BY <1>1, <2>1
    <2>. QED
      BY <1>1, <2>4, <2>5, <2>6, <2>7, <2>8 DEF QueueInvariant, Line
  <1>5. CASE ~DrainNext
    <2>1. /\ queue' = <<>> /\ active' = 0 /\ aborted' = FALSE
          /\ phase' = [j \in 1 .. n |-> IF j = i \/ j \in Range(queue)
                                        THEN "done" ELSE phase[j]]
      BY <1>1, <1>5 DEF Ends
    <2>2. Range(queue') = {}  BY <2>1 DEF Range
    <2>3. Distinct'
      BY <2>1 DEF Distinct
    <2>4. Placed'
      BY <1>1, <1>2, <2>1, <2>2 DEF Placed
    <2>5. Yielding'
      BY <2>1, <2>2 DEF Yielding
    <2>6. Alone' /\ Subjects' /\ phase' \in Seq(Phases) /\ Len(phase') = n
      <3>1. phase' \in [1 .. n -> Phases]
        BY <1>1, <2>1 DEF Phases
      <3>2. \A j \in 1 .. n : Waiting(j)' => Waiting(j)
        BY <1>1, <2>1 DEF Waiting
      <3>. QED  BY <1>1, <1>3, <2>1, <3>1, <3>2
    <2>7. active' \in 0 .. Len(attempts') /\ aborted' = FALSE
      BY <1>1, <2>1
    <2>. QED
      BY <1>1, <2>3, <2>4, <2>5, <2>6, <2>7 DEF QueueInvariant, Line
  <1>. QED  BY <1>4, <1>5

LEMMA WordingEnds ==
  ASSUME StoryInvariant, QueueInvariant, SameSubjects,
         NEW i \in Attempts, phase[i] = "wording", phase' = [phase EXCEPT ![i] = "done"],
         UNCHANGED <<heard, happened, batch, queue, active, aborted>>
  PROVE  QueueInvariant'
  <1>. DEFINE n == Len(attempts)
  <1>1. /\ n \in Nat /\ Attempts = 1 .. n /\ Len(phase) = n
        /\ phase \in Seq(Phases) /\ Len(attempts') = n /\ Attempts' = 1 .. n
    BY DEF StoryInvariant, QueueInvariant, Line, Distinct, Attempts, SameSubjects
  <1>2. /\ phase' \in Seq(Phases) /\ Len(phase') = n
        /\ \A j \in 1 .. n : phase'[j] = IF j = i THEN "done" ELSE phase[j]
    BY <1>1 DEF Phases
  <1>3. \A j \in 1 .. n : Waiting(j)' <=> Waiting(j)
    BY <1>1, <1>2 DEF Waiting
  <1>4. Distinct' /\ Yielding'
    BY <1>1 DEF QueueInvariant, Line, Distinct, Yielding
  <1>5. Placed'
    BY <1>1, <1>2 DEF QueueInvariant, Line, Placed
  <1>6. Alone'
    BY <1>1, <1>3 DEF QueueInvariant, Line, Alone, SameSubjects
  <1>7. Subjects'
    BY <1>1, <1>2, <1>3 DEF QueueInvariant, Subjects, SameSubjects
  <1>8. active' \in 0 .. Len(attempts') /\ aborted' = aborted
    BY <1>1 DEF QueueInvariant
  <1>. QED
    BY <1>1, <1>2, <1>4, <1>5, <1>6, <1>7, <1>8 DEF QueueInvariant, Line

\* The user speaks: nobody waits any more, and the delivery under way is aborted.
LEMMA UserEmptiesQueue ==
  ASSUME StoryInvariant, QueueInvariant, UserSpeaks
  PROVE  QueueInvariant'
  <1>. DEFINE n == Len(attempts)
  <1>1. /\ n \in Nat /\ Attempts = 1 .. n /\ Len(phase) = n /\ attempts' = attempts
        /\ phase \in [1 .. n -> Phases] /\ Attempts' = 1 .. n /\ active \in 0 .. n
    BY DEF StoryInvariant, QueueInvariant, Line, Distinct, Attempts, UserSpeaks
  <1>2. /\ phase' = [j \in 1 .. n |-> IF j \in Range(queue) THEN "done" ELSE phase[j]]
        /\ queue' = <<>> /\ active' = active /\ happened' = happened
        /\ aborted' = (active # 0)
    BY <1>1 DEF UserSpeaks, Cancel
  <1>3. Range(queue') = {}  BY <1>2 DEF Range
  <1>4. phase' \in Seq(Phases) /\ Len(phase') = n
    BY <1>1, <1>2 DEF Phases
  <1>5. Distinct'
    BY <1>2 DEF Distinct
  <1>6. Placed'
    BY <1>1, <1>2, <1>3 DEF QueueInvariant, Line, Placed
  <1>7. \A j \in 1 .. n : Waiting(j)' => Waiting(j)
    BY <1>1, <1>2 DEF Waiting
  <1>8. Alone'
    BY <1>1, <1>7 DEF QueueInvariant, Line, Alone
  <1>9. Subjects'
    BY <1>1, <1>2, <1>7 DEF QueueInvariant, Subjects
  <1>10. Yielding'
    BY <1>2, <1>3 DEF Yielding
  <1>11. active' \in 0 .. Len(attempts')
    BY <1>1, <1>2
  <1>12. aborted' \in BOOLEAN
    <2>1. CASE active = 0  BY <1>2, <2>1
    <2>2. CASE active # 0  BY <1>2, <2>2
    <2>. QED  BY <2>1, <2>2
  <1>. QED
    BY <1>1, <1>4, <1>5, <1>6, <1>8, <1>9, <1>10, <1>11, <1>12 DEF QueueInvariant, Line

LEMMA DeathEmptiesQueue ==
  ASSUME StoryInvariant, QueueInvariant, SameSubjects, Dies
  PROVE  QueueInvariant'
  <1>. DEFINE n == Len(attempts)
  <1>1. /\ n \in Nat /\ Attempts = 1 .. n /\ Attempts' = 1 .. n /\ Len(attempts') = n
    BY DEF StoryInvariant, Attempts, SameSubjects
  <1>2. /\ phase' = [j \in 1 .. n |-> "done"] /\ queue' = <<>> /\ active' = 0
        /\ aborted' = FALSE
    BY <1>1 DEF Dies
  <1>3. Range(queue') = {}  BY <1>2 DEF Range
  <1>4. phase' \in Seq(Phases) /\ Len(phase') = n
    BY <1>1, <1>2 DEF Phases
  <1>5. Distinct' /\ Placed' /\ Alone'
    BY <1>1, <1>2, <1>3 DEF Distinct, Placed, Alone, Waiting
  <1>6. Subjects' /\ Yielding'
    BY <1>1, <1>2, <1>3 DEF Subjects, Yielding, Waiting
  <1>7. active' \in 0 .. Len(attempts') /\ aborted' = FALSE
    BY <1>1, <1>2
  <1>. QED
    BY <1>1, <1>4, <1>5, <1>6, <1>7 DEF QueueInvariant, Line

-------------------------------------------------------------------------------
(***************************************************************************)
(* The story.                                                              *)
(***************************************************************************)
LEMMA SettledRow ==
  ASSUME StoryInvariant, NEW i \in Attempts, NEW status \in {"blocked", "sent", "failed"},
         Settled(i, status)
  PROVE  /\ SameSubjects /\ attempts'[i].status = status
         /\ \A j \in Attempts : j # i => attempts'[j] = attempts[j]
  <1>1. attempts \in Seq(AttemptRow) /\ Attempts = 1 .. Len(attempts) /\ attempts[i] \in AttemptRow
    BY DEF StoryInvariant, Attempts
  <1>. DEFINE r == [attempts[i] EXCEPT !.status = status]
  <1>2. r \in AttemptRow /\ r.of = attempts[i].of /\ r.status = status
    BY <1>1 DEF AttemptRow
  <1>3. attempts' = [attempts EXCEPT ![i] = r]
    BY DEF Settled
  <1>. HIDE DEF r
  <1>. QED  BY <1>1, <1>2, <1>3 DEF SameSubjects

\* No attempt says that it told an event without a moment, nor is an event told
\* that had one.
LEMMA StoryGoesOn ==
  ASSUME StoryInvariant, SameSubjects, NEW i \in Attempts, attempts[i].of \in Candidates,
         \A j \in Attempts : attempts'[j].status = "sent" =>
            attempts[j].status = "sent" \/ (j = i /\ attempts[i].of \in moments' \cup Plans),
         moments \subseteq moments', moments' \subseteq 1 .. happened',
         \/ said' = said
         \/ /\ said' = [said EXCEPT ![attempts[i].of] = @ + 1]
            /\ attempts[i].of \in Plans \cup (moments' \ moments),
         unanswered' \in Nat, shares' \in Nat, gap' \in BOOLEAN,
         UNCHANGED <<heard, happened, upcoming, batch>>,
         mode' \in {"up", "down"}, UNCHANGED epoch, mode' = "down" => epoch < MaxEpoch
  PROVE  StoryInvariant'
  <1>1. Attempts' = Attempts /\ attempts' \in Seq(AttemptRow)
        /\ \A j \in Attempts : attempts'[j].of = attempts[j].of /\ attempts[j] \in AttemptRow
    BY DEF StoryInvariant, SameSubjects, Attempts
  <1>2. said' \in [Candidates -> Nat]
    BY DEF StoryInvariant
  <1>3. ASSUME NEW c \in Shared
        PROVE  said'[c] <= 1 /\ (said'[c] = 1 => c \in moments')
    <2>1. c \in Candidates /\ c \notin Plans  BY Constants DEF Candidates
    <2>2. said[c] \in Nat /\ said[c] <= 1 /\ (said[c] = 1 => c \in moments)
      BY <2>1 DEF StoryInvariant, LifeSharedOnce
    <2>3. CASE said' = said
      BY <2>2, <2>3
    <2>4. CASE /\ said' = [said EXCEPT ![attempts[i].of] = @ + 1]
               /\ attempts[i].of \in Plans \cup (moments' \ moments)
      <3>1. CASE attempts[i].of = c
        BY <2>1, <2>2, <2>4, <3>1 DEF StoryInvariant
      <3>2. CASE attempts[i].of # c
        BY <2>1, <2>2, <2>4, <3>2 DEF StoryInvariant
      <3>. QED  BY <3>1, <3>2
    <2>. QED  BY <2>3, <2>4
  <1>4. ASSUME NEW c \in Shared, NEW j \in Attempts, attempts'[j] = [of |-> c, status |-> "sent"]
        PROVE  c \in moments'
    <2>1. attempts[j].of = c /\ attempts'[j].status = "sent" /\ c \notin Plans
      BY <1>1, <1>4, Constants
    <2>2. CASE attempts[j].status = "sent"
      <3>1. attempts[j] = [of |-> c, status |-> "sent"]
        BY <1>1, <2>1, <2>2 DEF AttemptRow
      <3>. QED  BY <3>1 DEF StoryInvariant, LifeSharedOnce
    <2>3. CASE j = i /\ attempts[i].of \in moments' \cup Plans
      BY <2>1, <2>3
    <2>. QED  BY <2>1, <2>2, <2>3
  <1>5. LifeSharedOnce'
    BY <1>1, <1>3, <1>4 DEF LifeSharedOnce
  <1>6. Len(attempts') <= MaxAttempts /\ heard' \in 0 .. Len(attempts')
    BY DEF StoryInvariant, SameSubjects
  <1>. QED
    BY <1>1, <1>2, <1>5, <1>6 DEF StoryInvariant

\* A new row tells nothing yet.
LEMMA RunIsRecorded ==
  ASSUME StoryInvariant, NEW c \in Candidates \cup {NoCandidate}, CanRun,
         attempts' = Record(c, "blocked"), UNCHANGED <<durable, world, process>>
  PROVE  StoryInvariant'
  <1>. DEFINE n == Len(attempts)  r == [of |-> c, status |-> "blocked"]
  <1>1. /\ n \in Nat /\ n < MaxAttempts /\ attempts \in Seq(AttemptRow) /\ r \in AttemptRow
        /\ attempts' = Append(attempts, r) /\ Attempts = 1 .. n
    BY DEF StoryInvariant, CanRun, Record, AttemptRow, Attempts
  <1>2. r.status = "blocked"  OBVIOUS
  <1>. HIDE DEF r
  <1>3. /\ attempts' \in Seq(AttemptRow) /\ Len(attempts') = n + 1 /\ Attempts' = 1 .. n + 1
        /\ attempts'[n + 1] = r /\ \A j \in 1 .. n : attempts'[j] = attempts[j]
    BY <1>1 DEF Attempts
  <1>. HIDE DEF n
  <1>4. LifeSharedOnce'
    <2>1. ASSUME NEW d \in Shared
          PROVE  said[d] <= 1 /\ (said[d] = 1 => d \in moments)
      BY DEF StoryInvariant, LifeSharedOnce
    <2>2. ASSUME NEW d \in Shared, NEW j \in 1 .. n + 1,
                 attempts'[j] = [of |-> d, status |-> "sent"]
          PROVE  d \in moments
      <3>1. j \in 1 .. n  BY <1>1, <1>2, <1>3, <2>2
      <3>. QED  BY <1>1, <1>3, <2>2, <3>1 DEF StoryInvariant, LifeSharedOnce
    <2>. QED  BY <1>3, <2>1, <2>2 DEF LifeSharedOnce, durable
  <1>5. Len(attempts') <= MaxAttempts /\ heard' \in 0 .. Len(attempts')
    BY <1>1, <1>3, Constants DEF StoryInvariant, world, n
  <1>. QED
    BY <1>3, <1>4, <1>5 DEF StoryInvariant, durable, world, process

\* A world that turns tells nothing and settles nothing.
LEMMA StoryStays ==
  ASSUME StoryInvariant, UNCHANGED <<attempts, moments, said, heard>>,
         unanswered' \in Nat, shares' \in Nat,
         happened' \in 0 .. Events, happened <= happened', upcoming' \subseteq Plans,
         batch' \in {"none", "user", "retry"}, gap' \in BOOLEAN,
         mode' \in {"up", "down"}, epoch' \in 1 .. MaxEpoch,
         mode' = "down" => epoch' < MaxEpoch
  PROVE  StoryInvariant'
  <1>1. LifeSharedOnce'
    BY DEF StoryInvariant, LifeSharedOnce, Attempts
  <1>2. moments' \subseteq 1 .. happened'
    BY Constants DEF StoryInvariant
  <1>. QED  BY <1>1, <1>2 DEF StoryInvariant

LEMMA SameAttempts ==
  ASSUME StoryInvariant, UNCHANGED attempts
  PROVE  SameSubjects
  BY DEF StoryInvariant, SameSubjects

-------------------------------------------------------------------------------
(***************************************************************************)
(* The steps of a run.                                                     *)
(***************************************************************************)
\* What a delivery under way is about.
LEMMA ComposingFacts ==
  ASSUME InitiativeInvariant, NEW i \in Attempts, Composing(i)
  PROVE  /\ i = active /\ attempts[i].of \in 1 .. happened /\ attempts[i].of \in Shared
         /\ attempts[i].of \in Candidates /\ mode = "up"
  <1>1. phase[i] = "composing" /\ i = active /\ mode = "up"
    BY DEF InitiativeInvariant, QueueInvariant, Line, Placed, Composing
  <1>2. attempts[i].of \in 1 .. happened
    BY <1>1 DEF InitiativeInvariant, QueueInvariant, Subjects, Waiting
  <1>. QED
    BY <1>1, <1>2, Constants DEF InitiativeInvariant, StoryInvariant, Candidates

LEMMA WordingFacts ==
  ASSUME InitiativeInvariant, NEW i \in Attempts, Wording(i)
  PROVE  /\ attempts[i].of \in Plans /\ attempts[i].of \in Candidates
         /\ attempts[i].of \notin Shared /\ phase[i] = "wording" /\ mode = "up"
  BY Constants
  DEF InitiativeInvariant, QueueInvariant, Subjects, Wording, Candidates

LEMMA BlockedKeeps ==
  ASSUME InitiativeInvariant, RunBlocked
  PROVE  InitiativeInvariant'
  <1>1. StoryInvariant'
    BY RunIsRecorded DEF RunBlocked, InitiativeInvariant
  <1>2. QueueInvariant'
    BY RunJoinsBeside DEF RunBlocked, InitiativeInvariant, world
  <1>. QED  BY <1>1, <1>2 DEF InitiativeInvariant

LEMMA EventKeeps ==
  ASSUME InitiativeInvariant, NEW c \in Shared, RunEvent(c)
  PROVE  InitiativeInvariant'
  <1>1. /\ CanRun /\ batch = "none" /\ attempts' = Record(c, "blocked")
        /\ UNCHANGED <<durable, world, process>> /\ c \in Candidates
    BY DEF RunEvent, GatesAreOpen, Candidates
  <1>2. StoryInvariant'
    BY <1>1, RunIsRecorded DEF InitiativeInvariant
  <1>3. c \in 1 .. happened
    <2>1. c \in LifeCandidate \cup upcoming
      BY DEF RunEvent, Selectable
    <2>2. c \notin upcoming
      BY Constants DEF InitiativeInvariant, StoryInvariant
    <2>. QED  BY <2>1, <2>2 DEF LifeCandidate
  <1>4. CASE IsQueued(c)
    <2>1. phase' = Append(phase, "done") /\ UNCHANGED <<queue, active, aborted>>
      BY <1>4 DEF RunEvent
    <2>2. QueueInvariant'
      BY <1>1, <2>1, RunJoinsBeside DEF InitiativeInvariant, world
    <2>. QED  BY <1>2, <2>2 DEF InitiativeInvariant
  <1>5. CASE ~IsQueued(c) /\ active = 0
    <2>1. /\ phase' = Append(phase, "composing") /\ active' = Len(attempts) + 1
          /\ aborted' = FALSE /\ UNCHANGED queue
      BY <1>5 DEF RunEvent
    <2>2. QueueInvariant'
      BY <1>1, <1>3, <1>5, <2>1, RunStarts DEF InitiativeInvariant, world
    <2>. QED  BY <1>2, <2>2 DEF InitiativeInvariant
  <1>6. CASE ~IsQueued(c) /\ active # 0
    <2>1. /\ phase' = Append(phase, "queued") /\ queue' = Append(queue, Len(attempts) + 1)
          /\ UNCHANGED <<active, aborted>>
      BY <1>6 DEF RunEvent
    <2>2. QueueInvariant'
      BY <1>1, <1>3, <1>6, <2>1, RunWaits DEF InitiativeInvariant, world
    <2>. QED  BY <1>2, <2>2 DEF InitiativeInvariant
  <1>. QED  BY <1>4, <1>5, <1>6

LEMMA PlanKeeps ==
  ASSUME InitiativeInvariant, NEW p \in Plans, RunPlan(p)
  PROVE  InitiativeInvariant'
  <1>1. StoryInvariant'
    BY RunIsRecorded DEF RunPlan, InitiativeInvariant, Candidates
  <1>2. QueueInvariant'
    BY RunJoinsBeside DEF RunPlan, InitiativeInvariant, world
  <1>. QED  BY <1>1, <1>2 DEF InitiativeInvariant

\* Nothing is said: the delivery is discarded, fails, or the event had a moment.
LEMMA UnsaidKeeps ==
  ASSUME InitiativeInvariant, NEW i \in Attempts, Composing(i),
         NEW status \in {"blocked", "failed"}, Settled(i, status), Ends(i),
         UNCHANGED <<durable, world, process>>
  PROVE  InitiativeInvariant'
  <1>1. SameSubjects /\ attempts'[i].status = status
        /\ \A j \in Attempts : j # i => attempts'[j] = attempts[j]
    BY SettledRow DEF InitiativeInvariant
  <1>2. StoryInvariant'
    <2>1. \A j \in Attempts : attempts'[j].status = "sent" => attempts[j].status = "sent"
      BY <1>1
    <2>2. /\ UNCHANGED <<moments, said, unanswered, shares, heard, happened, upcoming,
                         batch, gap, mode, epoch>>
      BY DEF durable, world, process
    <2>3. /\ moments \subseteq 1 .. happened /\ unanswered \in Nat /\ shares \in Nat
          /\ gap \in BOOLEAN /\ mode = "up" /\ attempts[i].of \in Candidates
      BY ComposingFacts DEF InitiativeInvariant, StoryInvariant
    <2>. QED
      BY <1>1, <2>1, <2>2, <2>3, StoryGoesOn DEF InitiativeInvariant
  <1>3. QueueInvariant'
    BY <1>1, ComposingFacts, EndsKeeps DEF InitiativeInvariant, world
  <1>. QED  BY <1>2, <1>3 DEF InitiativeInvariant

\* The event gets its moment.  The attempt is settled, the message may be said.
LEMMA MomentKeepsStory ==
  ASSUME InitiativeInvariant, NEW i \in Attempts, Composing(i), IsNew(i),
         NEW status \in {"sent", "failed"}, Settled(i, status),
         moments' = moments \cup {attempts[i].of}, gap' = TRUE,
         Publish(i) \/ UNCHANGED <<said, unanswered, shares>>,
         UNCHANGED <<heard, happened, upcoming, batch, epoch>>,
         mode' \in {"up", "down"}, mode' = "down" => epoch < MaxEpoch
  PROVE  StoryInvariant' /\ SameSubjects
  <1>1. SameSubjects /\ \A j \in Attempts : j # i => attempts'[j] = attempts[j]
    BY SettledRow DEF InitiativeInvariant
  <1>2. attempts[i].of \in 1 .. happened /\ attempts[i].of \in Candidates
        /\ attempts[i].of \in moments' \ moments
    BY ComposingFacts DEF IsNew
  <1>3. moments' \subseteq 1 .. happened'
    BY <1>2 DEF InitiativeInvariant, StoryInvariant
  <1>4. unanswered' \in Nat /\ shares' \in Nat
    BY DEF Publish, InitiativeInvariant, StoryInvariant
  <1>5. \A j \in Attempts : attempts'[j].status = "sent" =>
          attempts[j].status = "sent" \/ (j = i /\ attempts[i].of \in moments' \cup Plans)
    BY <1>1, <1>2
  <1>6. \/ said' = said
        \/ /\ said' = [said EXCEPT ![attempts[i].of] = @ + 1]
           /\ attempts[i].of \in Plans \cup (moments' \ moments)
    BY <1>2 DEF Publish
  <1>7. moments \subseteq moments' /\ gap' \in BOOLEAN
    OBVIOUS
  <1>. QED
    BY <1>1, <1>2, <1>3, <1>4, <1>5, <1>6, <1>7, StoryGoesOn DEF InitiativeInvariant

LEMMA DeliversKeeps ==
  ASSUME InitiativeInvariant, NEW i \in Attempts, Delivers(i)
  PROVE  InitiativeInvariant'
  <1>1. CASE Discard(i)
    BY <1>1, UnsaidKeeps DEF Discard
  <1>2. CASE ComposeFails(i)
    BY <1>2, UnsaidKeeps DEF ComposeFails
  <1>3. CASE Share(i) /\ ~IsNew(i)
    <2>1. /\ Composing(i) /\ Settled(i, "blocked") /\ Ends(i)
          /\ UNCHANGED <<durable, world, process>>
      BY <1>3 DEF Share, world
    <2>. QED  BY <2>1, UnsaidKeeps
  <1>4. ASSUME IsNew(i), Composing(i), NEW status \in {"sent", "failed"},
               Settled(i, status), moments' = moments \cup {attempts[i].of}, gap' = TRUE,
               Publish(i) \/ UNCHANGED <<said, unanswered, shares>>, Ends(i),
               UNCHANGED <<heard, happened, upcoming, batch, process>>
        PROVE  InitiativeInvariant'
    <2>1. mode' = mode /\ epoch' = epoch /\ mode = "up"
      BY <1>4 DEF process, Composing
    <2>2. StoryInvariant' /\ SameSubjects
      BY <1>4, <2>1, MomentKeepsStory
    <2>3. QueueInvariant'
      BY <1>4, <2>2, ComposingFacts, EndsKeeps DEF InitiativeInvariant
    <2>. QED  BY <2>2, <2>3 DEF InitiativeInvariant
  <1>5. CASE Share(i) /\ IsNew(i)
    BY <1>4, <1>5 DEF Share, Moment
  <1>6. CASE ShareUnsaid(i)
    BY <1>4, <1>6 DEF ShareUnsaid, Moment
  <1>7. CASE ShareHalfDone(i)
    BY <1>4, <1>7 DEF ShareHalfDone
  <1>. QED
    BY <1>1, <1>2, <1>3, <1>5, <1>6, <1>7 DEF Delivers

\* A mention is of a plan: whatever its attempt says, no event is told.
LEMMA WordingKeeps ==
  ASSUME InitiativeInvariant, NEW i \in Attempts, WordingFails(i) \/ Mention(i)
  PROVE  InitiativeInvariant'
  <1>1. PICK status \in {"sent", "failed"} : Settled(i, status)
    BY DEF WordingFails, Mention
  <1>2. /\ Wording(i) /\ phase' = [phase EXCEPT ![i] = "done"]
        /\ Publish(i) \/ UNCHANGED <<said, unanswered, shares>>
        /\ UNCHANGED <<moments, heard, happened, upcoming, batch, gap, queue, active,
                       aborted, mode, epoch>>
    BY DEF WordingFails, Mention, durable, world, process
  <1>3. SameSubjects /\ \A j \in Attempts : j # i => attempts'[j] = attempts[j]
    BY <1>1, SettledRow DEF InitiativeInvariant
  <1>4. StoryInvariant'
    <2>1. attempts[i].of \in Plans /\ attempts[i].of \in Candidates /\ mode = "up"
      BY <1>2, WordingFacts
    <2>2. unanswered' \in Nat /\ shares' \in Nat
      BY <1>2 DEF Publish, InitiativeInvariant, StoryInvariant
    <2>3. \A j \in Attempts : attempts'[j].status = "sent" =>
            attempts[j].status = "sent" \/ (j = i /\ attempts[i].of \in moments' \cup Plans)
      BY <1>3, <2>1
    <2>4. \/ said' = said
          \/ /\ said' = [said EXCEPT ![attempts[i].of] = @ + 1]
             /\ attempts[i].of \in Plans \cup (moments' \ moments)
      BY <1>2, <2>1 DEF Publish
    <2>5. /\ moments \subseteq moments' /\ moments' \subseteq 1 .. happened'
          /\ gap' \in BOOLEAN /\ mode' = "up"
      BY <1>2, <2>1 DEF InitiativeInvariant, StoryInvariant
    <2>. QED
      BY <1>2, <1>3, <2>1, <2>2, <2>3, <2>4, <2>5, StoryGoesOn DEF InitiativeInvariant
  <1>5. QueueInvariant'
    BY <1>2, <1>3, WordingFacts, WordingEnds DEF InitiativeInvariant
  <1>. QED  BY <1>4, <1>5 DEF InitiativeInvariant

-------------------------------------------------------------------------------
(***************************************************************************)
(* The steps of the world.                                                 *)
(***************************************************************************)
LEMMA WorldKeeps ==
  ASSUME InitiativeInvariant,
         \/ UserRetries \/ ReplyEnds \/ GapPasses \/ Happens \/ Boot
         \/ \E p \in Plans : PlanPasses(p)
         \/ UNCHANGED vars
  PROVE  InitiativeInvariant'
  <1>1. UNCHANGED <<attempts, moments, said, unanswered, shares, heard, phase, queue,
                    active, aborted>>
    BY DEF UserRetries, ReplyEnds, GapPasses, Happens, Boot, PlanPasses, vars, durable,
           world
  <1>2. happened' \in 0 .. Events /\ happened <= happened' /\ happened' \in Nat
    BY Constants
    DEF UserRetries, ReplyEnds, GapPasses, Happens, Boot, PlanPasses, vars, world,
       InitiativeInvariant, StoryInvariant
  <1>3. upcoming' \subseteq Plans /\ gap' \in BOOLEAN
    BY DEF UserRetries, ReplyEnds, GapPasses, Happens, Boot, PlanPasses, vars, world,
       InitiativeInvariant, StoryInvariant
  <1>4. batch' \in {"none", "user", "retry"} /\ (batch' = "user" => batch = "user")
    BY DEF UserRetries, ReplyEnds, GapPasses, Happens, Boot, PlanPasses, vars, world,
       InitiativeInvariant, StoryInvariant
  <1>5. /\ mode' \in {"up", "down"} /\ epoch' \in 1 .. MaxEpoch
        /\ mode' = "down" => epoch' < MaxEpoch
    <2>1. CASE Boot
      BY <2>1, Constants DEF Boot, InitiativeInvariant, StoryInvariant
    <2>2. CASE ~Boot
      <3>1. UNCHANGED <<mode, epoch>>
        BY <2>2
        DEF UserRetries, ReplyEnds, GapPasses, Happens, PlanPasses, vars, process
      <3>. QED  BY <3>1 DEF InitiativeInvariant, StoryInvariant
    <2>. QED  BY <2>1, <2>2
  <1>6. StoryInvariant'
    <2>1. unanswered' \in Nat /\ shares' \in Nat
      BY <1>1 DEF InitiativeInvariant, StoryInvariant
    <2>. QED  BY <1>1, <1>2, <1>3, <1>4, <1>5, <2>1, StoryStays DEF InitiativeInvariant
  <1>7. QueueInvariant'
    BY <1>1, <1>2, <1>4, SameAttempts, QueueStays DEF InitiativeInvariant
  <1>. QED  BY <1>6, <1>7 DEF InitiativeInvariant

LEMMA UserKeeps ==
  ASSUME InitiativeInvariant, UserSpeaks
  PROVE  InitiativeInvariant'
  <1>1. StoryInvariant'
    <2>1. /\ UNCHANGED <<attempts, moments, said, happened, upcoming, gap, mode, epoch>>
          /\ unanswered' = 0 /\ shares' = 0 /\ heard' = Len(attempts) /\ batch' = "user"
      BY DEF UserSpeaks, process
    <2>2. LifeSharedOnce'
      BY <2>1 DEF InitiativeInvariant, StoryInvariant, LifeSharedOnce, Attempts
    <2>3. heard' \in 0 .. Len(attempts')
      BY <2>1 DEF InitiativeInvariant, StoryInvariant
    <2>. QED  BY <2>1, <2>2, <2>3 DEF InitiativeInvariant, StoryInvariant
  <1>2. QueueInvariant'
    BY UserEmptiesQueue DEF InitiativeInvariant
  <1>. QED  BY <1>1, <1>2 DEF InitiativeInvariant

LEMMA DeathKeeps ==
  ASSUME InitiativeInvariant,
         Crash \/ \E i \in Attempts : CrashUnsaid(i) \/ CrashUnmarked(i)
  PROVE  InitiativeInvariant'
  <1>1. /\ Dies /\ mode' = "down" /\ epoch' = epoch /\ epoch < MaxEpoch
        /\ UNCHANGED <<heard, happened, upcoming, batch>>
    BY DEF Crash, CrashUnsaid, CrashUnmarked, Dies
  <1>2. StoryInvariant' /\ SameSubjects
    <2>1. CASE Crash
      <3>1. UNCHANGED <<attempts, moments, said, unanswered, shares, gap>>
        BY <2>1 DEF Crash, durable
      <3>2. StoryInvariant'
        BY <1>1, <3>1, StoryStays, Constants DEF InitiativeInvariant, StoryInvariant
      <3>. QED  BY <3>1, <3>2, SameAttempts DEF InitiativeInvariant
    <2>2. ASSUME NEW i \in Attempts, CrashUnsaid(i)
          PROVE  StoryInvariant' /\ SameSubjects
      BY <1>1, <2>2, MomentKeepsStory DEF CrashUnsaid, Moment
    <2>3. ASSUME NEW i \in Attempts, CrashUnmarked(i)
          PROVE  StoryInvariant' /\ SameSubjects
      <3>1. attempts' = attempts /\ moments' = moments /\ gap' = gap /\ Publish(i)
            /\ attempts[i].of \in Plans /\ attempts[i].of \in Candidates
        BY <2>3, WordingFacts DEF CrashUnmarked
      <3>2. SameSubjects
        BY <3>1, SameAttempts DEF InitiativeInvariant
      <3>3. unanswered' \in Nat /\ shares' \in Nat
        BY <3>1 DEF Publish, InitiativeInvariant, StoryInvariant
      <3>4. said' = [said EXCEPT ![attempts[i].of] = @ + 1]
        BY <3>1 DEF Publish
      <3>5. /\ moments \subseteq moments' /\ moments' \subseteq 1 .. happened'
            /\ gap' \in BOOLEAN
        BY <1>1, <3>1 DEF InitiativeInvariant, StoryInvariant
      <3>. QED
        BY <1>1, <3>1, <3>2, <3>3, <3>4, <3>5, StoryGoesOn DEF InitiativeInvariant
    <2>. QED  BY <2>1, <2>2, <2>3
  <1>3. QueueInvariant'
    BY <1>1, <1>2, DeathEmptiesQueue DEF InitiativeInvariant
  <1>. QED  BY <1>2, <1>3 DEF InitiativeInvariant

LEMMA StepKeeps ==
  ASSUME InitiativeInvariant, [Next]_vars
  PROVE  InitiativeInvariant'
  <1>1. CASE RunBlocked
    BY <1>1, BlockedKeeps
  <1>2. ASSUME NEW c \in Shared, RunEvent(c) PROVE InitiativeInvariant'
    BY <1>2, EventKeeps
  <1>3. ASSUME NEW p \in Plans, RunPlan(p) PROVE InitiativeInvariant'
    BY <1>3, PlanKeeps
  <1>4. ASSUME NEW i \in Attempts, Answers(i) PROVE InitiativeInvariant'
    BY <1>4, DeliversKeeps, WordingKeeps DEF Answers
  <1>5. CASE Crash \/ \E i \in Attempts : CrashUnsaid(i) \/ CrashUnmarked(i)
    BY <1>5, DeathKeeps
  <1>6. CASE UserSpeaks
    BY <1>6, UserKeeps
  <1>7. CASE \/ UserRetries \/ ReplyEnds \/ GapPasses \/ Happens \/ Boot
             \/ \E p \in Plans : PlanPasses(p)
             \/ UNCHANGED vars
    BY <1>7, WorldKeeps
  <1>. QED
    BY <1>1, <1>2, <1>3, <1>4, <1>5, <1>6, <1>7 DEF Next

-------------------------------------------------------------------------------
(***************************************************************************)
(* The theorems.                                                           *)
(***************************************************************************)
\* The story and the queue stay as the invariant says, whoever speaks and
\* wherever the process dies.
THEOREM InitiativeInvariantHolds == Spec => []InitiativeInvariant
  BY InitKeeps, StepKeeps, PTL DEF Spec

\* An event of her life is told once at most, and never without its moment
\* (proactive.ts publish, moment.repo.ts).
THEOREM TellsLifeOnce == Spec => []LifeSharedOnce
  BY InitiativeInvariantHolds, InvariantGivesProperties, PTL

\* The coordinator composes one delivery at a time, and its queue agrees with
\* the runs that wait (reply-coordinator.ts enqueueProactive, drainProactive).
THEOREM QueueStaysSound == Spec => []QueueIsSound
  BY InitiativeInvariantHolds, InvariantGivesProperties, PTL

\* A share that was decided before the user spoke is never said after it
\* (reply-coordinator.ts cancelProactive, proactive.ts composeLife).
THEOREM UserComesFirst == Spec => YieldsToUser
  <1>1. ASSUME InitiativeInvariant, [Next]_vars, shares' > shares
        PROVE  batch # "user" /\ active > heard
    <2>1. shares \in Nat
      BY <1>1 DEF InitiativeInvariant, StoryInvariant
    <2>2. ASSUME NEW i \in Attempts, Composing(i), ~Discarded
          PROVE  batch # "user" /\ active > heard
      BY <1>1, <2>2
      DEF InitiativeInvariant, QueueInvariant, Yielding, Composing, Discarded
    <2>3. ASSUME NEW i \in Attempts, Answers(i) \/ CrashUnsaid(i) \/ CrashUnmarked(i)
          PROVE  batch # "user" /\ active > heard
      <3>1. CASE Share(i) \/ ShareHalfDone(i)
        BY <2>2, <3>1 DEF Share, ShareHalfDone
      <3>2. CASE Discard(i) \/ ComposeFails(i) \/ ShareUnsaid(i) \/ WordingFails(i)
                 \/ CrashUnsaid(i)
        <4>1. shares' = shares
          BY <3>2
          DEF Discard, ComposeFails, ShareUnsaid, WordingFails, CrashUnsaid, durable
        <4>. QED  BY <1>1, <2>1, <4>1
      <3>3. CASE Mention(i) \/ CrashUnmarked(i)
        <4>1. Wording(i) /\ Publish(i)
          BY <3>3 DEF Mention, CrashUnmarked
        <4>2. shares' = shares
          BY <1>1, <4>1, WordingFacts DEF Publish
        <4>. QED  BY <1>1, <2>1, <4>2
      <3>. QED  BY <2>3, <3>1, <3>2, <3>3 DEF Answers, Delivers
    <2>4. CASE UserSpeaks
      BY <1>1, <2>1, <2>4 DEF UserSpeaks
    <2>5. CASE RunBlocked \/ (\E c \in Shared : RunEvent(c))
               \/ (\E p \in Plans : RunPlan(p) \/ PlanPasses(p))
               \/ UserRetries \/ ReplyEnds \/ GapPasses \/ Happens \/ Crash \/ Boot
               \/ UNCHANGED vars
      <3>1. shares' = shares
        BY <2>5 DEF RunBlocked, RunEvent, RunPlan, PlanPasses, UserRetries, ReplyEnds,
           GapPasses, Happens, Crash, Boot, vars, durable
      <3>. QED  BY <1>1, <2>1, <3>1
    <2>. QED  BY <1>1, <2>3, <2>4, <2>5 DEF Next
  <1>2. InitiativeInvariant /\ [Next]_vars =>
          [shares' > shares => batch # "user" /\ active > heard]_vars
    BY <1>1
  <1>. QED
    BY <1>2, InitiativeInvariantHolds, PTL DEF Spec, YieldsToUser
===============================================================================
