------------------------------ MODULE Initiative ------------------------------
(***************************************************************************)
(* She speaks first: ProactiveComposer with its attempts and moments, and  *)
(* the queue for proactive deliveries in ReplyCoordinator.                  *)
(*                                                                         *)
(* run() decides at once and composes later.  An event of her life waits   *)
(* in the queue of the coordinator, yields to the user and is recorded as  *)
(* a moment before it is said; a commitment of the user is composed beside *)
(* the queue and said as soon as the model answers.  A run is known by its *)
(* row in proactive_attempts.                                              *)
(*                                                                         *)
(* QQ delivery is on.  The gates owned by other components (silent hours,  *)
(* sleep, daily cap, a delivery in flight, no chat model, a recent topic)  *)
(* may block any run.                                                      *)
(***************************************************************************)
EXTENDS Naturals, Sequences, FiniteSets, SequencesExt

CONSTANTS
  Events,         \* bound: events of her life that are worth sharing
  Plans,          \* commitments of the user, known by numbers as well
  Window,         \* attempts.list(50): the attempts evaluate() remembers
  MaxUnanswered,  \* MAX_UNANSWERED_PROACTIVE
  MaxAttempts,    \* bound: rows of proactive_attempts
  MaxEpoch        \* bound: incarnations of the process (crashes + 1)

ASSUME InitiativeConstants ==
  /\ Events \in Nat /\ Plans \subseteq Nat \ (0 .. Events)
  /\ Window \in Nat \ {0} /\ MaxUnanswered \in Nat \ {0}
  /\ MaxAttempts \in Nat /\ MaxEpoch \in Nat \ {0}

VARIABLES
  attempts,   \* durable: proactive_attempts, oldest first
  moments,    \* durable: the events with a moment; they are marked shared
  said,       \* durable: how often a message about each candidate was published
  unanswered, \* durable: proactive messages since the user spoke
  shares,     \* of these, the ones about her life
  heard,      \* history: the attempts made before the user last spoke
  happened,   \* durable: the events that have happened, by their order
  upcoming,   \* durable: the commitments worth a mention
  batch,      \* the open reply batch, and who opened it
  gap,        \* the latest moment is younger than the quiet gap
  phase,      \* what the run of each attempt is doing
  queue,      \* proactiveQueue
  active,     \* proactiveActive: its attempt, or 0
  aborted,    \* the signal of the active delivery
  mode, epoch

vars == <<attempts, moments, said, unanswered, shares, heard, happened, upcoming,
          batch, gap, phase, queue, active, aborted, mode, epoch>>

Shared == 1 .. Events
Candidates == Shared \cup Plans
Attempts == DOMAIN attempts
NoCandidate == 0

Init ==
  /\ attempts = <<>> /\ phase = <<>> /\ queue = <<>>
  /\ moments = {} /\ said = [c \in Candidates |-> 0]
  /\ unanswered = 0 /\ shares = 0 /\ heard = 0
  /\ happened = 0 /\ upcoming = Plans
  /\ batch = "none" /\ gap = FALSE
  /\ active = 0 /\ aborted = FALSE
  /\ mode = "up" /\ epoch = 1

durable == <<moments, said, unanswered, shares>>
world == <<heard, happened, upcoming, batch, gap>>
process == <<mode, epoch>>

-------------------------------------------------------------------------------
(***************************************************************************)
(* evaluate().                                                             *)
(***************************************************************************)
GatesAreOpen == ~gap /\ batch = "none"

\* shouldReachOut(): the latest event that was not shared.
LifeCandidate == {c \in 1 .. happened \ moments :
                    \A d \in 1 .. happened \ moments : d <= c}

\* Ignored too often, she stops sharing her day; commitments go on.
MayShare(c) == c \in Shared => unanswered < MaxUnanswered

\* Candidates with a 'sent' attempt among the latest attempts of any kind.
RecentlySent ==
  {attempts[i].of : i \in {j \in Attempts : /\ attempts[j].status = "sent"
                                            /\ j + Window > Len(attempts)}}

\* arbitrate(): every candidate that was not sent has a positive score, and any
\* of them may have the best one.
Selectable ==
  {c \in LifeCandidate \cup upcoming : MayShare(c)} \ RecentlySent

Record(c, status) == Append(attempts, [of |-> c, status |-> status])

-------------------------------------------------------------------------------
(***************************************************************************)
(* run() up to its first await.                                            *)
(***************************************************************************)
CanRun == mode = "up" /\ Len(attempts) < MaxAttempts

\* A gate is closed, or there is no candidate.
RunBlocked ==
  /\ CanRun
  /\ attempts' = Record(NoCandidate, "blocked") /\ phase' = Append(phase, "done")
  /\ UNCHANGED <<durable, world, queue, active, aborted, process>>

IsQueued_Waiting(c) == \E i \in Range(queue) : attempts[i].of = c
IsQueued(c) == \E i \in Range(queue) \cup ({active} \ {0}) : attempts[i].of = c

\* enqueueProactive(): the same event is not queued twice.
RunEvent(c) ==
  LET me == Len(attempts) + 1 IN
  /\ CanRun /\ GatesAreOpen /\ c \in Selectable \cap Shared
  /\ attempts' = Record(c, "blocked")
  /\ CASE IsQueued(c) ->
            /\ phase' = Append(phase, "done")
            /\ UNCHANGED <<queue, active, aborted>>
       [] ~IsQueued(c) /\ active = 0 ->
            /\ phase' = Append(phase, "composing")
            /\ active' = me /\ aborted' = FALSE /\ UNCHANGED queue
       [] ~IsQueued(c) /\ active # 0 ->
            /\ phase' = Append(phase, "queued")
            /\ queue' = Append(queue, me) /\ UNCHANGED <<active, aborted>>
  /\ UNCHANGED <<durable, world, process>>

\* Commitments do not pass through the queue.
RunPlan(p) ==
  /\ CanRun /\ GatesAreOpen /\ p \in Selectable \cap Plans
  /\ attempts' = Record(p, "blocked") /\ phase' = Append(phase, "wording")
  /\ UNCHANGED <<durable, world, queue, active, aborted, process>>

-------------------------------------------------------------------------------
(***************************************************************************)
(* A delivery of the coordinator.  When it ends the loop takes the next.   *)
(***************************************************************************)
\* drainProactive(): a batch may have opened while the task waited.
DrainNext == queue # <<>> /\ batch = "none"

Ends(i) ==
  IF DrainNext
    THEN /\ active' = Head(queue) /\ queue' = Tail(queue) /\ aborted' = FALSE
         /\ phase' = [phase EXCEPT ![i] = "done", ![Head(queue)] = "composing"]
    ELSE /\ active' = 0 /\ queue' = <<>> /\ aborted' = FALSE
         /\ phase' = [j \in Attempts |-> IF j = i \/ j \in Range(queue)
                                           THEN "done" ELSE phase[j]]

Composing(i) == mode = "up" /\ active = i /\ i # 0

Settled(i, status) == attempts' = [attempts EXCEPT ![i].status = status]

\* The signal was aborted: the message is discarded.
Discarded == aborted

Discard(i) ==
  /\ Composing(i) /\ Discarded
  /\ Settled(i, "blocked") /\ Ends(i)
  /\ UNCHANGED <<durable, world, process>>

\* The model fails, or its words are no share plan, twice.
ComposeFails(i) ==
  /\ Composing(i) /\ ~Discarded
  /\ Settled(i, "failed") /\ Ends(i)
  /\ UNCHANGED <<durable, world, process>>

SentOnce(i) ==
  \A j \in Attempts \ {i} : attempts[j].of = attempts[i].of => attempts[j].status # "sent"

\* moments.candidate_id is unique, and so is the sent attempt of a candidate.
IsNew(i) == attempts[i].of \notin moments /\ SentOnce(i)

\* One transaction: the moment, the attempt, the mark in her life log.
Moment_Unrecorded(i) ==
  /\ Settled(i, "sent") /\ gap' = TRUE /\ UNCHANGED moments
Moment(i) ==
  /\ moments' = moments \cup {attempts[i].of} /\ Settled(i, "sent")
  /\ gap' = TRUE

\* publishProactiveMessage(): the message and its event in one transaction.
Publish(i) ==
  /\ said' = [said EXCEPT ![attempts[i].of] = @ + 1]
  /\ unanswered' = unanswered + 1
  /\ shares' = IF attempts[i].of \in Shared THEN shares + 1 ELSE shares

\* A second moment of the event is refused: 'candidate_already_sent'.
Share(i) ==
  /\ Composing(i) /\ ~Discarded
  /\ IF IsNew(i) THEN Moment(i) /\ Publish(i)
                 ELSE Settled(i, "blocked") /\ UNCHANGED <<durable, gap>>
  /\ Ends(i)
  /\ UNCHANGED <<heard, happened, upcoming, batch, process>>

\* Publishing fails: the moment stays, unsaid.
ShareUnsaid(i) ==
  /\ Composing(i) /\ ~Discarded /\ IsNew(i)
  /\ Moment(i) /\ Ends(i)
  /\ UNCHANGED <<said, unanswered, shares, heard, happened, upcoming, batch, process>>

\* The job or the attempt cannot be written after the message.
ShareHalfDone(i) ==
  /\ Composing(i) /\ ~Discarded /\ IsNew(i)
  /\ moments' = moments \cup {attempts[i].of} /\ gap' = TRUE
  /\ Publish(i) /\ Settled(i, "failed") /\ Ends(i)
  /\ UNCHANGED <<heard, happened, upcoming, batch, process>>

-------------------------------------------------------------------------------
(***************************************************************************)
(* runCommitmentCandidate(): no gate is looked at again.  The message is   *)
(* published before its attempt is marked, and nothing takes it back.      *)
(***************************************************************************)
Wording(i) == mode = "up" /\ phase[i] = "wording"

WordingFails(i) ==
  /\ Wording(i)
  /\ Settled(i, "failed") /\ phase' = [phase EXCEPT ![i] = "done"]
  /\ UNCHANGED <<durable, world, queue, active, aborted, process>>

Mention(i) ==
  /\ Wording(i) /\ Publish(i)
  /\ Settled(i, IF SentOnce(i) THEN "sent" ELSE "failed")
  /\ phase' = [phase EXCEPT ![i] = "done"]
  /\ UNCHANGED <<moments, world, queue, active, aborted, process>>

-------------------------------------------------------------------------------
(***************************************************************************)
(* The user, the world and the process.                                    *)
(***************************************************************************)
\* cancelProactive(): the queue is emptied, the active delivery aborted.
Cancel_QueueOnly == UNCHANGED aborted
Cancel == aborted' = (active # 0)

UserSpeaks ==
  /\ mode = "up" /\ batch' = "user"
  /\ unanswered' = 0 /\ shares' = 0 /\ heard' = Len(attempts)
  /\ queue' = <<>> /\ Cancel
  /\ phase' = [j \in Attempts |-> IF j \in Range(queue) THEN "done" ELSE phase[j]]
  /\ UNCHANGED <<attempts, moments, said, happened, upcoming, gap, active, process>>

\* retryBatch() opens a batch and cancels nothing.
UserRetries ==
  /\ mode = "up" /\ batch = "none" /\ batch' = "retry"
  /\ UNCHANGED <<attempts, durable, heard, happened, upcoming, gap, phase, queue, active,
                 aborted, process>>

ReplyEnds ==
  /\ mode = "up" /\ batch # "none" /\ batch' = "none"
  /\ UNCHANGED <<attempts, durable, heard, happened, upcoming, gap, phase, queue, active,
                 aborted, process>>

GapPasses ==
  /\ gap /\ gap' = FALSE
  /\ UNCHANGED <<attempts, durable, heard, happened, upcoming, batch, phase, queue, active,
                 aborted, process>>

Happens ==
  /\ mode = "up" /\ happened < Events /\ happened' = happened + 1
  /\ UNCHANGED <<attempts, durable, heard, upcoming, batch, gap, phase, queue, active,
                 aborted, process>>

\* Resolved, archived or past its window.
PlanPasses(p) ==
  /\ p \in upcoming /\ upcoming' = upcoming \ {p}
  /\ UNCHANGED <<attempts, durable, heard, happened, batch, gap, phase, queue, active,
                 aborted, process>>

Dies ==
  /\ mode = "up" /\ epoch < MaxEpoch
  /\ mode' = "down" /\ queue' = <<>> /\ active' = 0 /\ aborted' = FALSE
  /\ phase' = [j \in Attempts |-> "done"]
  /\ UNCHANGED <<epoch, heard, happened, upcoming, batch>>

Crash == Dies /\ UNCHANGED <<attempts, durable, gap>>

\* Between the two transactions of Share, and between those of Mention.
CrashUnsaid(i) ==
  /\ Composing(i) /\ ~Discarded /\ IsNew(i) /\ Dies
  /\ Moment(i) /\ UNCHANGED <<said, unanswered, shares>>

CrashUnmarked(i) ==
  /\ Wording(i) /\ Dies
  /\ Publish(i) /\ UNCHANGED <<attempts, moments, gap>>

Boot ==
  /\ mode = "down"
  /\ mode' = "up" /\ epoch' = epoch + 1
  /\ UNCHANGED <<attempts, durable, world, phase, queue, active, aborted>>

Delivers(i) ==
  \/ Discard(i) \/ ComposeFails(i)
  \/ Share(i) \/ ShareUnsaid(i) \/ ShareHalfDone(i)

Answers(i) == Delivers(i) \/ WordingFails(i) \/ Mention(i)

Next ==
  \/ RunBlocked
  \/ \E c \in Shared : RunEvent(c)
  \/ \E p \in Plans : RunPlan(p) \/ PlanPasses(p)
  \/ \E i \in Attempts : Answers(i) \/ CrashUnsaid(i) \/ CrashUnmarked(i)
  \/ UserSpeaks \/ UserRetries \/ ReplyEnds \/ GapPasses \/ Happens
  \/ Crash \/ Boot

Spec == Init /\ [][Next]_vars

-------------------------------------------------------------------------------
(***************************************************************************)
(* Properties                                                              *)
(***************************************************************************)
TypeOK ==
  /\ attempts \in Seq([of : Candidates \cup {NoCandidate}, status : {"blocked", "sent", "failed"}])
  /\ phase \in Seq({"queued", "composing", "wording", "done"})
  /\ Len(phase) = Len(attempts) /\ Len(attempts) <= MaxAttempts
  /\ moments \subseteq 1 .. happened /\ said \in [Candidates -> Nat]
  /\ unanswered \in Nat /\ shares \in Nat /\ heard \in 0 .. Len(attempts)
  /\ happened \in 0 .. Events /\ upcoming \subseteq Plans
  /\ batch \in {"none", "user", "retry"} /\ gap \in BOOLEAN
  /\ active \in Attempts \cup {0} /\ Range(queue) \subseteq Attempts
  /\ aborted \in BOOLEAN /\ mode \in {"up", "down"} /\ epoch \in 1 .. MaxEpoch

\* An event of her life is told once at most, never without its moment, and an
\* attempt that says 'sent' has one, wherever a run fails or the process dies.
LifeSharedOnce ==
  \A c \in Shared :
    /\ said[c] <= 1 /\ (said[c] = 1 => c \in moments)
    /\ \A i \in Attempts : attempts[i] = [of |-> c, status |-> "sent"] => c \in moments

\* The coordinator composes one delivery at a time, of an event nobody has told
\* and nobody else is waiting to tell.
Waiting(i) == phase[i] \in {"queued", "composing"}

Placed ==
  \A i \in Attempts : /\ phase[i] = "composing" <=> i = active
                      /\ phase[i] = "queued" <=> i \in Range(queue)
Alone ==
  \A i \in Attempts, j \in Attempts :
    i # j /\ attempts[i].of = attempts[j].of /\ Waiting(i) => ~Waiting(j)

OneDelivery == Placed /\ Alone /\ (queue # <<>> => active # 0)

\* The queue of the coordinator and the runs that wait for it agree.
QueueIsSound == TypeOK /\ OneDelivery

\* A share that was decided before the user spoke is never said after it, and
\* none is said into the answer: it is aborted "the moment a user message arrives".
YieldsToUser ==
  [][shares' > shares => batch # "user" /\ active > heard]_vars
===============================================================================
