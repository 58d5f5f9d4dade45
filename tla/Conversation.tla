----------------------------- MODULE Conversation -----------------------------
(***************************************************************************)
(* What the reply coordinator promises its user, without batches,          *)
(* revisions, leases, timers or processes.  A message waits until it is    *)
(* settled, and messages are settled together: a reply commits to          *)
(* everything said so far that is not settled yet, or the coordinator      *)
(* gives up on all of it.  Nothing that is settled waits again.            *)
(***************************************************************************)
CONSTANT Messages

VARIABLES
  waiting,    \* accepted, no reply has committed to them
  committed,  \* a reply that answers them may be seen: it can no longer change
  dropped     \* the coordinator reported a failure for them

cvars == <<waiting, committed, dropped>>

Init == waiting = {} /\ committed = {} /\ dropped = {}

Say(m) ==
  /\ m \notin waiting \cup committed \cup dropped
  /\ waiting' = waiting \cup {m}
  /\ UNCHANGED <<committed, dropped>>

Commit ==
  /\ waiting # {}
  /\ waiting' = {}
  /\ committed' = committed \cup waiting
  /\ UNCHANGED dropped

GiveUp ==
  /\ waiting # {}
  /\ waiting' = {}
  /\ dropped' = dropped \cup waiting
  /\ UNCHANGED committed

Next == (\E m \in Messages : Say(m)) \/ Commit \/ GiveUp

Spec == Init /\ [][Next]_cvars

FairSpec == Spec /\ WF_cvars(Commit \/ GiveUp)
===============================================================================
