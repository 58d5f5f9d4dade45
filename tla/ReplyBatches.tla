----------------------------- MODULE ReplyBatches -----------------------------
(***************************************************************************)
(* The rows of the reply_batches table and the fenced UPDATE statements of *)
(* db/repos/reply-batch.repo.ts.  A statement "UPDATE ... SET s WHERE w"   *)
(* is a pair of operators: CanX(r, ...) for w and an operator for s.       *)
(*                                                                         *)
(* Data kept of a row:                                                     *)
(*   status   the status column, "none" while the row does not exist       *)
(*   rev      revision, bumped by every admitted message and user retry    *)
(*   visible  visible_at IS NOT NULL: the publish barrier has been opened  *)
(*   owner    lease_owner, the incarnation of the worker; 0 for NULL       *)
(*   leased   lease_expires_at lies in the future                          *)
(*   retries  retry_count                                                  *)
(*   partial  meta_json.$.partial                                          *)
(*   linked   assistant_message_id IS NOT NULL                             *)
(* Timestamps, attempts and error texts are left out: no statement reads   *)
(* them.  The statuses "superseded" and "cancelled" are left out: the only *)
(* statements that write them have no caller.                              *)
(***************************************************************************)
EXTENDS Naturals

Statuses == {"none", "collecting", "queued", "generating", "publishing",
             "completed", "failed"}

OpenStatuses == {"collecting", "queued", "generating", "publishing"}

NoRow == [status |-> "none", rev |-> 0, visible |-> FALSE, owner |-> 0,
          leased |-> FALSE, retries |-> 0, partial |-> FALSE,
          linked |-> FALSE]

\* The three statements that admit a user message.
NewRow == [NoRow EXCEPT !.status = "collecting", !.rev = 1]

CanAppend(r) == r.status \in {"collecting", "queued"} /\ ~r.visible

Appended(r) == [r EXCEPT !.rev = @ + 1, !.status = "collecting", !.retries = 0]

CanInterrupt_NeedsLease(r) == r.status = "generating" /\ ~r.visible /\ r.leased
CanInterrupt(r) == r.status = "generating" /\ ~r.visible

Interrupted(r) ==
  [r EXCEPT !.rev = @ + 1, !.status = "collecting", !.retries = 0,
            !.owner = 0, !.leased = FALSE]

CanMarkQueued(r) == r.status = "collecting" /\ ~r.visible

CanBeginGenerating(r, rev) == r.status = "queued" /\ r.rev = rev

Generating(r, owner) ==
  [r EXCEPT !.status = "generating", !.owner = owner, !.leased = TRUE]

CanBeginPublishing_Unfenced(r, rev) == ~r.visible

\* The publish barrier.
CanBeginPublishing(r, rev) ==
  /\ r.rev = rev
  /\ r.status = "generating"
  /\ ~r.visible

Publishing(r, owner) ==
  [r EXCEPT !.status = "publishing", !.visible = TRUE, !.owner = owner,
            !.leased = TRUE]

CanRenewLease_HiddenOnly(r, owner) ==
  r.status = "generating" /\ r.owner = owner

CanRenewLease(r, owner) ==
  r.status \in {"generating", "publishing"} /\ r.owner = owner

CanComplete(r, rev, owner) ==
  r.rev = rev /\ r.status = "publishing" /\ r.owner = owner

Completed(r, partial) ==
  [r EXCEPT !.status = "completed", !.linked = TRUE, !.owner = 0,
            !.leased = FALSE, !.partial = @ \/ partial]

CanFail(r, rev, owner) == r.rev = rev /\ r.owner = owner

Failed(r) == [r EXCEPT !.status = "failed", !.owner = 0, !.leased = FALSE]

CanRetry(r) == r.status = "failed" \/ (r.status = "completed" /\ r.partial)

Retried_ClearsBarrier(r) ==
  [r EXCEPT !.status = "queued", !.rev = @ + 1, !.retries = 0, !.owner = 0,
            !.leased = FALSE, !.visible = FALSE]

Retried(r) ==
  [r EXCEPT !.status = "queued", !.rev = @ + 1, !.retries = 0, !.owner = 0,
            !.leased = FALSE]

CanPrepareRetry(r, rev, owner) ==
  /\ r.rev = rev
  /\ r.status = "generating"
  /\ r.owner = owner
  /\ ~r.visible

RetryPrepared(r) ==
  [r EXCEPT !.status = "queued", !.retries = @ + 1, !.owner = 0,
            !.leased = FALSE]

CanRequeue(r, rev, owner) ==
  r.rev = rev /\ r.status = "generating" /\ r.owner = owner

Requeued(r) == [r EXCEPT !.status = "queued", !.owner = 0, !.leased = FALSE]

(***************************************************************************)
(* recoverOpen(), as one row sees its transaction.  hasShell: an assistant *)
(* message of the batch is stored; due: the row's due_at has passed.       *)
(***************************************************************************)
LostItsModel_IgnoresBarrier(r) ==
  r.status \in {"generating", "publishing"} /\ ~r.leased
LostItsModel_NullLeaseOnly(r) ==
  r.status \in {"generating", "publishing"} /\ ~r.visible /\ r.owner = 0

LostItsModel(r) ==
  r.status \in {"generating", "publishing"} /\ ~r.visible /\ ~r.leased

KeptAsPartial_Regenerates(r) ==
  [r EXCEPT !.status = "queued", !.visible = FALSE, !.owner = 0,
            !.leased = FALSE]

KeptAsPartial(r) ==
  [r EXCEPT !.status = "completed", !.partial = TRUE, !.owner = 0,
            !.leased = FALSE]

Relinked(r, hasShell) ==
  [r EXCEPT !.linked =
      @ \/ (r.status = "completed" /\ r.partial /\ hasShell)]

Recovered(r, hasShell, due) ==
  CASE LostItsModel(r) -> Requeued(r)
    [] r.status = "publishing" /\ r.visible -> Relinked(KeptAsPartial(r), hasShell)
    [] r.status = "collecting" /\ due -> [r EXCEPT !.status = "queued"]
    [] OTHER -> Relinked(r, hasShell)
===============================================================================
