---------------------------- MODULE MCCommitments ----------------------------
EXTENDS Commitments

Plan(kind, dated, firm, reminds) ==
  [topic |-> "exam", kind |-> kind, dated |-> dated, firm |-> firm, reminds |-> reminds]

\* A reminder without a date, and an event with one that is not certain yet.
MCMentions ==
  {Plan("reminder_request", FALSE, TRUE, TRUE), Plan("user_event", TRUE, FALSE, TRUE)}
===============================================================================
