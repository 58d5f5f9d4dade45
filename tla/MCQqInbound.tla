------------------------------ MODULE MCQqInbound ------------------------------
(***************************************************************************)
(* Constants of QqInbound for TLC.  "again" repeats the message of         *)
(* "picture" under another event id, "answer" quotes it, "second" and      *)
(* "stranger" come from other users, of whom the first is allowed.         *)
(***************************************************************************)
EXTENDS QqInbound

MCMsgOf ==
  [e \in Events |-> IF e \in {"picture", "again"} THEN "m1" ELSE "m-" \o e]

MCUserOf ==
  [e \in Events |-> IF e \in {"second", "stranger"} THEN e ELSE "first"]

MCAllowed == {"first", "second"}

MCQuote == [e \in Events |-> IF e = "answer" THEN "m1" ELSE "none"]
===============================================================================
