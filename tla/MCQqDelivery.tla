----------------------------- MODULE MCQqDelivery -----------------------------
(***************************************************************************)
(* Constants of QqDelivery for TLC: a passive reply of three lines in two  *)
(* paragraphs with one picture, and a proactive message of two lines.      *)
(***************************************************************************)
EXTENDS QqDelivery

MCLines == [m \in Messages |-> IF m = "reply" THEN 3 ELSE 2]
MCParagraphs == [m \in Messages |-> IF m = "reply" THEN 2 ELSE 1]
MCMedia == [m \in Messages |-> IF m = "reply" THEN 1 ELSE 0]
===============================================================================
