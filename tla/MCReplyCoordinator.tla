-------------------------- MODULE MCReplyCoordinator --------------------------
(* Instances of ReplyCoordinator for TLC. *)
EXTENDS ReplyCoordinator, TLC

MessageSymmetry == Permutations(Messages)
===============================================================================
