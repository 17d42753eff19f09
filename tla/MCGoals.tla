------------------------------- MODULE MCGoals -------------------------------
(* Two goals of two turns, two messages, one resumption, one crash. *)
EXTENDS Goals
==============================================================================
