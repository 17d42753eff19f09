---------------------------- MODULE MCTaskFlow ----------------------------
(* Two tasks of one flow, two attempts each, one worker. *)
EXTENDS TaskFlow
=============================================================================
