------------------------------- MODULE Gateway -------------------------------
(***************************************************************************)
(* What the models of goals, of memory and of prompts have in common: the  *)
(* runs they are about, numbered as they were submitted, and the deaths of *)
(* the process they all live in.  Each of the three is a specification of  *)
(* its own, and counts the deaths itself.                                  *)
(***************************************************************************)
EXTENDS Integers

CONSTANTS MaxRuns,     \* bound: runs ever submitted, or reviewed
          MaxCrashes   \* bound: deaths of the gateway

ASSUME GatewayAssumption == MaxRuns \in Nat /\ MaxCrashes \in Nat

Runs == 1..MaxRuns

VARIABLE crashes
==============================================================================
