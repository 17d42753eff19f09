---------------------------- MODULE RunLifecycle ----------------------------
(***************************************************************************)
(* What the run queue promises its users, with no workers, coroutines or   *)
(* restarts: a conversation executes its runs one at a time and in the     *)
(* order they were submitted, and a run that has an outcome keeps it.      *)
(***************************************************************************)
EXTENDS Integers, Sequences

CONSTANTS
    Conversations,  \* the conversations runs are submitted to
    MaxRuns         \* runs are numbered 1 .. MaxRuns in the order submitted

VARIABLES
    conv,           \* conv[r]: the conversation of run r, for the submitted runs
    status          \* status[r]: "absent" before r is submitted

vars == <<conv, status>>

Runs == 1 .. MaxRuns
Outcomes == {"completed", "failed", "cancelled", "interrupted", "orphaned"}

Init ==
    /\ conv = <<>>
    /\ status = [r \in Runs |-> "absent"]

Submit(c) ==
    /\ Len(conv) < MaxRuns
    /\ conv' = Append(conv, c)
    /\ status' = [status EXCEPT ![Len(conv) + 1] = "queued"]

(* The oldest queued run of an idle conversation starts. *)
Start(r) ==
    /\ r \in DOMAIN conv
    /\ status[r] = "queued"
    /\ \A q \in DOMAIN conv : conv[q] = conv[r] =>
          /\ status[q] # "running"
          /\ status[q] = "queued" => r <= q
    /\ status' = [status EXCEPT ![r] = "running"]
    /\ UNCHANGED conv

(* A queued run can only be cancelled; running ones end in any outcome,    *)
(* several at once when a restart finds their workers gone.                *)
CancelQueued(r) ==
    /\ status[r] = "queued"
    /\ status' = [status EXCEPT ![r] = "cancelled"]
    /\ UNCHANGED conv

Settle(R) ==
    /\ R # {}
    /\ \A r \in R : status[r] = "running"
    /\ \E outcome \in [R -> Outcomes] :
          status' = [r \in Runs |-> IF r \in R THEN outcome[r] ELSE status[r]]
    /\ UNCHANGED conv

Next ==
    \/ \E c \in Conversations : Submit(c)
    \/ \E r \in Runs : Start(r) \/ CancelQueued(r)
    \/ \E R \in SUBSET Runs : Settle(R)

Spec == Init /\ [][Next]_vars
=============================================================================
