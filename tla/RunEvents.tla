------------------------------ MODULE RunEvents ------------------------------
(***************************************************************************)
(* The event log of one run and the decisions GravityClaw takes from it:   *)
(* how a worker's output is folded into the log exactly once, and how the  *)
(* log of a finished worker becomes the final status of the run.           *)
(*                                                                         *)
(* An event is a record [kind, src].  src is the worker's source sequence, *)
(* 0 for an event the gateway writes itself.  A worker's output is the     *)
(* sequence of the kinds of its envelopes: envelope i has sequence i.      *)
(* Kinds that no decision reads (stderr, worker_exit, usage) are           *)
(* represented by "message.delta".  "agent.empty" is an agent.completed    *)
(* whose response is blank.  "foreign" is an envelope that reports a       *)
(* backend conversation other than the one the conversation is bound to.   *)
(***************************************************************************)
EXTENDS Integers, Sequences, FiniteSets

CONSTANT
    ListLimit   \* the most events one list_events call returns (1000)

ASSUME ListLimitAssumption == ListLimit \in Nat \ {0}

OutputKinds == {"message.delta", "tool.failed", "agent.completed", "agent.empty",
                "agent.failed", "agent.interrupted", "foreign"}

LiveStatuses == {"queued", "running"}
TerminalStatuses == {"completed", "failed", "cancelled", "interrupted", "orphaned"}

GatewayKinds == LiveStatuses \cup TerminalStatuses
                \cup {"worker.attached", "run.cancel_requested", "backend.monitor_error"}

Event == [kind : OutputKinds \cup GatewayKinds, src : Nat]

Kinds(log) == {log[i].kind : i \in DOMAIN log}
Sources(log) == {log[i].src : i \in DOMAIN log} \ {0}

(* An event the gateway itself appends: no source sequence, no dedupe. *)
Log(log, kind) == Append(log, [kind |-> kind, src |-> 0])

(* The envelopes one _ingest call handles.  The first foreign envelope is  *)
(* persisted, then bind_backend_conversation raises and the rest is left.  *)
Raises(out) == \E i \in DOMAIN out : out[i] = "foreign"
Handled(out) == {i \in DOMAIN out : \A j \in 1 .. i - 1 : out[j] # "foreign"}

(* Slip: no dedupe. *)
AlwaysFresh(log, out) == Handled(out)

(* append_event keyed by source sequence: a known sequence adds nothing. *)
Fresh(log, out) == Handled(out) \ Sources(log)

(* _ingest goes through the envelopes in the order of their sequence. *)
Nth(sources, n) == CHOOSE i \in sources : Cardinality({j \in sources : j <= i}) = n

Ingest(log, out) ==
    LET new == Fresh(log, out)
    IN  log \o [n \in 1 .. Cardinality(new) |->
                  LET i == Nth(new, n) IN [kind |-> out[i], src |-> i]]

(* What list_events hands to _finalize: the first ListLimit events. *)
Window(log) == SubSeq(log, 1, IF Len(log) < ListLimit THEN Len(log) ELSE ListLimit)

AgentTerminal == {"agent.completed", "agent.empty", "agent.failed", "agent.interrupted"}

(* The kind of the last agent.* terminal event of a log, or "none". *)
LastTerminal(log) ==
    LET at == {i \in DOMAIN log : log[i].kind \in AgentTerminal}
    IN  IF at = {} THEN "none"
        ELSE log[CHOOSE i \in at : \A j \in at : j <= i].kind

(* Slip: what the worker said outranks the cancel request. *)
VerdictOfWorker(log, fromReconciliation) ==
    LET last == LastTerminal(Window(log))
    IN  CASE last = "agent.completed" -> "completed"
          [] last = "agent.empty" -> "completed"
          [] OTHER -> "cancelled"

(* The status _finalize gives a run whose worker has exited. *)
Verdict(log, fromReconciliation) ==
    LET seen == Window(log)
        last == LastTerminal(seen)
    IN  IF "run.cancel_requested" \in Kinds(seen) THEN "cancelled"
        ELSE CASE last = "agent.completed" -> "completed"
               [] last = "agent.empty" -> IF "tool.failed" \in Kinds(seen)
                                          THEN "failed" ELSE "completed"
               [] last = "agent.failed" -> "failed"
               [] last = "agent.interrupted" -> "interrupted"
               [] OTHER -> IF fromReconciliation THEN "interrupted" ELSE "failed"

(* The assistant message _finalize stores: the final response, else what   *)
(* was streamed, else none.  agent.failed and agent.interrupted carry an   *)
(* error here and no response.                                             *)
AnswerOf(log) ==
    LET seen == Window(log)
    IN  IF LastTerminal(seen) = "agent.completed" THEN "response"
        ELSE IF "message.delta" \in Kinds(seen) THEN "deltas" ELSE "none"
==============================================================================
