-------------------------------- MODULE Streams --------------------------------
(***************************************************************************)
(* Following a run from outside.  The gateway folds what a worker prints   *)
(* into the log of events, the telemetry rows and the progress snapshot of *)
(* its run (src/gravityclaw/manager.py, progress_engine.py), and wakes     *)
(* the WebSocket clients that follow the log (event_bus.py, api.py).       *)
(*                                                                         *)
(* One run, whose worker is attached, and one client.  The monitor of the  *)
(* run and a cancellation both ingest, an event at a time, for each event  *)
(* is announced at an await.  A poll ingests all that the worker has       *)
(* printed since its start: the log takes an envelope once, the progress   *)
(* engine and the telemetry take it again at every poll.                   *)
(***************************************************************************)
EXTENDS Integers, Sequences, SequencesExt, FiniteSets, FiniteSetsExt

CONSTANTS Printed,    \* the kinds of event the worker may print
          MaxOutput,  \* bound: envelopes printed
          MaxPolls,   \* bound: polls of a worker that is still running
          ListLimit,  \* the most events one list_events call returns (1000)
          MaxCalls,   \* bound: connections of the client
          MaxCrashes  \* bound: deaths of the gateway

WorkerKinds == {"tool.started", "tool.finished", "tool.failed", "message.delta",
                "agent.completed"}
GatewayKinds == {"worker.attached", "run.cancel_requested", "backend.monitor_error",
                 "ended"}
Ingesters == {"monitor", "cancel"}

ASSUME StreamsAssumption ==
  /\ Printed \subseteq WorkerKinds
  /\ {MaxOutput, MaxPolls, MaxCalls, MaxCrashes} \subseteq Nat
  /\ ListLimit \in Nat \ {0}

VARIABLES
  gateway,    \* "up", "down", or "starting" while it reconciles
  out, alive, \* what the worker has printed, and whether it runs
  status,     \* of the run
  events,     \* the log: a record [kind, src], src 0 for the gateway's own
  telemetry,  \* the envelopes that have rows in run_telemetry_events
  engine,     \* the ProgressEngine in memory
  stored,     \* the row of run_progress
  ingest,     \* where the monitor and the cancellation stand
  client,     \* the coroutine that serves the client's WebSocket
  polls, calls, crashes

vars == <<gateway, out, alive, status, events, telemetry, engine, stored,
          ingest, client, polls, calls, crashes>>
worker == <<out, alive>>
progress == <<telemetry, engine, stored>>
run == <<status, events>>
bounds == <<polls, calls, crashes>>

Fresh == [tools |-> 0, active |-> 0]
Away == [pc |-> "off", stream |-> "run", cursor |-> 0, page |-> <<>>,
         full |-> FALSE, moved |-> FALSE]
Rest(pc) == [pc |-> pc, upto |-> 0, at |-> 0, last |-> FALSE]

TypeOK ==
  /\ gateway \in {"up", "down", "starting"}
  /\ out \in Seq(Printed) /\ alive \in BOOLEAN
  /\ status \in {"running", "ended"}
  /\ \A e \in Range(events) :
       e.kind \in Printed \cup GatewayKinds
  /\ telemetry \subseteq DOMAIN out
  /\ {engine, stored} \subseteq
       [tools : Nat, active : DOMAIN events \cup {0}]
  /\ ingest \in [Ingesters ->
       [pc : {"idle", "requested", "stopping", "reading", "announcing",
              "ending", "over"},
        upto : DOMAIN out \cup {0}, at : DOMAIN out \cup {0}, last : BOOLEAN]]
  /\ client \in [pc : {"off", "send", "wait"}, stream : {"run", "control"},
                 cursor : DOMAIN events \cup {0}, page : Seq(DOMAIN events),
                 full : BOOLEAN, moved : BOOLEAN]
  /\ polls \in 0..MaxPolls /\ calls \in 0..MaxCalls /\ crashes \in 0..MaxCrashes

Init ==
  /\ gateway = "up" /\ out = <<>> /\ alive = TRUE
  /\ status = "running"
  /\ events = <<[kind |-> "worker.attached", src |-> 0]>>
  /\ telemetry = {} /\ engine = Fresh /\ stored = Fresh
  /\ ingest = [i \in Ingesters |-> Rest("idle")]
  /\ client = Away
  /\ polls = 0 /\ calls = 0 /\ crashes = 0

(***************************************************************************)
(* The worker.                                                             *)
(***************************************************************************)
Emit(kind) ==
  /\ alive /\ Len(out) < MaxOutput
  /\ out' = Append(out, kind)
  /\ UNCHANGED <<gateway, alive, run, progress, ingest, client, bounds>>

Exit ==
  /\ alive /\ alive' = FALSE
  /\ UNCHANGED <<gateway, out, run, progress, ingest, client, bounds>>

(***************************************************************************)
(* Ingestion.                                                              *)
(***************************************************************************)
Own(kind) == [kind |-> kind, src |-> 0]
Reading(upto, last) ==
  [pc |-> "reading", upto |-> upto, at |-> 0, last |-> last]

\* append_event: an envelope that has its event adds none.
Logged(log, src) ==
  IF \E n \in DOMAIN log : log[n].src = src THEN log
  ELSE Append(log, [kind |-> out[src], src |-> src])

\* The sequence of the event of an envelope.
Sequence(log, src) == CHOOSE n \in DOMAIN log : log[n].src = src

\* ProgressEngine.consume.  An event of the worker carries no operation id:
\* the engine names an operation by its event and never finds one to end.
Consume(snapshot, src) ==
  IF out[src] = "tool.started"
  THEN [tools |-> snapshot.tools + 1, active |-> Sequence(Logged(events, src), src)]
  ELSE snapshot

\* save_progress_snapshot puts a row in place of the one before, whatever engine
\* that one came from.
SaveProgress(snapshot) == engine' = snapshot /\ stored' = snapshot

\* append_telemetry_event adds a row at every poll.
AppendTelemetry(src) == telemetry' = telemetry \cup {src}

\* A slip: an envelope that has its event is not counted again.
IngestedOnce(src) ==
  /\ events' = Logged(events, src)
  /\ SaveProgress(IF events' = events THEN engine ELSE Consume(engine, src))
  /\ AppendTelemetry(src)

\* One round of _ingest, up to the await of its notification.
Ingested(src) ==
  /\ events' = Logged(events, src)
  /\ SaveProgress(Consume(engine, src))
  /\ AppendTelemetry(src)

IngestOne(i) ==
  /\ ingest[i].pc = "reading" /\ ingest[i].at < ingest[i].upto
  /\ Ingested(ingest[i].at + 1)
  /\ ingest' = [ingest EXCEPT ![i].at = @ + 1, ![i].pc = "announcing"]
  /\ UNCHANGED <<gateway, worker, status, client, bounds>>

\* EventBus.notify: the version moves on from the one the client has read.
Announced(c) == [c EXCEPT !.moved = c.pc # "off"]

\* Where an ingester goes on from a notification.
Resumed(pc) ==
  CASE pc = "announcing" -> "reading"
    [] pc = "requested" -> "stopping"
    [] pc = "ending" -> "over"

Announce(i) ==
  /\ ingest[i].pc \in {"announcing", "requested", "ending"}
  /\ client' = Announced(client)
  /\ ingest' = [ingest EXCEPT ![i].pc = Resumed(@)]
  /\ gateway' = IF ingest[i].pc = "ending" THEN "up" ELSE gateway
  /\ UNCHANGED <<worker, run, progress, bounds>>

\* transition_run from running, with its event.  Which end it is, is in
\* RunManager.tla.
Settle(i) ==
  /\ ingest' = [ingest EXCEPT ![i] = Rest("ending")]
  /\ IF status = "running"
     THEN status' = "ended" /\ events' = Append(events, Own("ended"))
     ELSE UNCHANGED run

(***************************************************************************)
(* The monitor.                                                            *)
(***************************************************************************)
Poll ==
  /\ ingest["monitor"].pc = "idle" /\ gateway = "up"
  /\ IF status # "running"
     THEN ingest' = [ingest EXCEPT !["monitor"] = Rest("over")] /\ UNCHANGED polls
     ELSE /\ polls < MaxPolls \/ ~alive
          /\ polls' = IF alive THEN polls + 1 ELSE polls
          /\ ingest' = [ingest EXCEPT !["monitor"] = Reading(Len(out), FALSE)]
  /\ UNCHANGED <<gateway, worker, run, progress, client, calls, crashes>>

\* What the worker printed before its end is read once more.  A worker that is
\* missing, or that reconcile sweeps away, ends its run unread: these ways to end
\* are left out here, as RunManager has them.
Inspect ==
  /\ ingest["monitor"].pc = "reading" /\ ~ingest["monitor"].last
  /\ ingest["monitor"].at = ingest["monitor"].upto
  /\ ingest' = [ingest EXCEPT !["monitor"] =
                  IF alive \/ gateway = "starting" THEN Rest("idle")
                  ELSE Reading(Len(out), TRUE)]
  /\ gateway' = "up"
  /\ UNCHANGED <<worker, run, progress, client, bounds>>

Finalize ==
  /\ ingest["monitor"].pc = "reading" /\ ingest["monitor"].last
  /\ ingest["monitor"].at = ingest["monitor"].upto
  /\ Settle("monitor")
  /\ UNCHANGED <<gateway, worker, progress, client, bounds>>

\* The backend raises, when asked for the logs or for the state of the worker:
\* the monitor fails the run.
MonitorError ==
  /\ ingest["monitor"].pc \in {"idle", "reading"} /\ gateway = "up"
  /\ ingest["monitor"].at = ingest["monitor"].upto
  /\ status = "running"
  /\ status' = "ended"
  /\ events' = events \o <<Own("backend.monitor_error"), Own("ended")>>
  /\ ingest' = [ingest EXCEPT !["monitor"] = Rest("ending")]
  /\ UNCHANGED <<gateway, worker, progress, client, bounds>>

(***************************************************************************)
(* A cancellation.                                                         *)
(***************************************************************************)
RequestCancel ==
  /\ ingest["cancel"].pc = "idle" /\ gateway = "up" /\ status = "running"
  /\ events' = Append(events, Own("run.cancel_requested"))
  /\ ingest' = [ingest EXCEPT !["cancel"] = Rest("requested")]
  /\ UNCHANGED <<gateway, worker, status, progress, client, bounds>>

Stop ==
  /\ ingest["cancel"].pc = "stopping"
  /\ alive' = FALSE
  /\ ingest' = [ingest EXCEPT !["cancel"] = Reading(Len(out), TRUE)]
  /\ UNCHANGED <<gateway, out, run, progress, client, bounds>>

Cancelled ==
  /\ ingest["cancel"].pc = "reading" /\ ingest["cancel"].at = ingest["cancel"].upto
  /\ Settle("cancel")
  /\ UNCHANGED <<gateway, worker, progress, client, bounds>>

(***************************************************************************)
(* The client.                                                             *)
(***************************************************************************)
\* list_events, list_events_global.
Page(cursor) == SubSeq([n \in DOMAIN events |-> n], cursor + 1,
                       IF cursor + ListLimit < Len(events) THEN cursor + ListLimit
                       ELSE Len(events))

\* A stream has read the version of the bus, and lists.
Listed(c) ==
  [c EXCEPT !.pc = "send", !.moved = FALSE, !.page = Page(c.cursor),
            !.full = Len(Page(c.cursor)) = ListLimit]

Connect(stream) ==
  /\ client.pc = "off" /\ gateway = "up"
  /\ calls < MaxCalls /\ calls' = calls + 1
  /\ client' = Listed([client EXCEPT !.stream = stream])
  /\ UNCHANGED <<gateway, worker, run, progress, ingest, polls, crashes>>

Send ==
  /\ client.pc = "send" /\ client.page # <<>>
  /\ client' = [client EXCEPT !.cursor = Head(client.page), !.page = Tail(@)]
  /\ UNCHANGED <<gateway, worker, run, progress, ingest, bounds>>

\* A slip: the stream takes the version of the bus when it begins to wait.
WaitingAnew == [client EXCEPT !.pc = "wait", !.moved = FALSE]

Waiting == [client EXCEPT !.pc = "wait"]

\* A stream of a run is closed once its run has ended; one of the control plane
\* goes on.
Sent ==
  /\ client.pc = "send" /\ client.page = <<>>
  /\ client' = IF client.stream = "run" /\ status = "ended"
               THEN [Away EXCEPT !.cursor = client.cursor] ELSE Waiting
  /\ UNCHANGED <<gateway, worker, run, progress, ingest, bounds>>

\* EventBus.wait returns, with the version of then: it has moved, or 15 seconds
\* have passed.
Wake ==
  /\ client.pc = "wait"
  /\ client' = Listed(client)
  /\ UNCHANGED <<gateway, worker, run, progress, ingest, bounds>>

\* The client reconnects with the cursor of the last event it was sent.
Disconnect ==
  /\ client.pc # "off"
  /\ client' = [Away EXCEPT !.cursor = client.cursor]
  /\ UNCHANGED <<gateway, worker, run, progress, ingest, bounds>>

(***************************************************************************)
(* Crash and restart.                                                      *)
(***************************************************************************)
\* It may strike between the transactions of one round of _ingest.
Torn ==
  \E i \in Ingesters :
    /\ ingest[i].pc = "reading" /\ ingest[i].at < ingest[i].upto
    /\ LET src == ingest[i].at + 1
       IN /\ events' = Logged(events, src)
          /\ stored' \in {stored, Consume(engine, src)}
    /\ UNCHANGED telemetry

Crash ==
  /\ gateway # "down" /\ gateway' = "down"
  /\ crashes < MaxCrashes /\ crashes' = crashes + 1
  /\ Torn \/ UNCHANGED <<events, stored, telemetry>>
  /\ engine' = Fresh
  /\ ingest' = [i \in Ingesters |-> Rest("over")]
  /\ client' = [Away EXCEPT !.cursor = client.cursor]
  /\ UNCHANGED <<worker, status, polls, calls>>

\* reconcile reads what the worker has printed before it serves, and settles the
\* run of a worker that has exited; the worker of a settled run is stopped.
Boot ==
  /\ gateway = "down"
  /\ IF status = "running"
     THEN /\ gateway' = "starting"
          /\ ingest' = [ingest EXCEPT !["monitor"] = Reading(Len(out), ~alive),
                                      !["cancel"] = Rest("idle")]
          /\ UNCHANGED alive
     ELSE gateway' = "up" /\ alive' = FALSE /\ UNCHANGED ingest
  /\ UNCHANGED <<out, run, progress, client, bounds>>

MonitorSteps == Poll \/ Inspect \/ Finalize \/ IngestOne("monitor") \/ Announce("monitor")
CancelSteps == Stop \/ Cancelled \/ IngestOne("cancel") \/ Announce("cancel")
StreamSteps == Send \/ Sent \/ Wake

Next ==
  \/ \E kind \in Printed : Emit(kind)
  \/ Exit \/ MonitorSteps \/ MonitorError
  \/ RequestCancel \/ CancelSteps
  \/ \E stream \in {"run", "control"} : Connect(stream)
  \/ StreamSteps \/ Disconnect
  \/ Crash \/ Boot

Spec == Init /\ [][Next]_vars

(***************************************************************************)
(* Properties.                                                             *)
(***************************************************************************)
\* No wake-up is lost between the listing and the wait: a stream that waits on
\* a version nobody has moved has sent all there is, but for what an ingester
\* is about to announce and what its last page had no room for.  Its client
\* does not sit out the 15 seconds for an event that is already there.
WakeupsArrive ==
  client.pc = "wait" /\ ~client.moved /\ client.cursor < Len(events) =>
    \/ client.full
    \/ \E i \in Ingesters : ingest[i].pc \in {"announcing", "requested", "ending"}

Tools(upto) == {src \in 1..upto : out[src] = "tool.started"}
Latest(upto) ==
  IF Tools(upto) = {} THEN 0 ELSE Sequence(events, Max(Tools(upto)))

\* An ingestion that has come to its end has counted every tool the worker
\* called, has named the last one unless another reads beside it, and has left
\* no envelope without telemetry; so has the progress of a run whose worker was
\* read to its end.  The crash that takes the engine with its counters, and a
\* cancellation that reads what the monitor reads, take nothing from that.
ProgressKeepsUp ==
  /\ \A i \in Ingesters :
       LET upto == ingest[i].upto
       IN ingest[i].pc = "reading" /\ ingest[i].at = upto =>
            /\ stored.tools >= Cardinality(Tools(upto))
            /\ 1..upto \subseteq telemetry
            /\ \/ upto = 0
               \/ \E j \in Ingesters \ {i} :
                    ingest[j].pc \notin {"idle", "requested", "stopping"}
               \/ stored.active = Latest(upto)
  /\ status = "ended" /\ Own("backend.monitor_error") \notin Range(events) =>
       /\ stored.tools >= Cardinality(Tools(Len(out)))
       /\ DOMAIN out \subseteq telemetry

===============================================================================
