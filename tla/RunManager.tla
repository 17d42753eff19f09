----------------------------- MODULE RunManager -----------------------------
(***************************************************************************)
(* The execution core: RunManager's coroutines over the run store and a    *)
(* Podman backend whose containers outlive the gateway.                    *)
(*                                                                         *)
(* The gateway is one asyncio loop, so an action is what runs between two  *)
(* awaits that really suspend (EventBus.notify never does); an answer of   *)
(* the backend is read in the step that consumes it.  A store method is    *)
(* one transaction, so a crash can only fall between two of them: the      *)
(* Crash... actions cover the ones a coroutine's step would have joined.   *)
(* A container is named after its run, so a run has at most one, and the   *)
(* run's number stands for the container's id.                             *)
(***************************************************************************)
EXTENDS RunEvents, FiniteSets

CONSTANTS
    Conversations,  \* the conversations runs are submitted to
    MaxRuns,        \* bound: runs are numbered 1 .. MaxRuns as submitted
    Strays,         \* managed containers that belong to no run of the store
    Outputs,        \* the envelope kinds workers emit in this instance
    MaxOutput,      \* bound: envelopes one worker emits
    Faults,         \* what may go wrong; see FaultKinds
    MaxRestarts,    \* bound: crashes or shutdowns of the gateway
    MaxCancels      \* bound: cancel requests one run's log holds

FaultKinds == {"start",       \* podman run fails before a container exists
               "lost start",  \* the container exists but start() raises
               "logs",        \* podman logs fails
               "stop",        \* podman stop and kill both fail
               "inspect",     \* podman inspect fails: "there is no such container"
               "vanish",      \* a container is removed behind the gateway
               "torn"}        \* the gateway dies between two transactions

Runs == 1 .. MaxRuns
Workers == Runs \cup Strays

ASSUME BoundsAssumption ==
    /\ MaxRuns \in Nat /\ MaxOutput \in Nat
    /\ MaxRestarts \in Nat /\ MaxCancels \in Nat
ASSUME StraysAssumption == Strays \cap Runs = {}
ASSUME OutputsAssumption == Outputs \subseteq OutputKinds
ASSUME FaultsAssumption == Faults \subseteq FaultKinds

VARIABLES
    (* the store *)
    conv,        \* runs.conversation_id, in order of runs.created_at
    status,      \* runs.status, "absent" before the insert
    attached,    \* runs.worker_id is set
    events,      \* the events of each run, in order of sequence
    answer,      \* the run's assistant message
    workerState, \* workers.state, "none" without a row
    (* the backend *)
    container,   \* "absent", "running", "exited" or "removed"
    out,         \* the envelopes each worker has written to its log
    (* the gateway process *)
    gateway,     \* "down", "reconciling" or "serving"
    recon,       \* progress of reconcile()
    dispatches,  \* dispatch coroutines waiting for a conversation's lock
    dispatch,    \* the dispatch coroutine that holds the lock
    monitor,     \* the monitor coroutine of each run
    canceller,   \* the cancel() call of each run (bound: one at a time)
    restarts

store == <<conv, status, attached, events, answer, workerState>>
backend == <<container, out>>
coroutines == <<dispatches, dispatch, monitor, canceller>>
process == <<gateway, recon, dispatches, dispatch, monitor, canceller, restarts>>
vars == <<conv, status, attached, events, answer, workerState, container, out,
          gateway, recon, dispatches, dispatch, monitor, canceller, restarts>>

NoDispatch == [pc |-> "idle", run |-> 0]
NoRecon == [todo |-> {}, live |-> {}, listed |-> {}]

Init ==
    /\ conv = <<>>
    /\ status = [r \in Runs |-> "absent"]
    /\ attached = [r \in Runs |-> FALSE]
    /\ events = [r \in Runs |-> <<>>]
    /\ answer = [r \in Runs |-> "none"]
    /\ workerState = [w \in Workers |-> "none"]
    /\ container = [w \in Workers |-> IF w \in Strays THEN "running" ELSE "absent"]
    /\ out = [r \in Runs |-> <<>>]
    /\ gateway = "down"
    /\ recon = NoRecon
    /\ dispatches = [c \in Conversations |-> 0]
    /\ dispatch = [c \in Conversations |-> NoDispatch]
    /\ monitor = [r \in Runs |-> "none"]
    /\ canceller = [r \in Runs |-> "none"]
    /\ restarts = 0

RunningIn(c) == {r \in DOMAIN conv : conv[r] = c /\ status[r] = "running"}
QueuedIn(c) == {r \in DOMAIN conv : conv[r] = c /\ status[r] = "queued"}

(* Slip: the newest queued run first. *)
NextQueuedNewest(c) ==
    IF RunningIn(c) # {} THEN {}
    ELSE {r \in QueuedIn(c) : \A q \in QueuedIn(c) : q <= r}

(* next_queued_runs: the oldest queued run of a conversation where nothing *)
(* runs.                                                                   *)
NextQueued(c) ==
    IF RunningIn(c) # {} THEN {}
    ELSE {r \in QueuedIn(c) : \A q \in QueuedIn(c) : r <= q}

Schedule(c) == dispatches' = [dispatches EXCEPT ![c] = @ + 1]

(* transition_run with expected=("running",), on top of the events the     *)
(* same step has already appended to the run's log.                        *)
SettleRunning(r, log, outcome) ==
    IF status[r] = "running"
    THEN /\ status' = [status EXCEPT ![r] = outcome]
         /\ events' = [events EXCEPT ![r] = Log(log, outcome)]
    ELSE /\ events' = [events EXCEPT ![r] = log]
         /\ UNCHANGED status

(* podman logs: everything written so far, nothing once the container is   *)
(* gone.  Outputs are taken to be shorter than what podman keeps (three    *)
(* files of 10 MB), so that none of it has been rotated away.              *)
Logs(r) == IF container[r] = "removed" THEN <<>> ELSE out[r]

(* The log an _ingest call leaves when it returns; none if it raises.      *)
Ingested(r, log) == IF Raises(Logs(r)) THEN {} ELSE {Ingest(log, Logs(r))}

(* The logs an _ingest call that raises may leave: nothing read, or every  *)
(* envelope up to the one that cannot be bound.                            *)
FailedIngest(r, log) ==
    (IF "logs" \in Faults THEN {log} ELSE {}) \cup
    (IF Raises(Logs(r)) THEN {Ingest(log, Logs(r))} ELSE {})

(* stop: a container whose inspect fails is taken for gone and lives on.   *)
StopContainer(w) ==
    \/ container' = [container EXCEPT ![w] = IF @ = "running" THEN "exited" ELSE @]
    \/ "inspect" \in Faults /\ UNCHANGED container

-----------------------------------------------------------------------------
(* Callers of the API.                                                     *)

(* submit: the queued run, its message and its event are one transaction.  *)
Submit(c) ==
    /\ gateway = "serving"
    /\ Len(conv) < MaxRuns
    /\ LET r == Len(conv) + 1
       IN  /\ conv' = Append(conv, c)
           /\ status' = [status EXCEPT ![r] = "queued"]
           /\ events' = [events EXCEPT ![r] = Log(@, "queued")]
    /\ Schedule(c)
    /\ UNCHANGED <<attached, answer, workerState, backend, gateway, recon,
                   dispatch, monitor, canceller, restarts>>

CancelQueued(r) ==
    /\ gateway = "serving"
    /\ canceller[r] = "none"
    /\ status[r] = "queued"
    /\ status' = [status EXCEPT ![r] = "cancelled"]
    /\ events' = [events EXCEPT ![r] = Log(Log(@, "run.cancel_requested"), "cancelled")]
    /\ Schedule(conv[r])
    /\ UNCHANGED <<conv, attached, answer, workerState, backend, gateway, recon,
                   dispatch, monitor, canceller, restarts>>

(* Slip: cancel never stops a worker, started or not. *)
CancelWithoutStop(r) ==
    /\ gateway = "serving"
    /\ canceller[r] = "none"
    /\ status[r] = "running"
    /\ SettleRunning(r, Log(events[r], "run.cancel_requested"), "cancelled")
    /\ Schedule(conv[r])
    /\ UNCHANGED <<conv, attached, answer, workerState, backend, gateway, recon,
                   dispatch, monitor, canceller, restarts>>

(* cancel of a run whose worker is still starting: nothing to stop yet.    *)
CancelStarting(r) ==
    /\ gateway = "serving"
    /\ canceller[r] = "none"
    /\ status[r] = "running"
    /\ ~attached[r]
    /\ SettleRunning(r, Log(events[r], "run.cancel_requested"), "cancelled")
    /\ Schedule(conv[r])
    /\ UNCHANGED <<conv, attached, answer, workerState, backend, gateway, recon,
                   dispatch, monitor, canceller, restarts>>

Cancels(r) == Cardinality({i \in DOMAIN events[r] : events[r][i].kind = "run.cancel_requested"})

(* cancel of a run with a worker: the request, then two awaits (stop, logs) *)
CancelRequest(r) ==
    /\ gateway = "serving"
    /\ Cancels(r) < MaxCancels
    /\ canceller[r] = "none"
    /\ status[r] = "running"
    /\ attached[r]
    /\ events' = [events EXCEPT ![r] = Log(@, "run.cancel_requested")]
    /\ canceller' = [canceller EXCEPT ![r] = "stop"]
    /\ UNCHANGED <<conv, status, attached, answer, workerState, backend, gateway,
                   recon, dispatches, dispatch, monitor, restarts>>

CancelStop(r) ==
    /\ canceller[r] = "stop"
    /\ StopContainer(r)
    /\ canceller' = [canceller EXCEPT ![r] = "drain"]
    /\ UNCHANGED <<store, out, gateway, recon, dispatches, dispatch, monitor, restarts>>

CancelSettle(r) ==
    /\ canceller[r] = "drain"
    /\ \E log \in Ingested(r, events[r]) : SettleRunning(r, log, "cancelled")
    /\ workerState' = [workerState EXCEPT ![r] = "terminated"]
    /\ Schedule(conv[r])
    /\ canceller' = [canceller EXCEPT ![r] = "none"]
    /\ UNCHANGED <<conv, attached, answer, backend, gateway, recon, dispatch,
                   monitor, restarts>>

(* The backend refuses to stop the worker, or ingesting its output raises: *)
(* the caller gets an error and the run stays as it is.                    *)
CancelRaises(r) ==
    /\ \/ /\ canceller[r] = "stop"
          /\ "stop" \in Faults
          /\ container[r] = "running"
          /\ UNCHANGED events
       \/ /\ canceller[r] = "drain"
          /\ \E log \in FailedIngest(r, events[r]) : events' = [events EXCEPT ![r] = log]
    /\ canceller' = [canceller EXCEPT ![r] = "none"]
    /\ UNCHANGED <<conv, status, attached, answer, workerState, backend, gateway,
                   recon, dispatches, dispatch, monitor, restarts>>

-----------------------------------------------------------------------------
(* _dispatch_conversation, under the conversation's lock.                  *)

DispatchNothing(c) ==
    /\ dispatches[c] > 0
    /\ dispatch[c].pc = "idle"
    /\ NextQueued(c) = {}
    /\ dispatches' = [dispatches EXCEPT ![c] = @ - 1]
    /\ UNCHANGED <<store, backend, gateway, recon, dispatch, monitor, canceller, restarts>>

(* claim_run, then compiling the context and the worker's specification.   *)
DispatchClaim(c) ==
    /\ dispatches[c] > 0
    /\ dispatch[c].pc = "idle"
    /\ \E r \in NextQueued(c) :
          /\ status' = [status EXCEPT ![r] = "running"]
          /\ events' = [events EXCEPT ![r] = Log(@, "running")]
          /\ dispatch' = [dispatch EXCEPT ![c] = [pc |-> "starting", run |-> r]]
    /\ dispatches' = [dispatches EXCEPT ![c] = @ - 1]
    /\ UNCHANGED <<conv, attached, answer, workerState, backend, gateway, recon,
                   monitor, canceller, restarts>>

(* podman run has created the container; start() has not returned yet.     *)
DispatchCreate(c) ==
    /\ dispatch[c].pc = "starting"
    /\ container' = [container EXCEPT ![dispatch[c].run] = "running"]
    /\ dispatch' = [dispatch EXCEPT ![c].pc = "created"]
    /\ UNCHANGED <<store, out, gateway, recon, dispatches, monitor, canceller, restarts>>

(* attach_worker, then _monitor: the run was still running when start()    *)
(* returned.                                                               *)
DispatchAttach(c) ==
    LET r == dispatch[c].run IN
    /\ dispatch[c].pc = "created"
    /\ status[r] = "running"
    /\ attached' = [attached EXCEPT ![r] = TRUE]
    /\ workerState' = [workerState EXCEPT ![r] = "running"]
    /\ events' = [events EXCEPT ![r] = Log(@, "worker.attached")]
    /\ monitor' = [monitor EXCEPT ![r] = "poll"]
    /\ dispatch' = [dispatch EXCEPT ![c] = NoDispatch]
    /\ UNCHANGED <<conv, status, answer, backend, gateway, recon, dispatches,
                   canceller, restarts>>

(* The run became terminal while its worker started: stop it and let go.   *)
DispatchDiscard(c) ==
    LET r == dispatch[c].run IN
    /\ dispatch[c].pc = "created"
    /\ status[r] # "running"
    /\ StopContainer(r)
    /\ workerState' = [workerState EXCEPT ![r] = "terminated"]
    /\ dispatch' = [dispatch EXCEPT ![c] = NoDispatch]
    /\ UNCHANGED <<conv, status, attached, events, answer, out, gateway, recon,
                   dispatches, monitor, canceller, restarts>>

(* The except branch: building the spec, podman run, the inspect after it, *)
(* or stopping a worker that is no longer wanted has raised.               *)
DispatchRaises(c) ==
    LET r == dispatch[c].run IN
    /\ \/ dispatch[c].pc = "starting" /\ "start" \in Faults
       \/ dispatch[c].pc = "created" /\ "lost start" \in Faults
       \/ /\ dispatch[c].pc = "created" /\ "stop" \in Faults
          /\ status[r] # "running" /\ container[r] = "running"
    /\ SettleRunning(r, events[r], "failed")
    /\ Schedule(c)
    /\ dispatch' = [dispatch EXCEPT ![c] = NoDispatch]
    /\ UNCHANGED <<conv, attached, answer, workerState, backend, gateway, recon,
                   monitor, canceller, restarts>>

-----------------------------------------------------------------------------
(* _monitor_loop: ingest, inspect, sleep.                                  *)

MonitorReturn(r) ==
    /\ monitor[r] = "poll"
    /\ status[r] # "running"
    /\ monitor' = [monitor EXCEPT ![r] = "none"]
    /\ UNCHANGED <<store, backend, gateway, recon, dispatches, dispatch, canceller, restarts>>

MonitorIngest(r) ==
    /\ monitor[r] = "poll"
    /\ status[r] = "running"
    /\ \E log \in Ingested(r, events[r]) : events' = [events EXCEPT ![r] = log]
    /\ monitor' = [monitor EXCEPT ![r] = "inspect"]
    /\ UNCHANGED <<conv, status, attached, answer, workerState, backend, gateway,
                   recon, dispatches, dispatch, canceller, restarts>>

MonitorAlive(r) ==
    /\ monitor[r] = "inspect"
    /\ container[r] = "running"
    /\ monitor' = [monitor EXCEPT ![r] = "poll"]
    /\ UNCHANGED <<store, backend, gateway, recon, dispatches, dispatch, canceller, restarts>>

(* inspect knows no container: it is gone, or the call itself has failed.  *)
MonitorMissing(r) ==
    /\ monitor[r] = "inspect"
    /\ container[r] = "removed" \/ "inspect" \in Faults
    /\ SettleRunning(r, events[r], "interrupted")
    /\ Schedule(conv[r])
    /\ monitor' = [monitor EXCEPT ![r] = "none"]
    /\ UNCHANGED <<conv, attached, answer, workerState, backend, gateway, recon,
                   dispatch, canceller, restarts>>

(* _finalize: the log decides; the assistant message joins the transition. *)
Finalize(r, log, fromReconciliation) ==
    /\ SettleRunning(r, log, Verdict(log, fromReconciliation))
    /\ answer' = IF status[r] = "running" /\ answer[r] = "none"
                 THEN [answer EXCEPT ![r] = AnswerOf(log)] ELSE answer
    /\ workerState' = [workerState EXCEPT ![r] = "exited"]

(* Slip: the finished run does not wake its conversation's queue. *)
FinalizeWithoutDispatch(r) ==
    /\ monitor[r] = "inspect"
    /\ container[r] = "exited"
    /\ \E log \in Ingested(r, events[r]) : Finalize(r, log, FALSE)
    /\ monitor' = [monitor EXCEPT ![r] = "none"]
    /\ UNCHANGED <<conv, attached, backend, gateway, recon, dispatches, dispatch,
                   canceller, restarts>>

(* The worker has exited: drain what it wrote last, finalize, dispatch.    *)
MonitorFinalize(r) ==
    /\ monitor[r] = "inspect"
    /\ container[r] = "exited"
    /\ \E log \in Ingested(r, events[r]) : Finalize(r, log, FALSE)
    /\ Schedule(conv[r])
    /\ monitor' = [monitor EXCEPT ![r] = "none"]
    /\ UNCHANGED <<conv, attached, backend, gateway, recon, dispatch, canceller, restarts>>

(* podman logs failed or the output cannot be ingested.  The run fails;    *)
(* nothing stops its worker.                                               *)
MonitorRaises(r) ==
    /\ \/ monitor[r] = "poll" /\ status[r] = "running"
       \/ monitor[r] = "inspect" /\ container[r] = "exited"
    /\ \E log \in FailedIngest(r, events[r]) :
          IF status[r] = "running"
          THEN /\ SettleRunning(r, Log(log, "backend.monitor_error"), "failed")
               /\ Schedule(conv[r])
          ELSE /\ events' = [events EXCEPT ![r] = log]
               /\ UNCHANGED <<status, dispatches>>
    /\ monitor' = [monitor EXCEPT ![r] = "none"]
    /\ UNCHANGED <<conv, attached, answer, workerState, backend, gateway, recon,
                   dispatch, canceller, restarts>>

-----------------------------------------------------------------------------
(* Workers, and the world outside the gateway.                             *)

Emit(r, kind) ==
    /\ container[r] = "running"
    /\ Len(out[r]) < MaxOutput
    /\ out' = [out EXCEPT ![r] = Append(@, kind)]
    /\ UNCHANGED <<store, container, process>>

(* A worker finishes, crashes or is killed by its own timeout.             *)
Exit(r) ==
    /\ container[r] = "running"
    /\ container' = [container EXCEPT ![r] = "exited"]
    /\ UNCHANGED <<store, out, process>>

Vanish(r) ==
    /\ "vanish" \in Faults
    /\ container[r] \in {"running", "exited"}
    /\ container' = [container EXCEPT ![r] = "removed"]
    /\ UNCHANGED <<store, out, process>>

-----------------------------------------------------------------------------
(* Crashes, restarts and reconcile().                                      *)

(* The process dies or close() cancels every coroutine: containers live on. *)
GatewayDown ==
    /\ gateway' = "down"
    /\ recon' = NoRecon
    /\ dispatches' = [c \in Conversations |-> 0]
    /\ dispatch' = [c \in Conversations |-> NoDispatch]
    /\ monitor' = [r \in Runs |-> "none"]
    /\ canceller' = [r \in Runs |-> "none"]

Crash ==
    /\ gateway # "down"
    /\ restarts < MaxRestarts
    /\ restarts' = restarts + 1
    /\ GatewayDown
    /\ UNCHANGED <<store, backend>>

(* cancel has committed run.cancel_requested and not yet the transition.   *)
CrashInCancel(r) ==
    /\ "torn" \in Faults
    /\ gateway = "serving"
    /\ canceller[r] = "none"
    /\ status[r] \in LiveStatuses
    /\ restarts < MaxRestarts
    /\ restarts' = restarts + 1
    /\ events' = [events EXCEPT ![r] = Log(@, "run.cancel_requested")]
    /\ GatewayDown
    /\ UNCHANGED <<conv, status, attached, answer, workerState, backend>>

(* Only some of the envelopes of an _ingest call are committed.            *)
CrashInIngest(r) ==
    /\ "torn" \in Faults
    /\ monitor[r] # "none"
    /\ restarts < MaxRestarts
    /\ restarts' = restarts + 1
    /\ \E n \in DOMAIN Logs(r) :
          events' = [events EXCEPT ![r] = Ingest(@, SubSeq(Logs(r), 1, n))]
    /\ GatewayDown
    /\ UNCHANGED <<conv, status, attached, answer, workerState, backend>>

(* list_managed: a container whose inspect fails is left out.              *)
Listings ==
    LET present == {w \in Workers : container[w] \in {"running", "exited"}}
    IN  IF "inspect" \in Faults THEN SUBSET present ELSE {present}

(* start(): list_managed answers.  The exited worker of a settled run is   *)
(* only noted, without an await; the others are the loop's suspensions.    *)
Boot == \E listed \in Listings :
    LET live == {w \in listed : container[w] = "running"}
        noted == {r \in Runs \cap (listed \ live) : status[r] \in TerminalStatuses}
    IN  /\ gateway = "down"
        /\ gateway' = "reconciling"
        /\ recon' = [todo |-> listed \ noted, listed |-> listed, live |-> live]
        /\ workerState' = [w \in Workers |-> IF w \in noted THEN "exited"
                                             ELSE workerState[w]]
        /\ UNCHANGED <<conv, status, attached, events, answer, backend, coroutines,
                       restarts>>

Reconciling(w) ==
    /\ gateway = "reconciling"
    /\ w \in recon.todo
    /\ recon' = [recon EXCEPT !.todo = @ \ {w}]

ReconcileStray(w) ==
    /\ w \in Strays
    /\ Reconciling(w)
    /\ workerState' = [workerState EXCEPT ![w] = "orphaned"]
    /\ container' = [container EXCEPT ![w] = "removed"]
    /\ UNCHANGED <<conv, status, attached, events, answer, out, gateway, coroutines,
                   restarts>>

(* The run already has an outcome and its worker was live: stop it.        *)
ReconcileSettled(r) ==
    /\ r \in Runs \cap recon.live
    /\ status[r] \in TerminalStatuses
    /\ Reconciling(r)
    /\ StopContainer(r)
    /\ workerState' = [workerState EXCEPT ![r] = "orphaned"]
    /\ UNCHANGED <<conv, status, attached, events, answer, out, gateway, coroutines,
                   restarts>>

(* The log of a running run once reconcile has its worker: attached first  *)
(* if the crash fell between claim and attach.                             *)
Reattached(r) == IF attached[r] THEN events[r] ELSE Log(events[r], "worker.attached")

ReconcileMonitor(r) ==
    /\ r \in Runs \cap recon.live
    /\ status[r] = "running"
    /\ Reconciling(r)
    /\ attached' = [attached EXCEPT ![r] = TRUE]
    /\ workerState' = [workerState EXCEPT ![r] = "running"]
    /\ \E log \in Ingested(r, Reattached(r)) : events' = [events EXCEPT ![r] = log]
    /\ monitor' = [monitor EXCEPT ![r] = "poll"]
    /\ UNCHANGED <<conv, status, answer, backend, gateway, dispatches, dispatch,
                   canceller, restarts>>

ReconcileFinalize(r) ==
    /\ r \in Runs \ recon.live
    /\ status[r] = "running"
    /\ Reconciling(r)
    /\ attached' = [attached EXCEPT ![r] = TRUE]
    /\ \E log \in Ingested(r, Reattached(r)) : Finalize(r, log, TRUE)
    /\ UNCHANGED <<conv, backend, gateway, coroutines, restarts>>

(* Anything the backend or ingestion raises leaves reconcile, and with it  *)
(* start(): the gateway does not come up.                                  *)
ReconcileRaises(r) ==
    /\ gateway = "reconciling"
    /\ r \in Runs \cap recon.todo
    /\ \/ /\ status[r] = "running"
          /\ \E log \in FailedIngest(r, Reattached(r)) : events' = [events EXCEPT ![r] = log]
          /\ attached' = [attached EXCEPT ![r] = TRUE]
          /\ workerState' = [workerState EXCEPT ![r] =
                               IF r \in recon.live THEN "running" ELSE "exited"]
       \/ /\ status[r] \in TerminalStatuses
          /\ "stop" \in Faults
          /\ r \in recon.live
          /\ container[r] = "running"
          /\ workerState' = [workerState EXCEPT ![r] = "running"]
          /\ UNCHANGED <<attached, events>>
    /\ GatewayDown
    /\ UNCHANGED <<conv, status, answer, backend, restarts>>

ReconcileStrayRaises(w) ==
    /\ gateway = "reconciling"
    /\ w \in Strays \cap recon.todo
    /\ "stop" \in Faults
    /\ container[w] = "running"
    /\ GatewayDown
    /\ UNCHANGED <<store, backend, restarts>>

(* Slip: a run that was claimed and never got a worker is overlooked. *)
UnlistedAttached == {r \in DOMAIN conv : /\ status[r] = "running"
                                         /\ attached[r] /\ r \notin recon.listed}

(* Running runs that have no worker among those listed at the start are    *)
(* interrupted, the queues are dispatched, and the API comes up.           *)
Unlisted == {r \in DOMAIN conv : /\ status[r] = "running"
                                 /\ ~attached[r] \/ r \notin recon.listed}

ReconcileSweep ==
    /\ gateway = "reconciling"
    /\ recon.todo = {}
    /\ status' = [r \in Runs |-> IF r \in Unlisted THEN "interrupted" ELSE status[r]]
    /\ events' = [r \in Runs |-> IF r \in Unlisted THEN Log(events[r], "interrupted")
                                                   ELSE events[r]]
    /\ dispatches' = [c \in Conversations |->
                         IF QueuedIn(c) # {} /\ RunningIn(c) \subseteq Unlisted
                         THEN dispatches[c] + 1 ELSE dispatches[c]]
    /\ gateway' = "serving"
    /\ recon' = NoRecon
    /\ UNCHANGED <<conv, attached, answer, workerState, backend, dispatch, monitor,
                   canceller, restarts>>

-----------------------------------------------------------------------------
Calls(r) ==
    CancelQueued(r) \/ CancelStarting(r) \/ CancelRequest(r)

(* After its last await reconcile sweeps without suspending: no other      *)
(* coroutine of the gateway runs in between.                               *)
LoopIsFree == ~(gateway = "reconciling" /\ recon.todo = {})

CancelSteps(r) == CancelStop(r) \/ CancelSettle(r) \/ CancelRaises(r)

DispatchSteps(c) ==
    /\ LoopIsFree
    /\ \/ DispatchNothing(c) \/ DispatchClaim(c) \/ DispatchCreate(c)
       \/ DispatchAttach(c) \/ DispatchDiscard(c) \/ DispatchRaises(c)

MonitorSteps(r) ==
    /\ LoopIsFree
    /\ \/ MonitorReturn(r) \/ MonitorIngest(r) \/ MonitorAlive(r)
       \/ MonitorMissing(r) \/ MonitorFinalize(r) \/ MonitorRaises(r)

ReconcileWorker(r) == ReconcileSettled(r) \/ ReconcileMonitor(r) \/ ReconcileFinalize(r)

ReconcileSteps ==
    \/ \E w \in Strays : ReconcileStray(w) \/ ReconcileStrayRaises(w)
    \/ \E r \in Runs : ReconcileWorker(r) \/ ReconcileRaises(r)
    \/ ReconcileSweep

Next ==
    \/ \E c \in Conversations : Submit(c) \/ DispatchSteps(c)
    \/ \E r \in Runs : \/ Calls(r) \/ CancelSteps(r) \/ MonitorSteps(r)
                       \/ \E kind \in Outputs : Emit(r, kind)
                       \/ Exit(r) \/ Vanish(r)
                       \/ CrashInCancel(r) \/ CrashInIngest(r)
    \/ Crash \/ Boot \/ ReconcileSteps

Spec == Init /\ [][Next]_vars

(* Every coroutine that can step eventually does, the service manager      *)
(* restarts a gateway that is down, AGY's print timeout ends a worker, and *)
(* a backend that fails during startup does not fail at every restart.     *)
(* Nothing is assumed of the callers or of crashes.                        *)
Fairness ==
    /\ \A c \in Conversations : WF_vars(DispatchSteps(c))
    /\ \A r \in Runs : /\ WF_vars(CancelSteps(r))
                       /\ WF_vars(MonitorSteps(r))
                       /\ WF_vars(Exit(r))
                       /\ SF_vars(ReconcileWorker(r))
    /\ \A w \in Strays : SF_vars(ReconcileStray(w))
    /\ WF_vars(Boot)
    /\ WF_vars(ReconcileSteps)

LiveSpec == Spec /\ Fairness
-----------------------------------------------------------------------------
(* Every variable has its type; the runs that exist are the submitted      *)
(* ones.  What a log holds is the matter of IngestedExactlyOnce.           *)
StoreTypeOK ==
    /\ conv \in Seq(Conversations) /\ Len(conv) <= MaxRuns
    /\ status \in [Runs -> {"absent"} \cup LiveStatuses \cup TerminalStatuses]
    /\ \A r \in Runs : status[r] = "absent" <=> r \notin DOMAIN conv
    /\ attached \in [Runs -> BOOLEAN]
    /\ events = [r \in Runs |-> events[r]]
    /\ answer \in [Runs -> {"none", "response", "deltas"}]
    /\ workerState \in [Workers -> {"none", "running", "exited", "orphaned", "terminated"}]

BackendTypeOK ==
    /\ container \in [Workers -> {"absent", "running", "exited", "removed"}]
    /\ out \in [Runs -> Seq(Outputs)]

ProcessTypeOK ==
    /\ gateway \in {"down", "reconciling", "serving"}
    /\ recon \in [todo : SUBSET Workers, live : SUBSET Workers, listed : SUBSET Workers]
    /\ dispatches \in [Conversations -> Nat]
    /\ dispatch \in [Conversations -> [pc : {"idle", "starting", "created"}, run : Runs \cup {0}]]
    /\ monitor \in [Runs -> {"none", "poll", "inspect"}]
    /\ canceller \in [Runs -> {"none", "stop", "drain"}]
    /\ restarts \in Nat

TypeOK == StoreTypeOK /\ BackendTypeOK /\ ProcessTypeOK

(* A conversation executes one run at a time: claim_run and the unique     *)
(* index one_running_run_per_conversation, whatever the coroutines do.     *)
OneRunningRun ==
    \A q, r \in DOMAIN conv :
        conv[q] = conv[r] /\ status[q] = "running" /\ status[r] = "running" => q = r

(* A running run always has a coroutine that will settle it: the dispatch  *)
(* that is starting its worker or its monitor.  Without one the run would  *)
(* occupy its conversation until the next restart.                         *)
Watched(r) ==
    \/ monitor[r] # "none" /\ attached[r]
    \/ \E c \in Conversations : dispatch[c].pc # "idle" /\ dispatch[c].run = r

RunningIsWatched ==
    gateway = "serving" => \A r \in Runs : status[r] = "running" => Watched(r)

(* What makes RunningIsWatched inductive: while reconcile is on its way,    *)
(* the running runs nobody watches yet are those it still has to visit and *)
(* those its final sweep will interrupt.                                   *)
DispatchHoldsRun == \A c \in Conversations : dispatch[c].pc # "idle" => dispatch[c].run \in Runs

MonitoredIsAttached == \A r \in Runs : monitor[r] # "none" => attached[r]

Owed(r) ==
    gateway = "reconciling" /\ (r \in recon.todo \/ ~attached[r] \/ r \notin recon.listed)

RunningIsWatchedOrOwed ==
    gateway # "down" => \A r \in Runs : status[r] = "running" => Watched(r) \/ Owed(r)

WatchInv == DispatchHoldsRun /\ MonitoredIsAttached /\ RunningIsWatchedOrOwed

(* No worker runs on once its run has an outcome, except while a dispatch  *)
(* or cancel is about to stop it: _finalize, cancel, the discard after a   *)
(* late start and the orphan handling of reconcile leave none behind.      *)
NoLeakedWorker ==
    gateway = "serving" =>
        /\ \A w \in Strays : container[w] # "running"
        /\ \A r \in Runs : container[r] = "running" =>
              \/ status[r] = "running"
              \/ \E c \in Conversations : dispatch[c] = [pc |-> "created", run |-> r]

(* Two workers never share a conversation (and its AGY session) at a time. *)
OneLiveWorker ==
    \A q, r \in DOMAIN conv :
        conv[q] = conv[r] /\ container[q] = "running" /\ container[r] = "running" => q = r

(* Worker output is persisted exactly once and in order, across polls,     *)
(* cancels, crashes and replays after a restart: before an envelope the    *)
(* log holds the envelopes before it and no other.                         *)
IngestedExactlyOnce ==
    \A r \in Runs : \A p \in DOMAIN events[r] :
        LET e == events[r][p]
            before == {events[r][q].src : q \in 1 .. p - 1} \ {0}
        IN  e.src # 0 => /\ e.src \in DOMAIN out[r] /\ e.kind = out[r][e.src]
                         /\ before = 1 .. e.src - 1

(* A run's log tells the run's story: no lifecycle outcome before it has   *)
(* one, and exactly that one afterwards.                                   *)
OneOutcomeEvent ==
    \A r \in Runs :
        LET at == {i \in DOMAIN events[r] : events[r][i].kind \in TerminalStatuses}
        IN  IF status[r] \in TerminalStatuses
            THEN \E i \in at : at = {i} /\ events[r][i].kind = status[r]
            ELSE at = {}

(* A run is completed only when its worker said so, all it wrote has been  *)
(* persisted, and nobody had asked to cancel it.                           *)
CompletedIsEarned ==
    \A r \in Runs : status[r] = "completed" =>
        /\ \E i \in DOMAIN out[r] : out[r][i] \in {"agent.completed", "agent.empty"}
        /\ 1 .. Len(out[r]) \subseteq Sources(events[r])
        /\ "run.cancel_requested" \notin Kinds(events[r])

(* A worker that delivered its result and was neither cancelled nor lost   *)
(* to an error of the gateway is recorded as completed.                    *)
DeliveredIsCompleted ==
    \A r \in Runs :
        /\ status[r] = "failed"
        /\ "agent.completed" \in Kinds(events[r])
        => "backend.monitor_error" \in Kinds(events[r])

(* An outcome, once committed, is never replaced: late monitors, cancels,  *)
(* dispatchers and reconciliation all lose against it.                     *)
OutcomeIsFinal ==
    [][\A r \in Runs : status[r] \in TerminalStatuses => status'[r] = status[r]]_vars

(* The store's view of the queue implements the abstract run lifecycle.    *)
Lifecycle == INSTANCE RunLifecycle
ImplementsLifecycle == Lifecycle!Spec

(* No submitted run waits or runs for ever.                                *)
EveryRunSettles ==
    \A r \in Runs : status[r] = "queued" ~> status[r] \in TerminalStatuses

(* The gateway comes up again after its last crash.                        *)
GatewayComesUp == <>[](gateway = "serving")
=============================================================================
