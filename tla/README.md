# GravityClaw in TLA+

GravityClaw is a single-user gateway for coding agents: one asyncio process over one
SQLite database. It queues *runs* per conversation, executes each run in a worker (the
Antigravity CLI in a Podman container or a host process), and is fed by an HTTP API, a
scheduler, Telegram, a task-flow dispatcher and goals. It is meant to survive being
killed at any moment: workers outlive the gateway, and everything it has decided is in
the database.

This directory holds the specifications of the parts where that promise is decided,
the TLC configurations that check them and the TLAPS proofs of what matters most.
Source paths below are relative to `src/gravityclaw/`.

## 1. The system

| component | state | operations | talks to |
|---|---|---|---|
| Run manager, `manager.py` | conversation locks, dispatch and monitor tasks | `submit`, `activate`, `cancel`, `reconcile`, `close`, dispatch, monitor, finalize | store, backend; called by every front end |
| Run store, `store.py` | every table | `submit_run`, `claim_run`, `attach_worker`, `transition_run`, ... | one SQLite transaction per method |
| Event log and bus, `store.py`, `event_bus.py`, `events.py` | `run_events`; a version per run | `append_event`, `list_events`, `notify`, `wait` | written by the manager, read by the WebSocket streams and presentations |
| Telemetry and progress, `telemetry.py`, `progress_engine.py` | counters in memory, `run_progress`, telemetry rows | `consume`, `save_progress_snapshot` | fed by ingestion, read by the streams |
| Backends, `execution.py` | containers, or processes in memory | `start`, `stop`, `inspect`, `logs`, `list_managed`, `remove` | Podman or the host; awaited by the manager |
| Worker, `worker/entry.py`, `agy.py`, `process_stream.py` | its output log | emits envelopes with a source sequence, exits | read by the manager through the backend |
| Scheduler, `scheduler.py` | schedules, trigger occurrences | tick, run-now, create, update, pause, delete, recover, notify | submits and cancels runs, writes the channel outbox |
| Channel inbox, `channel_store.py`, `channel_runtime.py` | cursor, inbox, bindings, cancellation requests | poll, ingest, download attachments, cancel | activates and cancels runs |
| Channel outbox, the same and `presentation.py` | outbox rows | reduce, claim, deliver, mark, recover | Telegram, through `telegram.py` |
| Task flows, `taskflow.py` | flows, tasks, edges, attempts, claims | create, depend, promote, claim, spawn, reconcile, retry, block, cancel | submits runs and reads how they ended |
| Goals, `goals.py` | goals and evaluations of a conversation | create, pause, resume, end, evaluate, continue | called when a run is finalized; submits runs |
| Context, `context.py` | manifests, summaries, watermarks, AGY conversations | compile, compact, bind | called when a run is dispatched |
| Memory, curator, learning, `memory.py`, `identity.py`, `curator.py`, `learning.py` | memory rows and revisions, identity documents and versions, learning jobs and events | promote, supersede, suggest, review, resolve, edit | called after a run and by the console |
| Skills, `skills/` | SKILL.md, snapshots, registry rows, revisions, proposals | propose, approve, reject, roll back, archive, discover, learn, curate | called by reviews, the console and the curator |
| HTTP API and console, `api.py`, `server.py`, `web/` | none of their own | handlers over the above | all run on the gateway's event loop |

`PROJECT.json` lists every component with its status; section 9 says why some are left out.

The behaviours that are hard here:

- **Interleaving at awaits.** One event loop, so code between two awaits is atomic; but
  `backend.start`, `stop`, `logs` and `inspect`, downloads, provider requests and a
  review's model suspend, and what was read before them is used after them
  (`manager.py:142`, `:304`, `scheduler.py:308`, `channel_runtime.py:87`).
- **Crashes.** A store method is a transaction, a handler is several, and skills and
  memories are files as well as rows. The gateway may die between any two writes;
  workers go on.
- **Unreliable answers.** Podman calls fail, containers vanish, provider requests time
  out after having been carried out.
- **Many writers of one thing.** Reviewer, curator, user and installer write the same skill
  and the same document; user messages, resumptions and evaluations draw on one goal.
- **Limits.** Lists read with a `LIMIT` (1000 events, 1000 occurrences, 20 outbox rows,
  8 attempts, 12 recent turns) decide things.

## 2. Modules

    RunEvents ──────────────► RunManager ───────► RunManagerProof
    RunLifecycle ◄── implements ──┘
         ▲  ▲  ▲
         │  │  └── TaskFlow ──► TaskFlowProof
         │  └── Scheduler ──► SchedulerProof
         └───── ChannelInbox ──► ChannelInboxProof
                ChannelOutbox ──► ChannelOutboxProof
                Streams ──► StreamsProof
                Skills ──► SkillsProof
    Gateway ──► Goals, Memory, Context ──► ConversationProof

| module | models |
|---|---|
| `RunLifecycle` | what the run queue promises: per conversation one run at a time, in order, outcomes final |
| `RunEvents` | the event log of a run: de-duplicated ingestion and the verdict of `_finalize` |
| `RunManager` | the coroutines of `manager.py` over the store and Podman; implements `RunLifecycle` |
| `Scheduler` | `scheduler.py` and the schedule tables; its runs follow `RunLifecycle` |
| `ChannelInbox` | polling, ingest, attachments and cancellation requests over `RunLifecycle` |
| `ChannelOutbox` | durable delivery of messages and streamed presentations |
| `TaskFlow` | `taskflow.py`, its tables and its routes; its runs follow `RunLifecycle` |
| `Gateway` | what the next three share: the runs and the deaths of the process |
| `Goals` | goals, what `_finalize` does for them, and their routes |
| `Skills` | the files, snapshots, rows and proposals of skills, and everyone who writes them |
| `Memory` | curated memories and the document that mirrors them, the curator, reviews, the editor |
| `Context` | what an agent is told of its conversation: compilation, compaction, resumption |
| `Streams` | following a run: ingestion, progress and telemetry, the bus, the WebSocket streams |
| `MC...` | for each of them, model values, sets of configurations, symmetry and views for TLC |
| `...Proof` | theorems and their proofs |

`RunLifecycle` is the joint between the modules. `RunManager` shows that the execution
core implements it, down to containers and crashes; `Scheduler`, `ChannelInbox` and
`TaskFlow` drive the queue through its actions. `Goals`, `Context` and `Streams` keep
only as much of a run's life as they need: its statuses and the awaits that separate them.
`Goals`, `Memory` and `Context` are the three specifications around one conversation. Each
stands for itself (`GoalsSpec`, `MemorySpec`, `ContextSpec`); what has a name in all three is
prefixed, so that one module can hold their proofs.

Definitions whose comment begins with `Slip:` or `A slip:` are no part of any specification. Each is
a plausible wrong version of the definition that follows it, named in `PROJECT.json` as
the change that makes a given property fail; this is how each property is known to say
something about the code.

### How code becomes actions

An action is the code between two awaits that really suspend. `EventBus.notify` is
awaited everywhere and never suspends (it takes an uncontended condition and notifies),
so it ends no action. Where a crash can fall between two transactions of one
such stretch, the module has the shorter step as well: the `Crash...` actions of
`RunManager`, one action per transaction with a `turn` in `Scheduler`. API handlers are
`async def` on the same loop, so they run between these stretches, never inside one.

Data is reduced to what decides: an event is its kind and source sequence, a text the
number of the rewrite that produced it, an update the kind of request it makes, time in
`Scheduler` a small clock.

### RunManager

| code | module |
|---|---|
| `runs.status`, `.worker_id`, `.conversation_id`; `run_events`; `workers.state` | `status`, `attached`, `conv`, `events`, `workerState` |
| containers and their logs | `container`, `out` |
| `_conversation_locks` and dispatch tasks | `dispatches` (waiting), `dispatch` (holding the lock) |
| `_monitor` tasks, `cancel` calls | `monitor`, `canceller` |
| `reconcile` | `gateway = "reconciling"`, `recon` |

A container is named after its run, so a run has at most one, and the branch of
`reconcile` for a worker with another identity cannot be reached. The
outcome `orphaned` is therefore in the alphabet of `RunLifecycle` and never reached. Workers of
settled runs that `reconcile` only notes in the table, with no await, are noted at
`Boot`. The dispatches at the end of `reconcile` are scheduled like any other rather
than awaited one after the other; they take the same locks. The optional
collaborators (context compiler, capabilities, goal evaluator, curator, learning) are
absent, as in a manager constructed without them.

### Scheduler

A tick is: recover claims (at start), materialize what is due, list what is pending, and
for each occurrence skip, wait for a REPLACE's cancellation, or claim and submit; then
synchronise states and notify. Each is a transaction of its own action. The one await
is `manager.cancel`, after which the tick goes on with the lists it made before.
Cron expressions are treated as intervals. Two occurrences of a generation due at the
same microsecond, and `claim_owner` (a claim is submitted by the stretch that made it or by
nobody), are left out; an update refused for its `expected_version` changes nothing and
is no action; `update_schedule_generation` has no caller.

### ChannelInbox

`ingest` is one transaction: inbox row, binding, run and cursor move together
(`Record` with `Message`, `Switch` or `Stop`). The poll loop may be suspended inside a
batch only by the download of attachments (`fetching`). Cancellation requests are a
table of which `cancel_once` claims what is PENDING and works through it oldest first,
suspended while a worker is stopped. The manager appears only as `Dispatch`, `RunEnds` and the
answers to `stop`; what happens inside is `RunManager`'s subject. One chat of
one workspace, no runs from other front ends, no deletion of conversations.

### ChannelOutbox

The delivery loop claims up to `BatchLimit` rows and sends them one after the other,
suspended in each request; the presentation loop rewrites rows meanwhile.
A request may be accepted, answered "not modified", rejected with nothing
done, refused, or lost: then it was carried out or not, or will be carried out
later (`late`). In one process every row of a batch is marked before the next
claim, so the lease clauses of `claim_outbox` never apply and are left out. Rewrites
that repeat the same text are left out; retry delays are reduced to due and not due.

### TaskFlow

Neither `tick` nor a route suspends, so nothing interleaves with a tick but the death of
the gateway, which may fall between any two of its transactions: the actions are those
transactions, `pc` and `todo` say where the tick stands. Tasks (`task`), edges (`needs`),
attempts with their outcomes, claims with their leases and flows are the tables; a
result contract is what a finished run says of its task. `pushed` counts how often the user
moved a task by hand, `lost` the deaths and errors between a submission and its record:
they let the properties say exactly what each costs.

### Goals

A run of the conversation is queued, runs alone and ends in one of the ways of `RunManager`.
`after` holds the ended runs whose `_finalize` has not come to `_evaluate_goal` yet: requests can
come in between, as the event loop is given up once there. A run settled by somebody else ends as
"stopped", which stands for cancelled, interrupted and orphaned; if its monitor is between two
awaits, `_finalize` goes on regardless and the goal is evaluated (`RunIsOvertaken`). An evaluation
counts the turn, records the verdict and then changes the goal or submits the continuation,
without an await; `Evaluate` makes all of these writes or, if the process dies, those before its
death. A criterion passes or fails as it pleases, whatever command it runs.

### Skills

An operation writes SKILL.md, snapshots, the registry row, the revision row and the
proposal one after the other without an await. Each kind of operation is given as the
sequence of its writes (`CreateSteps`, `PatchSteps`, ...), and `Operate` performs all
or, if the process stops, a proper prefix; `torn` remembers whose last operation was
cut short. Contents are model values, ownership and trust are the rules of `trust.py` as
functions of the settings. `ProposalService`, `skill_manage`, `discover` and
`restore_on_reuse` have no caller outside the service and its tests; they are modelled as
things that may be called.

### Memory

Curated rows (`row`), their revisions (`revised`) and the lines of MEMORY.md (`doc`, by marker),
with the versions that the console's editor works against. As in `Skills` an operation is a
sequence of writes that may be cut short. A review leaves the event loop while it asks its model
(`job` is "running", `live` its task), so everything else may happen meanwhile. A text is a model
value; `Repeats` and `Opposes` say which new text repeats or opposes which old one, relations that
need be neither symmetric nor transitive, like the code's. The search shows the curator at most
`SearchLimit` rows of all kinds, of which it keeps the curated ones: `others` counts the rows of
other kinds that compete with them, and which are shown is open once there are more rows than
places. The scores are computed as in the code, in thousandths. `unchecked` marks the rows that
were written without the curator's check or by one that was not shown all it should have been,
`apart` those cut off from their line.

### Context

A message is its number. `Start`, `Attach` and what lies between are separate steps
since claim, compilation, start and attachment are separated by awaits; compaction by the
compiler belongs to compilation, compaction by the user is a route. `agent` records what
each AGY conversation has been told, `left` the messages that a run's own compaction
stepped over. Budgets count messages, not tokens. A summary is modelled by what it covers (its
range, its count and the messages folded into it), not by its text, which is bounded
(`context.py:764-776`).

### Streams

One run and one client. Ingestion is one action per envelope, as each is announced on the bus
at an await; the monitor and a cancellation ingest beside each other. `client` is the coroutine
of a WebSocket: its cursor, whether its last page was full, the version it waits on (kept as
`moved`: has anybody moved it since). The engine's counters live in memory and die with the
gateway, `stored` is the row of `run_progress`.

## 3. What is checked

`CHECK_DEADLOCK` is off everywhere: the bounds end every behaviour.

| run | what it establishes | bounds |
|---|---|---|
| `core` | every running run is watched (`RunningIsWatched`), no two workers of a conversation live (`OneLiveWorker`), output enters the log once and in order (`IngestedExactlyOnce`), success is earned (`CompletedIsEarned`) | 1 conversation, 2 runs, 1 stray container, 2 envelopes, 2 restarts, torn transactions, failing starts |
| `faults` | under all seven backend faults, a failing inspect among them, the store implements `RunLifecycle` (`ImplementsLifecycle`) and every submitted run settles (`EveryRunSettles`) | 2 runs, 1 stray container, workers that write nothing (runs that complete are `core`'s), 1 restart, 1 cancel |
| `sched_core` | no two live runs of a schedule (`NoOverlap`), decisions agree with runs (`DecisionMatchesRun`), no due time is skipped (`NoOccurrenceLost`), a result is notified before it counts as notified (`NotificationKept`) | every policy combination of `MCScheduler`, clock to 3, a run-now request, a crash, failing stop and dispatch |
| `sched_live` | nothing open belongs to an older generation (`OpenIsCurrent`), every occurrence is decided and every result looked at | 2 generations: a pause or a deletion during an await, an edit before or after it; a crash; clock to 1 |
| `outbox_core` | one message per row (`AtMostOneMessage`), DELIVERED means current (`DeliveredIsCurrent`), the final text is shown or the row is given up (`FinalTextShown`) | 2 rows, 3 texts, 3 faults, requests carried out late, attempt limit 3, 2 crashes |
| `inbox_core` | one run per message, in order (`OneRunPerUpdate`), nothing skipped (`NothingSkipped`), a stop ends its run (`StopTakesEffect`) | 3 updates of 10 kinds, a conversation for each `/new` that can be sent, 1 fault of 3 kinds, 1 crash |
| `taskflow` | no task is its own ancestor (`Acyclic`), parents come first (`ParentsFirst`), done means a run said so (`DoneIsEarned`), at most one live run and the allowed attempts (`RunsAccounted`), every offered task is decided (`EveryTaskSettles`) | 2 tasks of one flow, 2 attempts each, 1 worker, every request, 1 trouble: a request, an error or a death |
| `skills` | the file says what its newest snapshot says (`FileIsRecorded`), no recorded revision is lost but the current one of a torn skill (`PastIsKept`), one approval for a base (`OneApprovalPerBase`), autonomy leaves protected skills alone (`AutonomyKeepsOut`) | 1 skill, 2 texts, 2 proposals, revision 3, 1 crash |
| `goals` | the budget of turns holds (`TurnsWithinBudget`), ended goals rest (`EndedGoalsRest`), active ones keep going (`GoalKeepsGoing`) | 2 goals of 2 turns, 4 runs, 1 message, 1 resumption, 1 crash |
| `memory` | a line says what its row says (`LinesSpeakTrue`), memories whose check was shown all they could repeat or oppose agree with each other (`NoContradiction`), nothing is rewritten without a record (`NothingForgotten`), the editor overwrites nothing it has not shown (`EditorSeesAll`) | 2 memories, 2 opposite texts, a search of 2 rows, 2 events, 1 review, 2 versions, 1 crash |
| `context` | each earlier message is shown to a fresh agent or covered by its summary (`HistoryComplete`), nothing is given twice (`NothingTwice`), and the same holds of the agent that later runs resume (`ResumedKnows`) | 4 runs, threshold 2, 1 recent turn, 2 compactions by hand, 1 crash |
| `streams` | no wake-up is lost (`WakeupsArrive`), progress and telemetry miss nothing (`ProgressKeepsUp`) | 2 envelopes, 1 poll of a running worker, page of 3 events, 2 connections, 1 crash |

Why these bounds suffice for the cases that matter: a conversation needs two runs for an
overtaking or an overlap; a second crash finds the state a recovery left behind; two envelopes
distinguish order and a replay from a fresh read; a schedule needs three due times for a backlog
over a limit of two and two generations for a stale one; three updates are a message, what
interferes with it and what comes after; the outbox needs two rows in a batch and three texts, one
in flight, one written meanwhile and a final one. Two tasks make an edge, its reverse a cycle, and
a second attempt a retry. Two proposals compete for one base, and the third revision is the one
after a rollback. Two goals are the one that ends and the one that takes its place, and four runs
are two turns, a message and one more. Two opposite texts are a statement and its contradiction,
and rows of another kind fill a search of two. Four turns allow a summary to be folded into the
next one with messages before, between and after. Limits that only matter when reached (1000
events, 20 rows, 8 attempts) are constants: at their real value where they must not interfere,
small where the run is about reaching them.

`memory` and `skills` use symmetry over the texts, which no definition tells apart.
`Bounded` in their MC modules says which of their troubles are not combined: the user's hand,
a death and the editor in `memory`; the life of a skill and its later revisions in `skills`.
`memory`, `context` and nothing else use a view: it leaves out auxiliary variables and what
of an editor or a prompt can no longer make a difference.

When an edit that was given up is carried out after a newer one, nothing on this side
can restore the order. `ChannelOutbox` records the rows this happened to in `overtaken`, and
`DeliveredIsCurrent`, `NeverBackwards` and `FinalTextShown` speak of the others.
`AtMostOneMessage` makes no such exception.

The modules state some properties that no run keeps, most of them proved instead (section 4).
These hold in the instances of the runs and can be added to their configurations: the type
invariants; `OneRunningRun`, `NoLeakedWorker`, `DeliveredIsCompleted` (of `core`),
`OneOutcomeEvent`, `WatchInv`, `OutcomeIsFinal`, `GatewayComesUp` (of `faults`),
`DecisionIsFinal`, `RunsKeepTheirLifecycle` (of `sched_core`), `SendInv`, `NeverBackwards` (of
`outbox_core`), `CompletedMeansEnded`, `QueueMoves`, `UpdatesHandled` (of `inbox_core`),
`AppliedOnce`, `NothingUnlogged` (of `skills`), `EveryTurnJudged` (of `goals`).

### Fairness

Fairness is stated only in the specifications of the liveness runs.

- `RunManager`: weak fairness of every coroutine (asyncio runs what is ready; every
  Podman call has a result), of the worker's exit (AGY is started with a print timeout)
  and of `Boot` (the unit has `Restart=on-failure`); strong fairness for reconcile's
  visit of a worker, which is disabled while other coroutines hold the loop.
- `Scheduler`: strong fairness of the loop's steps, of the requests' steps, of a lease
  running out and of runs starting and ending, since asyncio resumes ready coroutines in
  turn and `turn` disables them in between; weak fairness of `Boot`. The clock need not tick.
- `ChannelInbox`: weak fairness of the poll loop, the cancellation loop, each
  conversation's dispatch, downloads (they time out) and `Boot`. Runs need not end:
  a stop must take effect all the same.
- `ChannelOutbox`: weak fairness of the delivery loop including the provider's answer or
  its timeout, of the presentation loop, of a delay running out and of `Boot`.
- `TaskFlow`: weak fairness of the tick and its steps (`api.py` runs the dispatcher in a loop) and
  of `Boot`; strong fairness of runs starting and ending, which a tick interrupts, and of each
  lease running out, which a heartbeat may put off.
- `Goals`: weak fairness of the queue, of the worker's end and of the evaluation. Requests,
  crashes and lost workers owe nothing.

Faults and crashes are bounded, so liveness says what happens once they stop.

## 4. What is proved

For every number of conversations, runs, workers, rows, texts, goals, tasks, memories, messages,
faults and crashes, from the named assumptions on the constants.

`RunManagerProof`:

- `TypeCorrect`: `TypeOK`. Its typing of `recon`, `dispatch` and the absent runs is what
  the other proofs rest on.
- `RunningRunsAreWatched`: while the gateway serves, each running run has a dispatch or
  a monitor. That is not inductive: during `reconcile` runs are legitimately unwatched.
  `WatchInv` adds whom `reconcile` still owes (workers to visit, runs its sweep will
  interrupt), that a monitored run is attached and that a dispatch holds a run; it is
  preserved by every action, one lemma per group of actions.
- `RefinesLifecycle`: initial states map to initial states and each step is a `Submit`,
  `Start`, `CancelQueued`, `Settle` or a stutter of `RunLifecycle`. The step of a dispatch uses that
  `next_queued_runs` returns only the oldest queued run of an idle conversation.
- `OneRunningRunPerConversation` and `OutcomesAreFinal`: of the manager, by the
  refinement, from invariants of the abstract queue.
- `OneWorkerAtATime`: `OneLiveWorker`, from `WorkersAreStopped` (no fault that makes the gateway
  settle a run and leave it its worker: a lost start, a failing logs, stop or inspect) and in
  behaviours whose `reconcile` is not overtaken by a dispatch (`ReconcileIsAlone`); section 5
  shows what happens without either. That a conversation has one running run is not enough, for a
  run is settled while its worker still runs. `WorkerInv` says whose a running worker is: while
  the gateway serves, that of a running run, or of a run the dispatch holding the conversation is
  about to discard; while it reconciles, one on its list that it has taken over or has yet to
  visit. `ReconcileIsAlone` is what makes it inductive: the sweep judges by a list read before the
  awaits.
- `OneWorkerInOneConversation`: with one conversation that condition is itself an
  invariant (`Alone`): `reconcile` has at most one run to take over, and foreign containers are
  gone before the first run is submitted, so nothing ends and is succeeded while it awaits.
- `NoWorkerLeaks`: `NoLeakedWorker`, under the conditions of `OneWorkerAtATime`. For the workers of
  runs it is `WorkerInv`; a container of others runs until `reconcile` has visited it
  (`StraysVisited`), and the gateway serves only after that.
- `IngestedOnce`: `IngestedExactlyOnce`, without any condition. The invariant `LogInv` says that
  what a log holds of its worker's output is a prefix of it, in order, the rest being the
  gateway's own events. `IngestTells` is the lemma behind it: reading any beginning of the output
  (all of it, up to a foreign envelope, as far as a crash let it commit, or nothing) extends the
  prefix. `Ingest` is therefore defined in closed form, by the n-th envelope that is missing.
- `LogsTellTheOutcome`: `OneOutcomeEvent`, without any condition: a log holds no outcome before its
  run has one and exactly that one afterwards. Reading output or announcing anything else only makes
  the log go on (`GoesOn`), and an outcome is appended where the status is still a live one, with
  the status itself.
- `CompletedRunsAreEarned`: `CompletedIsEarned`, provided no container disappears (`"vanish"`) and
  no log outgrows `ListLimit` (`Bounded`); section 5 shows what happens otherwise. `Earned` adds that
  the worker of a completed run has exited, so that its output is at an end. What keeps a
  worker from being started again is `HandsInv`: a dispatch prepares only runs that were never
  attached and that `reconcile` does not visit, and a worker that was not live when `reconcile`
  listed it stays exited, so the last reading before `_finalize` is complete.

`SchedulerProof`, from `EndingsAssumption`: runs end in ways the run queue knows.

- The invariant is `TypeOK /\ Tables /\ Control`. `Tables` relates the rows: every run is the run of
  one occurrence and the other way round (`Linked`), a decision tells what became of its run
  (`AllTold`), a schedule has at most one active occurrence (`OneActive`), open occurrences are
  of the current generation, due times behind the cursor have their rows (`Occurred`).
  `Control` says that one coroutine holds the loop while the others rest or await a stop, and
  that what a claim under QUEUE has read of the active occurrences is used in the stretch that
  read it: without it `OneActive` is not inductive, for a run-now request comes in at every await.
- `TypeCorrect`; `OneLiveRunPerSchedule` (`NoOverlap`: a live run is that of an active
  occurrence); `DecisionsTellRuns`; `NothingStaleOpen` (`OpenIsCurrent`); `NoTimeSkipped`
  (`NoOccurrenceLost`, for any interval and backlog). `DecisionsTellRuns` covers every ending; the
  runs of `sched_core` only complete, so that a FAILED occurrence is this theorem's alone.
- Of steps, under the same invariant: `DecisionsStand` (`DecisionIsFinal`), `NoNotificationLost`
  (`NotificationKept`), and `KeepsRunLifecycle`: every step is a step or a stutter of
  `RunLifecycle`.

`ChannelInboxProof`:

- The invariant is `Typed /\ Polled /\ Fetching /\ Cancelling`. That nothing is skipped is not
  inductive: the cursor jumps to the update handled, which is right only because the
  loop has handled, or still holds, all between them (`NoGap`), and because an
  update whose attachments are being fetched is recorded and still in the batch (`Fetching`).
- `TypeCorrect`; `RunsInOrder` (`OneRunPerUpdate`); `NoMessageSkipped` (`NothingSkipped`);
  `ReportedCancellationsAreTrue` (`CompletedMeansEnded`); `KeepsRunLifecycle`, the refinement of
  `RunLifecycle`.

`SkillsProof`:

- An operation makes a prefix of its writes, so an invariant must hold after each prefix. What the
  proof needs of the order of the writes is one predicate, `Orderly`, shown once for each
  kind of operation. The invariant adds to the properties that snapshots are at most one
  revision ahead of their row, and ahead at all only after a cut (`SnapshotsBehind`), and
  that an approved patch has made the revision after its base (`ProposalsFit`).
- `TypeCorrect`; `RollbackFindsTheFile` (`FileIsRecorded`); `PatchesDoNotCollide`
  (`OneApprovalPerBase`); `PastStands` (`PastIsKept`: of the current revision too, unless the
  skill is torn).
- `ProposalsApplyOnce` (`AppliedOnce`): a proposal that was applied stays unusable for good, although
  a crash can leave it pending: the skill it creates exists, the revision it
  patches is past (`AppliedForGood`).
- `RevisionsAreLogged` (`NothingUnlogged`): an operation that is not cut raises a revision exactly if
  it logs one.
- `AutonomyStaysOut`: `AutonomyKeepsOut`, provided creations need an approval, which is the
  default (`skills/service.py:68`). Without it a review may overwrite a
  protected file (section 5).

`ChannelOutboxProof`:

- `TypeCorrect`: `TypeOK`.
- `NoSecondMessage`: no row is posted twice, provided `"unclear"` is not among the
  faults; section 5 says why the condition is needed. The invariant
  `SendInv` says that a waiting row without a known message is unsent (`WaitingInv`),
  that the rows of a batch are distinct, held in SENDING and unsent until their own
  request is answered (`BatchInv`), and that a late initial send has nobody else
  sending for its row (`LateInv`). Recovery is the critical step: it must not return a
  held row without a known message to PENDING.
- `DeliveredShowsTheText`: `DeliveredIsCurrent`, under the same condition. `Current` adds that a row
  known by a message has one, and that a request answered well has made the provider show
  its text, unless a late edit came after it; the row itself may have been rewritten meanwhile.
- `TextsOnlyAdvance`: `NeverBackwards`, an action property, for every fault. Texts grow along the way
  from what is shown, or on its way late, over the job in the batch to the row (`Ascending`), so only
  a request that was given up and arrives late can show an older text.

`ConversationProof`, of `Goals`:

- `GoalsTyped`: `GoalsTypeOK`.
- `BudgetKept`: `TurnsWithinBudget`. The bound is not inductive, for the count comes before
  the test: the invariant `Budget` adds that a goal which can still take a turn (active or
  paused) has one left. The critical step is a death between the two: the goal stays
  active at its limit, and it is the `crashes` of the bound that pays for the next turn.
- `EndedGoalsStayEnded`: `EndedGoalsRest`, an action property, from the types and that
  a run not yet submitted belongs to no goal.
- `TurnsAccounted`: `EveryTurnJudged`. The evaluations are a finite set whose size follows the
  count, behind it by at most one turn for each death (`Judged`); a run that is still to be
  followed up has ended and is no turn yet (`Followed`), so no run is counted twice. A run that
  ended is one that ended in whatever way, one that was overtaken by a cancellation included.

Of `Memory`:

- An operation makes some of its writes, each after those before it; a line alone may be
  refused. `Did` says this of the sets the operations are written with, once for every order of
  writes, and the rest of the proof knows only `Did`.
- `MemoryTyped`: `MemoryTypeOK`. The attempt showed it false for `max_retries` = 0, where a job
  that fails still counts its attempt; the type now says so.
- `DocumentTellsRows` (`LinesSpeakTrue`) and `CuratedAgree` (`NoContradiction`). Both need that
  rows are made in order (`Numbered`): the row about to be made is not one there is. Row
  and line of a memory are two writes, the row first; where only the first was made, the memory is
  `apart`. `NoContradiction` needs that the curator looks and writes
  without an await in between, and it exempts rows whose check the search kept from a row
  they repeat or oppose. `CuratedAgree` has the condition `OneTopicEach`: what repeats or opposes
  each other is an equivalence. The curator gives way to one row; with a relation that
  is not transitive there may be a second (section 5).
- `HistoryOfMemories` (`NothingForgotten`), of steps: when the curator changes a row, the
  revision that holds the old and the new text was written before it.
- `SavedInFullView` (`EditorSeesAll`), of steps, from `EditorBehind`: an editor that carries the
  number of the last version was opened with its text, so that the version a save must name
  stands for the lines it overwrites.

Of `Context`, in one induction (`ContextInv`):

- `ContextTyped`: `ContextTypeOK`, with the `CHOOSE` of the latest summary (`HasLatest`).
- `NothingWithheld` (`HistoryComplete`): a summary accounts for every message up to its last, each
  folded or `left` (`Covers`), and a prompt shows or folds the rest. That is coverage: how much of
  a folded message the text of the summary still says is not modelled (section 5). A fold keeps
  this because it begins where the last summary ended.
- `NothingRepeated` (`NothingTwice`): without a compaction by hand a summary folds nothing after its
  own end and counts each message once (`InOrder`), and no prompt shows what it folds
  (`Unrepeated`). The lemma `FoldedFirst` is about what a compaction adds to a summary.
- `WhatIsResumed` (`ResumedKnows`): nobody but the run that began the AGY conversation and those that
  resumed it has been heard of, and a run under way begins it or is told to resume it
  (`Resumption`). This needs that one run at a time is under way and that its phase agrees with
  what was stored for it (`Phased`), that each run has one message of the user and an answer only
  after its end (`Spoken`), and that what a prompt omits is `left` (`Omissions`).
- The steps that only move runs on share one lemma (`Steady`).

`TaskFlowProof`:

- `AcyclicWithinFlows`: as long as every edge joins tasks of one flow, the graph stays
  acyclic. That a task is not reachable from another is witnessed by a closed set of tasks
  (`Separates`); for each step that adds edges the witnesses of the new graph are made
  from the old ones by union and intersection, so that no induction on paths is
  needed. The condition is necessary: see `Acyclic` in section 5.
- `AcyclicInOneFlow`: with one flow, without the condition.
- `TypeCorrect`, `WorkWaitsForParents` (`ParentsFirst`), `OnlyWorkMakesDone` (`DoneIsEarned`) and
  `RunsAreCounted` (`RunsAccounted`), none inductive alone. `Step` says of each
  action what it makes of a task (untouched, born, freed, held, claimed, spawned, judged, given
  back, moved by hand, ...), its attempts, runs and edges; the invariant is then preserved by
  `Step` alone. It says in particular, edge by edge, that a child is worked on only after its
  parent (`BegunInOrder`), so that it survives the removal of another parent's edge, and
  how many attempts and live runs the present state of a task still allows (`AttemptsBounded`,
  `RunsCounted`).
  The attempt to prove `RunsAccounted` showed it false beyond the bounds of its run:
  a task that blocked three times for one reason is in TRIAGE, and removing one of two dependencies
  makes it READY again, so that it takes an attempt more than `max_attempts`
  (`taskflow.py:339`, `:444`). The user's request frees it, so `pushed` now counts
  this as a move by hand.

`StreamsProof`:

- `WakeupsArriveAlways`: `WakeupsArrive`, for every output, log and page size. What a stream has
  yet to send when it begins to wait depends on what it listed: `Heard` says of every moment
  since the listing that cursor and page reach the end of the log, unless the page was full, the
  bus has moved or an ingester is about to announce; `PageFollows` that the page goes on
  where the cursor stands. The critical steps are the listing, which takes the version before
  it reads, and every step that adds to the log, which must leave an announcement owed.
- `TypeCorrect`: `TypeOK`.
- `ProgressMissesNothing`: `ProgressKeepsUp`. What an ingestion has counted it has counted in this
  life of the engine, for a crash takes the engine and its counters; so `Counting` speaks of the
  engine, and of the row only once the ingestion has written it. That the engine names the last
  tool fed (`Naming`) holds only while no other ingester reads beside it (`ReadsAlone`), which is
  why `AfterStop` says that the monitor goes back to its sleep only when no cancellation reads.
  `ReadToItsEnd` says what row, telemetry and engine hold once the run has ended with its output
  read to the end.

Every invariant and every action property of a run, and the refinement of the run queue by the
manager, is thus stated by a theorem. Only model-checked is what must happen eventually:
`EveryRunSettles`, `EveryOccurrenceDecided`, `EveryResultNotified`, `FinalTextShown`,
`StopTakesEffect`, `EveryTaskSettles` and `GoalKeepsGoing`. Liveness and `ENABLED`, induction over
data and recursive operators are outside what the prover setup handles and stay with TLC.

## 5. Statements the code does not keep

The modules state these too, or the comments of their properties say which condition leaves the
case out. TLC refutes each in the instance named here (otherwise the module's bounds); no
configuration is kept for them. Some hold in a run whose bounds exclude the case: `core` has one
conversation, logs shorter than `ListLimit`, no fault `logs`, `inspect` or `vanish`, `faults` no
envelopes at all, `sched_live` a `NotifyLimit` that is not reached, `outbox_core` no unclear
answers, `taskflow` one flow.

| property | instance | what happens |
|---|---|---|
| `RunManager!OneLiveWorker` | `Faults = {"logs"}`, 2 runs, no restart | `podman logs` fails once: the run is failed, its worker keeps running, and the next run of the conversation gets a second one beside it (`manager.py:411`), where docs/milestone-2.md:15 promises "Multiple queued messages with one running job per conversation" |
| `RunManager!OneLiveWorker` | `Faults = {"inspect"}`, 2 runs, no restart | any failing `podman inspect` reads as "no such container" (`execution.py:167`): the monitor interrupts a run whose worker lives (`manager.py:380`) and the next run gets a second one beside it; in the same way a cancellation's stop stops nothing (`execution.py:233`) and `list_managed` drops a container (`execution.py:227`). `NoLeakedWorker` fails likewise; `RunningIsWatched`, `IngestedExactlyOnce` and `CompletedIsEarned` hold |
| `RunManager!OneLiveWorker` | `Faults = {}`, no strays, two conversations, 4 runs, a restart | while `reconcile` awaits the worker of one conversation, the monitored run of the other ends and its successor is dispatched; the sweep takes the successor, which is not on its list, for interrupted, its worker runs on, and the next queued run gets a second one beside it |
| `RunManager!CompletedIsEarned` | `Faults = {"vanish"}`, 1 run, a restart | a worker writes on after its result, exits and its container disappears after `reconcile` has listed it: no output reads as no output (`execution.py:177`), the run is completed and its last envelopes are lost |
| `RunManager!CompletedIsEarned` | `ListLimit = 4`, 1 run | the cancel request lies behind the part of the log that `_finalize` lists: the stopped run is completed |
| `RunManager!NoLeakedWorker` | two conversations, 3 runs, a restart | while `reconcile` awaits, a monitor's dispatch starts a worker that is not in its snapshot; the sweep declares the run interrupted, the worker runs on |
| `RunManager!DeliveredIsCompleted` | `ListLimit = 4` | a run with more events than one list returns fails "without a final event" though it has one |
| `RunManager!GatewayComesUp` | `Outputs = {"foreign"}`, a restart | a worker reported another backend conversation while the gateway was down: `reconcile` raises at every start |
| `Scheduler!GatewayReturns` | `OccurrenceLimit = 1`, `CATCH_UP`, a crash, clock to 3 | a backlog over the limit raises in `start()`, at every start (`scheduler.py:236`), where README.md:76 promises scheduling that survives reboots |
| `Scheduler!EveryResultNotified` | `NotifyLimit = 1` | after a full list (1000) of completed occurrences later results are never looked at |
| `Scheduler!DisabledDoesNotRun` | one generation, clock to 3 | a schedule disabled while its REPLACE waits runs nevertheless |
| `Scheduler!HeartbeatNeverAccumulates` | `Configs = {Heartbeat}`, clock to 4 | a heartbeat created over the API queues up |
| `Scheduler!FailedDispatchIsDecided` | `Faults = {"dispatch"}` | a dispatch that raises leaves its occurrence claimed and ends the tick |
| `ChannelOutbox!FirstFailureIsRetried` | 1 row, 9 texts, `RetryLimit = 8`, `Faults = {"rejected"}` | eight successful edits use up the attempts; the next 429 is final (`channel_store.py:499`), where docs/milestone-4.md:32 says "Edits to known provider message IDs are safely retried" |
| `ChannelOutbox!UncertainWasSent` | 2 rows, a crash | a crash gives up the rows of a batch that nobody has sent |
| `ChannelOutbox!AtMostOneMessage` | `Faults = {"unclear"}` | a 5xx answer to a send that was carried out leads to a second message |
| `ChannelInbox!EveryUpdateHandled` | `SentKinds = {"text", "photo"}`, 2 updates, no faults | a photo without a caption is fetched again for ever and nothing after it is handled (`channel_store.py:151`), where telegram.py:58 says "Accept text messages, photo messages, and document messages" |
| `ChannelInbox!StopIsPursued` | `CancelLimit = 1`, one failing stop, 3 updates | `/stop` after a FAILED request answers that it was requested and requests nothing |
| `ChannelInbox!AttachmentsReachTheRun` | two messages, one with a file | a run is dispatched while its attachments are being downloaded |
| `TaskFlow!Acyclic` | `MaxTasks = 3`, `MaxFlows = 2`, `Edits = {"depend"}` | a task may be created under parents of another flow, and the search for a cycle looks at the edges of one flow (`taskflow.py:333`, `store.py:3932`), where taskflow.py:9 promises "Deterministic DAG dependencies with cycle detection" |
| `Goals!FailedRunEarnsNothing` | the bounds of `goals` | the evaluator is given the record read while the run was running, so its branch for failed runs (`goals.py:72`) is dead: a failed run whose criteria pass completes its goal |
| `Goals!OnlyFinishedRunsCount` | the bounds of `goals` | a run is cancelled or interrupted while its monitor is between two awaits: its `_finalize` does not look at what became of its own transition and evaluates the goal all the same (`manager.py:573-588`), where the comment there speaks of "the completed run" |
| `Memory!NoContradiction` | 3 texts, `Opposes` not transitive (`c` opposes `a` and `b`, which do not oppose each other) | `/remember` supersedes the first row that the text opposes and stops (`curator.py:290-306`); the second stays beside the new text |
| `Memory!SuggestionsWait` | 1 memory, no crash | what assisted mode queues for approval is stored nowhere: its event type is refused by the CHECK of `learning_events` (`curator.py:818`, `store.py:5065`), the error swallowed |

Modelling showed more of this kind, which no property states; the conditions and auxiliary
variables of the properties make room for it:

- *Task flows.* A retry or an unblocking of a task that is RUNNING or DONE starts a second
  run beside the first (`pushed`). A cancelled task leaves its flow WAITING for ever; a retry
  in a FAILED flow is never dispatched; children blocked by a failed parent stay
  blocked when its retry succeeds; a PATCH to RUNNING occupies a worker's slot for ever.
- *Goals.* A death between a run's end and its evaluation, a run that never starts, a cancellation
  and an interruption all end the chain of an active goal silently (`lost`). A paused goal is
  still counted and continued by the run in progress, and a resumption can start a second chain. A
  run that somebody else settled may count as a turn (`OnlyFinishedRunsCount`).
- *Skills.* Approving a create proposal whose name is taken overwrites SKILL.md before the
  registry refuses, and the proposal stays pending. `approve` looks at a proposal's status only
  after the files are written. Without `create_approval_required` a review may overwrite a
  protected file, and without `modify_approval_required` even strict mode does not ask. A patch
  that is cut off, or a create that is refused because the name is taken, leaves its text in
  SKILL.md; the next patch takes that file for the current revision and overwrites its snapshot
  with it (`service.py:230-232`, `proposals.py:182-187`), so what the revision said is lost:
  `PastIsKept` exempts the current revision of a `torn` skill. The prompt of the curator's
  schedule is recognised by nobody (`curator_job.py:175`).
- *Memory.* The curator searches all kinds of memory, takes ten rows and only then keeps the
  curated ones (`curator.py:280-281`, `store.py:2354-2361`), and it searches by the first 20 words
  only (`store.py:2353`). Ten episodes that match better hide the curated row, and a repetition or
  a contradiction is promoted beside it (`unchecked`). A PATCH or DELETE of a memory leaves its
  line in MEMORY.md. A job put back to pending, and one that died with the process, is never taken
  up. A line whose event failed may have been written. A death after the revision leaves a
  revision that never happened (`apart`).
- *Context.* What a summary covers it need not still say: it holds the last 80 messages, 160
  characters of each, some 16,000 in all (`context.py:764-776`), and no manifest tells what was
  dropped, so `HistoryComplete` and `ResumedKnows` speak of coverage only. A run's own message is
  no part of its history, so its compaction can step over it when many messages are queued behind
  it (`left`). A compaction by hand folds from the first message whatever the last summary covered
  and so counts messages twice, against docs/milestone-5.md:26. The message of a run that never
  reached a worker is not shown to an agent that is resumed.
- *Streams.* Each poll consumes the whole output again, so the progress counts tool calls once
  per poll and telemetry rows multiply (`manager.py:485`): `ProgressKeepsUp` therefore bounds the
  counters from below only. `tool.finished` is no event the engine knows
  (`progress_engine.py:112`), so an active operation never ends. A stream may send
  "run.terminal" before the last events, if they are appended during its awaits or exceed a page.

## 6. Hazards

`PROJECT.json` lists the hazards with their lines and the properties that guard them.
Those without a property of a run have a note: they are statements of section 5.

## 7. Reading order

`RunLifecycle`, `RunEvents`, `RunManager`, its properties, then `RunManagerProof` from the end
backwards: the theorems, `WatchInv`, the lemmas. `ChannelOutbox` and `Goals` (the first part of
`ConversationProof`) are the shortest complete examples: model, invariant, proof. The proof
modules of `Scheduler`, `TaskFlow`, `Skills`, `Streams` and the rest of `ConversationProof` are
long: read their headers, the definitions of the invariants and the theorems. The others can be
read on their own after `RunLifecycle`.

To check one run: `tlc -config RunManager_core.cfg MCRunManager.tla`. To check a proof:
`tlapm RunManagerProof.tla`.

## 8. Plan

Done, in this order: RunEvents, RunLifecycle, RunManager and its proofs; Scheduler;
ChannelOutbox and its proof; ChannelInbox; TaskFlow, Goals and their proofs; Skills; Memory;
Context; Streams and its proofs; the proofs of Scheduler, ChannelInbox, Skills, Memory and
Context. To come:

1. `HostWorkers` (`execution.py` 200-640): the default backend; workers in memory,
   process groups, pumps that read lines of bounded length. Properties: a stopped
   worker has no live group; after a restart no run is attributed to a process nobody
   reads. It replaces Podman's assumptions in `RunManager`.
2. The deletion of a conversation, over the tables of all modules at once.
3. `Goals` and `TaskFlow` over `RunManager` itself rather than over the statuses of runs, in
   a composition small enough for TLC.

## 9. Not modelled, and why

- Permanent deletion of a conversation (`api.py:2158`, `store.py:739`) while runs are
  active: it removes rows under every component at once. An occurrence that was
  DISPATCHED then keeps no run and blocks its schedule (`store.py:4891`).
- A `podman run` that completes after the gateway which issued it has died: `RunManager`
  lets it complete before the crash or not at all.
- The rotation of a container's log (three files of 10 MB, `execution.py:102-105`): output is taken
  to be shorter, else its beginning is gone before a gateway that comes back can read it.
- Attachments sent with `/stop`, which are fetched for the run that is to be stopped
  (`channel_runtime.py:85-88`); that the run's conversation is activated is modelled.
- Memories of several lines: a supersession rewrites the line with the marker and leaves the
  others (`curator.py:617-624`); in `Memory` a memory is one line.
- In `Streams`, a run that ends without its output having been read to its end: the monitor's branch
  for a missing worker (`manager.py:380-388`) and the sweep of `reconcile`. They are in `RunManager`.
- The host backend: planned above.
- Capabilities, quota, harness, releases, backups, command line, web console: sequential file or
  HTTP input and output or pure mappings, with no protocol whose orderings a model
  would explore.
- Wording, prompts, parsing of AGY output, cron arithmetic, text search and similarity,
  token counts, authentication, token handling.
