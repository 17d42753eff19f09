----------------------------- MODULE Scheduler -----------------------------
(***************************************************************************)
(* Scheduler over the store's schedules and trigger_occurrences: when an   *)
(* occurrence is created, decided, turned into a queued run and reported.  *)
(*                                                                         *)
(* Its actors are the tick loop and the run-now requests, coroutines of    *)
(* one asyncio loop.  The only await of theirs that suspends is            *)
(* manager.cancel of a run whose worker has to be stopped: `turn' names    *)
(* the actor in the middle of a stretch that nothing can interleave with.  *)
(* A step is one transaction, so a crash may fall between any two.         *)
(*                                                                         *)
(* Time is discrete.  Two occurrences of one generation due at the same    *)
(* microsecond (a manual one and a recurrence) are not considered, and     *)
(* claim_owner is left out: a claim is submitted in the stretch that made  *)
(* it, or by nobody.                                                       *)
(***************************************************************************)
EXTENDS Integers, Sequences, FiniteSets

CONSTANTS
    MaxSchedules,    \* bound: schedules are numbered 1 .. in order of creation
    Configs,         \* the configurations schedules are created or updated with
    Requests,        \* run-now requests, by request_id
    Interval,        \* expression of the recurring schedules
    Grace,           \* misfire_grace_seconds
    OccurrenceLimit, \* occurrences one tick may materialize (1000)
    NotifyLimit,     \* limit of list_triggers (1000)
    Endings,         \* the outcomes runs end with in this instance
    Faults,          \* what may go wrong: "dispatch", "stop"
    MaxTime,         \* bound: the clock
    MaxRuns,         \* bound: runs are numbered 1 .. MaxRuns as submitted
    MaxGenerations,  \* bound: updates of one schedule
    MaxCrashes       \* bound: crashes or shutdowns of the gateway

Schedules == 1 .. MaxSchedules
Generations == 1 .. MaxGenerations
Times == 1 .. MaxTime
Runs == 1 .. MaxRuns
Actors == {"loop"} \cup Requests
NoOne == "nobody"

ConfigType == [kind : {"one_shot", "interval", "heartbeat"},
               concurrency : {"SKIP", "QUEUE", "REPLACE"},
               misfire : {"SKIP", "RUN_ONCE", "CATCH_UP"},
               resume : BOOLEAN,    \* conversation_policy
               notify : BOOLEAN]    \* actionable, with a target configured

ASSUME ConfigsAssumption == Configs \subseteq ConfigType
ASSUME LimitsAssumption ==
    /\ Interval \in Nat \ {0} /\ Grace \in Nat
    /\ OccurrenceLimit \in Nat \ {0} /\ NotifyLimit \in Nat \ {0}
    /\ MaxSchedules \in Nat /\ MaxTime \in Nat \ {0} /\ MaxRuns \in Nat
    /\ MaxGenerations \in Nat \ {0} /\ MaxCrashes \in Nat
ASSUME RequestsAssumption ==
    /\ "loop" \notin Requests /\ NoOne \notin Requests
    /\ Requests \cap Times = {}

(* An occurrence's execution_key: schedule, generation, and the time of a  *)
(* recurrence or the request of a manual run.                              *)
Triggers == Schedules \X Generations \X (Times \cup Requests)
ActiveStates == {"CLAIMED", "DISPATCHED", "RUNNING"}
FinalStates == {"COMPLETED", "SKIPPED", "MISSED", "FAILED", "CANCELLED"}

VARIABLES
    now,
    sched,    \* the schedules table
    trig,     \* the trigger_occurrences table; state "none" without a row
    conv,     \* runs.conversation_id, for scheduled runs in order of creation
    status,   \* runs.status
    reply,    \* the completed run's response calls for a notification
    outbox,   \* the triggers with a message in the channel outbox
    gateway,  \* "down", "starting" or "serving"
    me,       \* the coroutine of each actor
    turn,     \* the actor that holds the asyncio loop
    crashes

store == <<sched, trig, conv, status, reply, outbox>>
vars == <<now, sched, trig, conv, status, reply, outbox, gateway, me, turn, crashes>>

RunQueue == INSTANCE RunLifecycle WITH
    Conversations <- {<<s>> : s \in Schedules} \cup Triggers

ASSUME EndingsAssumption == Endings \subseteq RunQueue!Outcomes

NoSchedule == [live |-> FALSE, gone |-> FALSE, gen |-> 0, cfg |-> <<>>,
               first |-> 0, next |-> 0]
NoTrigger == [state |-> "none", due |-> 0, lease |-> "none", run |-> 0, note |-> "PENDING"]
Idle == [pc |-> "idle", todo |-> {}, view |-> [s \in Schedules |-> NoSchedule],
         pending |-> {}, cancel |-> {}, claimed |-> {}]

Init ==
    /\ now = 1
    /\ sched = [s \in Schedules |-> NoSchedule]
    /\ trig = [t \in Triggers |-> NoTrigger]
    /\ conv = <<>>
    /\ status = [r \in Runs |-> "absent"]
    /\ reply = [r \in Runs |-> FALSE]
    /\ outbox = {}
    /\ gateway = "down"
    /\ me = [a \in Actors |-> Idle]
    /\ turn = NoOne
    /\ crashes = 0

Exists(s) == sched[s].gen > 0 /\ ~sched[s].gone
Enabled(s) == Exists(s) /\ sched[s].live
In(s, S) == {t \in Triggers : t[1] = s /\ trig[t].state \in S}

(* ORDER BY scheduled_for, id: the id is a hash, so ties fall either way.  *)
Earliest(S) == {t \in S : \A u \in S : trig[t].due <= trig[u].due}

-----------------------------------------------------------------------------
(* The schedules, as the API changes them: each handler is one transaction *)
(* and runs while no actor holds the loop.                                 *)

LoopIsFree == turn = NoOne /\ gateway # "down"
Serving == turn = NoOne /\ gateway = "serving"

(* first_run_at: a one-shot's own time, an interval from now unless        *)
(* start_at says otherwise; both may lie in the past.                      *)
FirstRun(cfg) == IF cfg.kind = "one_shot" THEN Times ELSE 1 .. now + Interval

Publish(s, cfg, enabled) ==
    \E at \in FirstRun(cfg) :
       sched' = [sched EXCEPT ![s] =
          [live |-> enabled, gone |-> FALSE, gen |-> @.gen + 1, cfg |-> cfg,
           first |-> at, next |-> at]]

Create(s, cfg) ==
    /\ Serving
    /\ sched[s].gen = 0
    /\ s > 1 => sched[s - 1].gen > 0
    /\ Publish(s, cfg, TRUE)
    /\ UNCHANGED <<now, trig, conv, status, reply, outbox, gateway, me, turn, crashes>>

(* Slip: only claimed occurrences are superseded. *)
SupersededClaims(s) ==
    [t \in Triggers |-> IF t \in In(s, {"CLAIMED"})
                        THEN [trig[t] EXCEPT !.state = "SKIPPED"] ELSE trig[t]]

(* An edit or a deletion decides what was not dispatched yet. *)
Superseded(s) ==
    [t \in Triggers |-> IF t \in In(s, {"PENDING", "CLAIMED"})
                        THEN [trig[t] EXCEPT !.state = "SKIPPED"] ELSE trig[t]]

(* update_schedule; with a stale expected_version it changes nothing.      *)
(* Scheduler.update_schedule forces SKIP and MISFIRE_SKIP on a heartbeat.  *)
Update(s, cfg) ==
    /\ Serving
    /\ Exists(s)
    /\ sched[s].gen < MaxGenerations
    /\ LET forced == IF cfg.kind # "heartbeat" THEN cfg
                     ELSE [cfg EXCEPT !.misfire = "SKIP", !.concurrency = "SKIP"]
       IN  Publish(s, forced, sched[s].live)
    /\ trig' = Superseded(s)
    /\ UNCHANGED <<now, conv, status, reply, outbox, gateway, me, turn, crashes>>

(* set_schedule_enabled: next_run_at stays, so a pause leaves a backlog. *)
SetEnabled(s, on) ==
    /\ Serving
    /\ Exists(s)
    /\ sched[s].live # on
    /\ sched' = [sched EXCEPT ![s].live = on]
    /\ UNCHANGED <<now, trig, conv, status, reply, outbox, gateway, me, turn, crashes>>

Delete(s) ==
    /\ Serving
    /\ Exists(s)
    /\ sched' = [sched EXCEPT ![s].live = FALSE, ![s].gone = TRUE]
    /\ trig' = Superseded(s)
    /\ UNCHANGED <<now, conv, status, reply, outbox, gateway, me, turn, crashes>>

-----------------------------------------------------------------------------
(* The tick: recover, synchronize and materialize.                         *)

(* Slip: claims are never given back. *)
KeepsClaims(T) ==
    [t \in Triggers |->
       IF T[t].note = "PROCESSING" THEN [T[t] EXCEPT !.note = "PENDING"] ELSE T[t]]

(* Slip: notifications in progress are never taken up again. *)
KeepsNotes(T) ==
    [t \in Triggers |->
       IF T[t].state = "CLAIMED" /\ T[t].lease = "expired"
       THEN [T[t] EXCEPT !.state = "PENDING", !.lease = "none"] ELSE T[t]]

(* recover_trigger_leases: claims whose lease is over return to PENDING,   *)
(* and so do notifications a crash left in progress.                       *)
Recovered(T) ==
    [t \in Triggers |->
       LET given == T[t].state = "CLAIMED" /\ T[t].lease = "expired"
       IN  [T[t] EXCEPT !.state = IF given THEN "PENDING" ELSE @,
                        !.lease = IF given THEN "none" ELSE @,
                        !.note = IF @ = "PROCESSING" THEN "PENDING" ELSE @]]

(* Slip: a run that is over counts as completed. *)
SyncedByEnd(T, st) ==
    [t \in Triggers |->
       IF T[t].state \in {"DISPATCHED", "RUNNING"} /\ st[T[t].run] \notin {"queued", "running"}
       THEN [T[t] EXCEPT !.state = "COMPLETED"] ELSE T[t]]

(* sync_trigger_states: a dispatched occurrence follows its run. *)
Synced(T, st) ==
    LET Follow(old, run) ==
          CASE run = "queued" -> old
            [] run = "running" -> "RUNNING"
            [] run = "completed" -> "COMPLETED"
            [] run = "cancelled" -> "CANCELLED"
            [] OTHER -> "FAILED"
    IN  [t \in Triggers |-> IF T[t].state \in {"DISPATCHED", "RUNNING"}
                            THEN [T[t] EXCEPT !.state = Follow(@, st[T[t].run])]
                            ELSE T[t]]

(* What ends an actor's stretch, well or with an exception.  The tick that *)
(* start() runs decides whether the gateway comes up.                      *)
Return(a) ==
    /\ me' = [me EXCEPT ![a] = Idle]
    /\ turn' = NoOne
    /\ gateway' = IF a = "loop" THEN "serving" ELSE gateway

Raise(a) ==
    /\ me' = [me EXCEPT ![a] = Idle]
    /\ turn' = NoOne
    /\ gateway' = IF a = "loop" /\ gateway = "starting" THEN "down" ELSE gateway

Tick ==
    /\ LoopIsFree
    /\ me["loop"].pc = "idle"
    /\ turn' = "loop"
    /\ trig' = Synced(Recovered(trig), status)
    /\ LET due == {s \in Schedules : Enabled(s) /\ sched[s].next \in Times /\ sched[s].next <= now}
       IN  me' = [me EXCEPT !["loop"].pc = "materialize", !["loop"].todo = due]
    /\ UNCHANGED <<now, sched, conv, status, reply, outbox, gateway, crashes>>

Due(s) ==
    IF sched[s].cfg.kind = "one_shot" THEN {sched[s].next}
    ELSE {at \in Times : at \in sched[s].next .. now /\ (at - sched[s].next) % Interval = 0}

(* next_run_at once every due occurrence is materialized; 0 for none. *)
Following(s) ==
    IF sched[s].cfg.kind = "one_shot" THEN 0
    ELSE sched[s].next + Interval * Cardinality(Due(s))

(* Slip: what the run-once policy coalesces gets no row. *)
DecisionWithoutRow(s, at) ==
    LET newest == \A other \in Due(s) : other <= at IN
    IF sched[s].cfg.misfire = "RUN_ONCE" /\ ~newest THEN "none"
    ELSE IF now - at > Grace THEN "MISSED" ELSE "PENDING"

(* The misfire policies. *)
Decision(s, at) ==
    LET newest == \A other \in Due(s) : other <= at
        cfg == sched[s].cfg
    IN  IF cfg.misfire = "SKIP" /\ cfg.kind = "heartbeat" /\ ~newest THEN "SKIPPED"
        ELSE IF (cfg.misfire = "RUN_ONCE" /\ ~newest) \/ now - at > Grace THEN "MISSED"
        ELSE "PENDING"

Current(a) == CHOOSE s \in me[a].todo : \A u \in me[a].todo : s <= u
Rest(a) == me[a].todo \ {Current(a)}

(* _materialize and materialize_triggers; nothing has suspended since the  *)
(* schedule was read, so its generation cannot have changed.               *)
Materialize ==
    /\ turn = "loop" /\ me["loop"].pc = "materialize" /\ me["loop"].todo # {}
    /\ LET s == Current("loop") IN
       /\ Cardinality(Due(s)) <= OccurrenceLimit
       /\ trig' = [t \in Triggers |->
             IF t[1] = s /\ t[2] = sched[s].gen /\ t[3] \in Due(s) /\ trig[t].state = "none"
             THEN [NoTrigger EXCEPT !.state = Decision(s, t[3]), !.due = t[3]]
             ELSE trig[t]]
       /\ sched' = [sched EXCEPT ![s].next = Following(s)]
    /\ me' = [me EXCEPT !["loop"].todo = Rest("loop")]
    /\ UNCHANGED <<now, conv, status, reply, outbox, gateway, turn, crashes>>

(* RuntimeError: the occurrence safety limit. *)
MaterializeRaises ==
    /\ turn = "loop" /\ me["loop"].pc = "materialize" /\ me["loop"].todo # {}
    /\ Cardinality(Due(Current("loop"))) > OccurrenceLimit
    /\ Raise("loop")
    /\ UNCHANGED <<now, sched, trig, conv, status, reply, outbox, crashes>>

(* run_now: recover, synchronize, insert the manual occurrence unless the  *)
(* request already has one, and dispatch what is due.                      *)
RunNow(q, s) ==
    /\ Serving
    /\ me[q].pc = "idle"
    /\ Exists(s)
    /\ LET T == Synced(Recovered(trig), status)
           t == <<s, sched[s].gen, q>>
       IN  trig' = IF T[t].state # "none" THEN T
                   ELSE [T EXCEPT ![t] = [NoTrigger EXCEPT !.state = "PENDING", !.due = now]]
    /\ turn' = q
    /\ me' = [me EXCEPT ![q].pc = "list"]
    /\ UNCHANGED <<now, sched, conv, status, reply, outbox, gateway, crashes>>

-----------------------------------------------------------------------------
(* _dispatch_due, on a list of schedules read once: after an await the     *)
(* rows it holds, and the pending occurrences it holds, may be stale.      *)

ListSchedules(a) ==
    /\ turn = a
    /\ me[a].pc = "list" \/ (me[a].pc = "materialize" /\ me[a].todo = {})
    /\ me' = [me EXCEPT ![a].pc = "dispatch",
                        ![a].todo = {s \in Schedules : Enabled(s)}, ![a].view = sched]
    /\ UNCHANGED <<now, store, gateway, turn, crashes>>

Dispatching(a, pc) == turn = a /\ me[a].pc = pc /\ me[a].todo # {}

(* On to the next schedule of the list. *)
Leave(a) ==
    me' = [me EXCEPT ![a] = [Idle EXCEPT !.pc = "dispatch", !.todo = Rest(a), !.view = me[a].view]]

(* What the concurrency policy makes of the schedule's pending occurrences *)
(* when others are active.                                                 *)
Consider(a) ==
    /\ Dispatching(a, "dispatch")
    /\ LET s == Current(a)
           pending == In(s, {"PENDING"})
           active == In(s, ActiveStates)
           policy == me[a].view[s].cfg.concurrency
           Start(pc, cancel) ==
              me' = [me EXCEPT ![a].pc = pc, ![a].pending = pending, ![a].cancel = cancel]
       IN  \/ /\ pending = {} \/ (active # {} /\ policy = "QUEUE")
              /\ Leave(a)
           \/ /\ pending # {} /\ active = {}
              /\ Start("claim", {})
           \/ /\ pending # {} /\ active # {} /\ policy = "SKIP"
              /\ Start("skip", {})
           \/ /\ pending # {} /\ active # {} /\ policy = "REPLACE"
              /\ Start("replace", {trig[t].run : t \in active} \ {0})
    /\ UNCHANGED <<now, store, gateway, turn, crashes>>

(* decide_trigger: each overlap that is skipped is a transaction. *)
SkipOverlap(a) ==
    /\ Dispatching(a, "skip")
    /\ \E t \in Earliest(me[a].pending) :
          /\ trig' = [trig EXCEPT ![t].state = IF @ = "PENDING" THEN "SKIPPED" ELSE @]
          /\ IF me[a].pending = {t} THEN Leave(a)
             ELSE me' = [me EXCEPT ![a].pending = @ \ {t}]
    /\ UNCHANGED <<now, sched, conv, status, reply, outbox, gateway, turn, crashes>>

(* manager.cancel of an active run: a queued one, or a running one without *)
(* a worker yet, is cancelled at once; a worker has to be stopped, and the *)
(* loop is given up for that.                                              *)
NextToCancel(a) == CHOOSE r \in me[a].cancel : \A q \in me[a].cancel : r <= q

CancelAtOnce(a) ==
    /\ Dispatching(a, "replace")
    /\ me[a].cancel # {}
    /\ LET r == NextToCancel(a) IN
          /\ status' = [status EXCEPT ![r] = IF @ \in {"queued", "running"} THEN "cancelled" ELSE @]
          /\ me' = [me EXCEPT ![a].cancel = @ \ {r}]
    /\ UNCHANGED <<now, sched, trig, conv, reply, outbox, gateway, turn, crashes>>

CancelStops(a) ==
    /\ Dispatching(a, "replace")
    /\ me[a].cancel # {}
    /\ status[NextToCancel(a)] = "running"
    /\ me' = [me EXCEPT ![a].pc = "stopping"]
    /\ turn' = NoOne
    /\ UNCHANGED <<now, store, gateway, crashes>>

(* The worker has stopped; the run may have settled by itself meanwhile.   *)
StopAnswered(a) ==
    /\ LoopIsFree /\ me[a].pc = "stopping"
    /\ LET r == NextToCancel(a) IN
          /\ status' = [status EXCEPT ![r] = IF @ = "running" THEN "cancelled" ELSE @]
          /\ me' = [me EXCEPT ![a].pc = "replace", ![a].cancel = @ \ {r}]
    /\ turn' = a
    /\ UNCHANGED <<now, sched, trig, conv, reply, outbox, gateway, crashes>>

(* The backend's stop raises through cancel, and so does the whole tick.   *)
StopRaises(a) ==
    /\ "stop" \in Faults
    /\ LoopIsFree /\ me[a].pc = "stopping"
    /\ Raise(a)
    /\ UNCHANGED <<now, store, crashes>>

(* Everything active was cancelled: what is active now decides. *)
Replaced(a) ==
    /\ Dispatching(a, "replace") /\ me[a].cancel = {}
    /\ LET T == Synced(trig, status)
           s == Current(a)
       IN  /\ trig' = T
           /\ IF \E t \in Triggers : t[1] = s /\ T[t].state \in ActiveStates
              THEN Leave(a)
              ELSE me' = [me EXCEPT ![a].pc = "claim"]
    /\ UNCHANGED <<now, sched, conv, status, reply, outbox, gateway, turn, crashes>>

(* Slip: no second look at what is active before a claim. *)
ClaimRegardless(a) ==
    /\ Dispatching(a, "claim")
    /\ \E t \in Earliest(me[a].pending) :
          IF trig[t].state = "PENDING"
          THEN /\ trig' = [trig EXCEPT ![t].state = "CLAIMED", ![t].lease = "held"]
               /\ me' = [me EXCEPT ![a].pc = "submit", ![a].claimed = {t}]
          ELSE /\ IF me[a].pending = {t} THEN Leave(a)
                  ELSE me' = [me EXCEPT ![a].pending = @ \ {t}]
               /\ UNCHANGED trig
    /\ UNCHANGED <<now, sched, conv, status, reply, outbox, gateway, turn, crashes>>

(* claim_trigger, unless an occurrence of the schedule is already active.  *)
(* One that is not PENDING any more is passed over.                       *)
Claim(a) ==
    /\ Dispatching(a, "claim")
    /\ LET s == Current(a) IN
       IF In(s, ActiveStates) # {} /\ me[a].view[s].cfg.concurrency # "QUEUE"
       THEN Leave(a) /\ UNCHANGED trig
       ELSE \E t \in Earliest(me[a].pending) :
              IF trig[t].state = "PENDING"
              THEN /\ trig' = [trig EXCEPT ![t].state = "CLAIMED", ![t].lease = "held"]
                   /\ me' = [me EXCEPT ![a].pc = "submit", ![a].claimed = {t}]
              ELSE /\ IF me[a].pending = {t} THEN Leave(a)
                      ELSE me' = [me EXCEPT ![a].pending = @ \ {t}]
                   /\ UNCHANGED trig
    /\ UNCHANGED <<now, sched, conv, status, reply, outbox, gateway, turn, crashes>>

(* submit_scheduled_run and activate: the queued run and its link to the   *)
(* occurrence are one transaction.  A QUEUE schedule stops here.           *)
Submit(a) ==
    /\ Dispatching(a, "submit")
    /\ Len(conv) < MaxRuns
    /\ \E t \in me[a].claimed :
          LET s == Current(a)
              r == Len(conv) + 1
              left == me[a].pending \ {t}
          IN  /\ conv' = Append(conv, IF me[a].view[s].cfg.resume THEN <<s>> ELSE t)
              /\ status' = [status EXCEPT ![r] = "queued"]
              /\ trig' = [trig EXCEPT ![t].state = "DISPATCHED", ![t].lease = "none", ![t].run = r]
              /\ IF left = {} \/ me[a].view[s].cfg.concurrency = "QUEUE" THEN Leave(a)
                 ELSE me' = [me EXCEPT ![a].pc = "claim", ![a].pending = left, ![a].claimed = {}]
    /\ UNCHANGED <<now, sched, reply, outbox, gateway, turn, crashes>>

(* The dispatch raises.  decide_trigger refuses the state FAILED, so the   *)
(* handler raises too: the occurrence stays claimed, the tick is over.     *)
SubmitRaises(a) ==
    /\ "dispatch" \in Faults
    /\ Dispatching(a, "submit")
    /\ Raise(a)
    /\ UNCHANGED <<now, store, crashes>>

(* run_now synchronizes once more and answers. *)
RunNowReturns(q) ==
    /\ q \in Requests
    /\ turn = q /\ me[q].pc = "dispatch" /\ me[q].todo = {}
    /\ trig' = Synced(trig, status)
    /\ Return(q)
    /\ UNCHANGED <<now, sched, conv, status, reply, outbox, crashes>>

-----------------------------------------------------------------------------
(* _process_notifications: the first NotifyLimit completed occurrences, in *)
(* order of scheduled_for and whether or not they were reported before.    *)

ListCompleted ==
    /\ turn = "loop" /\ me["loop"].pc = "dispatch" /\ me["loop"].todo = {}
    /\ LET completed == {t \in Triggers : trig[t].state = "COMPLETED"}
       IN  \E listed \in SUBSET completed :
              /\ \/ listed = completed
                 \/ Cardinality(listed) = NotifyLimit
              /\ Cardinality(listed) <= NotifyLimit
              /\ \A t \in listed, u \in completed \ listed : trig[t].due <= trig[u].due
              /\ me' = [me EXCEPT !["loop"].pc = "notify", !["loop"].pending = listed]
    /\ UNCHANGED <<now, store, gateway, turn, crashes>>

(* Slip: the notification is finished by its claim. *)
NotifyFinishFirst ==
    /\ turn = "loop" /\ me["loop"].pc = "notify"
    /\ \E t \in Earliest(me["loop"].pending) :
          IF trig[t].note = "PENDING"
          THEN /\ trig' = [trig EXCEPT ![t].note = "DONE"]
               /\ me' = [me EXCEPT !["loop"].pc = "enqueue", !["loop"].claimed = {t}]
          ELSE /\ me' = [me EXCEPT !["loop"].pending = @ \ {t}]
               /\ UNCHANGED trig
    /\ UNCHANGED <<now, sched, conv, status, reply, outbox, gateway, turn, crashes>>

(* claim_trigger_notification *)
NotifyClaim ==
    /\ turn = "loop" /\ me["loop"].pc = "notify"
    /\ \E t \in Earliest(me["loop"].pending) :
          IF trig[t].note = "PENDING"
          THEN /\ trig' = [trig EXCEPT ![t].note = "PROCESSING"]
               /\ me' = [me EXCEPT !["loop"].pc = "enqueue", !["loop"].claimed = {t}]
          ELSE /\ me' = [me EXCEPT !["loop"].pending = @ \ {t}]
               /\ UNCHANGED trig
    /\ UNCHANGED <<now, sched, conv, status, reply, outbox, gateway, turn, crashes>>

(* enqueue_scheduled_notification, for an actionable reply: the logical    *)
(* key is the occurrence's, so a second insert changes nothing.            *)
NotifyEnqueue ==
    /\ turn = "loop" /\ me["loop"].pc = "enqueue"
    /\ \E t \in me["loop"].claimed :
          outbox' = IF sched[t[1]].cfg.notify /\ reply[trig[t].run]
                    THEN outbox \cup {t} ELSE outbox
    /\ me' = [me EXCEPT !["loop"].pc = "finish"]
    /\ UNCHANGED <<now, sched, trig, conv, status, reply, gateway, turn, crashes>>

NotifyFinish ==
    /\ turn = "loop" /\ me["loop"].pc = "finish"
    /\ \E t \in me["loop"].claimed :
          /\ trig' = [trig EXCEPT ![t].note = "DONE"]
          /\ me' = [me EXCEPT !["loop"].pc = "notify", !["loop"].claimed = {},
                              !["loop"].pending = @ \ {t}]
    /\ UNCHANGED <<now, sched, conv, status, reply, outbox, gateway, turn, crashes>>

TickReturns ==
    /\ turn = "loop" /\ me["loop"].pc = "notify" /\ me["loop"].pending = {}
    /\ Return("loop")
    /\ UNCHANGED <<now, store, crashes>>

-----------------------------------------------------------------------------
(* The runs, by their own lifecycle, the clock and the process.            *)

RunStarts(r) ==
    /\ LoopIsFree
    /\ RunQueue!Start(r)
    /\ UNCHANGED <<now, sched, trig, reply, outbox, gateway, me, turn, crashes>>

RunEnds(r) ==
    /\ LoopIsFree
    /\ status[r] = "running"
    /\ \E outcome \in Endings, actionable \in BOOLEAN :
          /\ actionable => outcome = "completed"
          /\ status' = [status EXCEPT ![r] = outcome]
          /\ reply' = [reply EXCEPT ![r] = actionable]
    /\ UNCHANGED <<now, sched, trig, conv, outbox, gateway, me, turn, crashes>>

TimePasses ==
    /\ turn = NoOne
    /\ now < MaxTime
    /\ now' = now + 1
    /\ UNCHANGED <<store, gateway, me, turn, crashes>>

(* lease_seconds go by. *)
LeaseExpires(t) ==
    /\ turn = NoOne
    /\ trig[t].state = "CLAIMED" /\ trig[t].lease = "held"
    /\ trig' = [trig EXCEPT ![t].lease = "expired"]
    /\ UNCHANGED <<now, sched, conv, status, reply, outbox, gateway, me, turn, crashes>>

(* A crash, or close(): the coroutines are gone, the store stays. *)
Crash ==
    /\ gateway # "down"
    /\ crashes < MaxCrashes
    /\ crashes' = crashes + 1
    /\ gateway' = "down"
    /\ me' = [a \in Actors |-> Idle]
    /\ turn' = NoOne
    /\ UNCHANGED <<now, store>>

(* The service manager starts the process again. *)
Boot ==
    /\ gateway = "down"
    /\ gateway' = "starting"
    /\ UNCHANGED <<now, store, me, turn, crashes>>

LoopStep == Tick \/ Materialize \/ MaterializeRaises \/ ListCompleted \/
            NotifyClaim \/ NotifyEnqueue \/ NotifyFinish \/ TickReturns

Step(a) == ListSchedules(a) \/ Consider(a) \/ SkipOverlap(a) \/ CancelAtOnce(a) \/
           CancelStops(a) \/ StopAnswered(a) \/ StopRaises(a) \/ Replaced(a) \/
           Claim(a) \/ Submit(a) \/ SubmitRaises(a) \/ RunNowReturns(a)

Next ==
    \/ \E s \in Schedules :
          \/ \E cfg \in Configs : Create(s, cfg) \/ Update(s, cfg)
          \/ \E on \in BOOLEAN : SetEnabled(s, on)
          \/ Delete(s)
          \/ \E q \in Requests : RunNow(q, s)
    \/ LoopStep
    \/ \E a \in Actors : Step(a)
    \/ \E r \in Runs : RunStarts(r) \/ RunEnds(r)
    \/ \E t \in Triggers : LeaseExpires(t)
    \/ TimePasses \/ Crash \/ Boot

Spec == Init /\ [][Next]_vars

(* The loop ticks, coroutines run on, leases end, the service manager      *)
(* restarts the gateway, and runs start and end as RunManager_live shows.  *)
(* Strong fairness where a step waits for the loop: asyncio serves ready   *)
(* coroutines in order, so none is passed over each time it is free.       *)
Fairness ==
    /\ SF_vars(LoopStep) /\ WF_vars(Boot)
    /\ \A a \in Actors : SF_vars(Step(a))
    /\ \A t \in Triggers : SF_vars(LeaseExpires(t))
    /\ \A r \in Runs : SF_vars(RunStarts(r)) /\ SF_vars(RunEnds(r))

LiveSpec == Spec /\ Fairness

-----------------------------------------------------------------------------
(* Properties.                                                             *)

ScheduleRows == {NoSchedule} \cup
    [live : BOOLEAN, gone : BOOLEAN, gen : Generations, cfg : ConfigType,
     first : Nat, next : Nat]

Coroutines ==
    [pc : {"idle", "materialize", "list", "dispatch", "skip", "replace", "stopping",
           "claim", "submit", "notify", "enqueue", "finish"},
     todo : SUBSET Schedules, view : [Schedules -> ScheduleRows],
     pending : SUBSET Triggers, cancel : SUBSET Runs, claimed : SUBSET Triggers]

TriggerRows ==
    [state : {"none", "PENDING"} \cup ActiveStates \cup FinalStates, due : Times \cup {0},
     lease : {"none", "held", "expired"}, run : Runs \cup {0},
     note : {"PENDING", "PROCESSING", "DONE"}]

(* The tables and coroutines hold what their schema and code allow. *)
TypeOK ==
    /\ now \in Times
    /\ sched \in [Schedules -> ScheduleRows]
    /\ trig \in [Triggers -> TriggerRows]
    /\ conv \in Seq({<<s>> : s \in Schedules} \cup Triggers)
    /\ Len(conv) <= MaxRuns
    /\ status \in [Runs -> {"absent", "queued", "running"} \cup RunQueue!Outcomes]
    /\ reply \in [Runs -> BOOLEAN]
    /\ outbox \subseteq Triggers
    /\ gateway \in {"down", "starting", "serving"}
    /\ me \in [Actors -> Coroutines]
    /\ turn \in Actors \cup {NoOne}
    /\ crashes \in 0 .. MaxCrashes

(* A schedule never has two live runs, whatever its concurrency policy,    *)
(* the tick and run-now requests racing across a REPLACE, edits that       *)
(* change the policy, crashes and leases that run out: _dispatch_due.      *)
NoOverlap ==
    \A t, u \in Triggers :
       (/\ t[1] = u[1] /\ trig[t].run # 0 /\ trig[u].run # 0
        /\ {status[trig[t].run], status[trig[u].run]} \subseteq {"queued", "running"}) => t = u

(* docs/milestone-6.md: a crash cannot create a run without a trigger link *)
(* or a trigger without a run link.  Every scheduled run is the run of one *)
(* occurrence, and a state that tells an outcome tells that of its run.    *)
DecisionMatchesRun ==
    /\ \A r \in DOMAIN conv : \E t \in Triggers :
          /\ trig[t].run = r
          /\ \A u \in Triggers \ {t} : trig[u].run # r
    /\ \A t \in Triggers :
          LET x == trig[t]
              kept == {"DISPATCHED", "RUNNING", "COMPLETED", "FAILED", "CANCELLED"}
          IN  /\ x.run # 0 <=> x.state \in kept
              /\ x.state = "COMPLETED" => status[x.run] = "completed"
              /\ x.state = "CANCELLED" => status[x.run] = "cancelled"
              /\ x.state = "FAILED" => status[x.run] \in {"failed", "interrupted", "orphaned"}

(* materialize_triggers decides an occurrence and moves next_run_at in one *)
(* transaction: whatever crashes, backlogs and pauses came between, every  *)
(* time the current generation was due before next_run_at has a row.       *)
NoOccurrenceLost ==
    \A s \in Schedules : Exists(s) =>
       IF sched[s].cfg.kind = "one_shot"
       THEN sched[s].next = 0 => trig[<<s, sched[s].gen, sched[s].first>>].state # "none"
       ELSE \A at \in sched[s].first .. sched[s].next - 1 :
              (at - sched[s].first) % Interval = 0 =>
                 trig[<<s, sched[s].gen, at>>].state # "none"

(* What can still be dispatched belongs to the schedule's current          *)
(* generation, also for an actor that listed it before an edit or a        *)
(* deletion and resumes with a stale list: update_schedule, delete_schedule. *)
OpenIsCurrent ==
    \A t \in Triggers : trig[t].state \in {"PENDING", "CLAIMED"} =>
       Exists(t[1]) /\ t[2] = sched[t[1]].gen

(* docs/milestone-6.md: exactly one durable decision.  A decision stands,  *)
(* whatever recovery, a repeated request or a stale list does next.        *)
DecisionIsFinal ==
    [][\A t \in Triggers :
         /\ trig[t].state \in FinalStates => trig'[t].state = trig[t].state
         /\ trig[t].run # 0 => trig'[t].run = trig[t].run]_vars

(* The scheduler's own writes keep what the run queue promises: it submits *)
(* behind what is queued, and a cancellation never rewrites an outcome.    *)
RunsKeepTheirLifecycle == RunQueue!Spec

(* A notification is done only when the actionable reply is in the outbox, *)
(* wherever a crash falls: claim, enqueue and finish of                    *)
(* _process_notifications are three transactions.                          *)
NotificationKept ==
    [][\A t \in Triggers :
         (trig[t].note # "DONE" /\ trig'[t].note = "DONE" /\ sched[t[1]].cfg.notify
            /\ reply[trig[t].run]) => t \in outbox']_vars

(* Every occurrence of an enabled schedule is eventually dispatched or     *)
(* decided, also one that was claimed when the gateway died.               *)
EveryOccurrenceDecided ==
    \A t \in Triggers : trig[t].state \in {"PENDING", "CLAIMED"} ~>
       trig[t].state \notin {"PENDING", "CLAIMED"} \/ ~Enabled(t[1])

(* docs/milestone-6.md:31: actionable results use the outbox.  The result  *)
(* of every completed occurrence is eventually looked at.                  *)
EveryResultNotified ==
    \A t \in Triggers : trig[t].state = "COMPLETED" ~> trig[t].note = "DONE"

(* README.md:76: durable scheduling survives reboots: a gateway that went  *)
(* down serves again.                                                      *)
GatewayReturns == gateway = "down" ~> gateway = "serving"

(* tests/test_scheduler.py:162: a disabled schedule does not run. *)
DisabledDoesNotRun ==
    [][\A t \in Triggers : trig[t].run = 0 /\ trig'[t].run # 0 => Enabled(t[1])]_vars

(* scheduler.py:239: a heartbeat backlog never accumulates. *)
HeartbeatNeverAccumulates ==
    \A s \in Schedules : Exists(s) /\ sched[s].cfg.kind = "heartbeat" =>
       Cardinality({t \in In(s, {"PENDING"}) : t[3] \in Times}) <= 1

(* docs/milestone-6.md:35: a failed dispatch is a durable decision. *)
FailedDispatchIsDecided ==
    [][\A a \in Actors : \A t \in me[a].claimed :
         (me[a].pc = "submit" /\ me'[a].pc = "idle" /\ gateway' = gateway)
            => trig'[t].state \in FinalStates]_vars
=============================================================================
