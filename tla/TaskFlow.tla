------------------------------ MODULE TaskFlow ------------------------------
(***************************************************************************)
(* Task flows: a graph of durable tasks that a dispatcher promotes, claims *)
(* and turns into runs, one conversation per task, and whose results it    *)
(* reconciles from the runs' outcomes.                                     *)
(*                                                                         *)
(* Neither a tick of the dispatcher nor a request of the API suspends, so  *)
(* nothing interleaves with a tick (`pc') but the death of the gateway,    *)
(* which may fall between any two transactions of it.  Comments, titles,   *)
(* acceptance criteria and idempotency keys are left out, and versions: a  *)
(* refused update changes nothing.                                         *)
(***************************************************************************)
EXTENDS Integers, Sequences, FiniteSets

CONSTANTS
    MaxTasks,     \* bound: tasks are numbered 1 .. MaxTasks as created
    MaxFlows,     \* bound: flows, all created at the start
    MaxRuns,      \* bound: runs are numbered as submitted
    MaxAttempts,  \* max_attempts of every task
    Workers,      \* max_concurrent_workers (4)
    Endings,      \* bound: how runs may end
    Edits,        \* the requests of the API the user makes
    MaxTrouble    \* bound: requests besides the creation of tasks, errors of
                  \* submitting a run and deaths of the gateway, together

Tasks == 1 .. MaxTasks
Flows == 1 .. MaxFlows
Runs == 1 .. MaxRuns
Reasons == {"dependency", "needs_user_input"}   \* of BLOCK_REASONS
Contracts == {"none", "completed", "blocked", "failed"}
EditKinds == {"depend", "release", "block", "unblock", "retry", "set task", "set flow",
              "delete task", "delete flow", "cancel run"}
TaskStates == {"TRIAGE", "TODO", "READY", "RUNNING", "BLOCKED", "DONE", "FAILED",
               "CANCELLED", "ARCHIVED"}
FlowStates == {"QUEUED", "RUNNING", "WAITING", "BLOCKED", "SUCCEEDED", "FAILED", "CANCELLED"}
TerminalFlows == {"SUCCEEDED", "FAILED", "CANCELLED"}

ASSUME TaskFlowBounds ==
    /\ MaxTasks \in Nat /\ MaxFlows \in Nat /\ MaxRuns \in Nat
    /\ MaxAttempts \in Nat \ {0} /\ Workers \in Nat \ {0}
    /\ MaxTrouble \in Nat
ASSUME TaskFlowEdits ==
    /\ Edits \subseteq EditKinds
    /\ Endings \subseteq {"completed", "failed", "cancelled", "interrupted"}

VARIABLES
    flow,      \* task_flows.status, "absent" once deleted
    task,      \* the flow_tasks table
    needs,     \* task_dependencies: <<parent, child>>
    attempts,  \* task_attempts: the runs recorded for each task, in order
    outcome,   \* the outcome written to the attempt of each run
    claim,     \* task_claims
    conv, status,   \* the runs, as in RunLifecycle; a task is its conversation
    contract,  \* what each completed run reports of its task
    pc,        \* where the dispatcher is in its tick
    todo,      \* the tasks this part of the tick has still to handle
    gateway,
    pushed,    \* history: how often the user moved each task
    lost,      \* history: errors and deaths
    trouble    \* counts up to MaxTrouble

tables == <<flow, task, needs, attempts, outcome, claim>>
runs == <<conv, status, contract>>
bounds == <<pushed, lost, trouble>>
vars == <<tables, runs, pc, todo, gateway, bounds>>

RunQueue == INSTANCE RunLifecycle WITH Conversations <- Tasks

NoTask == [state |-> "absent", flow |-> 0, reason |-> "none", blocks |-> 0]
NoClaim == [owner |-> "nobody", live |-> FALSE]

Init ==
    /\ flow = [f \in Flows |-> "QUEUED"]
    /\ task = [t \in Tasks |-> NoTask]
    /\ needs = {}
    /\ attempts = [t \in Tasks |-> <<>>]
    /\ outcome = [r \in Runs |-> "none"]
    /\ claim = [t \in Tasks |-> NoClaim]
    /\ RunQueue!Init
    /\ contract = [r \in Runs |-> "none"]
    /\ pc = "idle" /\ todo = {}
    /\ gateway = "up"
    /\ pushed = [t \in Tasks |-> 0] /\ lost = 0 /\ trouble = 0

In(S) == {t \in Tasks : task[t].state \in S}
Of(f) == {t \in Tasks : task[t].state # "absent" /\ task[t].flow = f}
Parents(c) == {p \in Tasks : <<p, c>> \in needs}
Children(p) == {c \in Tasks : <<p, c>> \in needs}

(* What can be reached from a along E: it lies in every set that contains  *)
(* a and is closed under E.                                                *)
Reachable(E, a) ==
    {b \in Tasks : \A S \in SUBSET Tasks :
        (a \in S /\ \A e \in E : e[1] \in S => e[2] \in S) => b \in S}

-----------------------------------------------------------------------------
(* Rows of flow_tasks.                                                     *)

(* update_flow_task_status as most callers use it. *)
Moved(x, s) == [x EXCEPT !.state = s, !.reason = "none", !.blocks = IF s = "DONE" THEN 0 ELSE @]

(* block_task: a third block for the reason it had is left to a human. *)
Blocked(x, reason) ==
    [x EXCEPT !.state = IF x.reason = reason /\ x.blocks + 1 >= 3 THEN "TRIAGE" ELSE "BLOCKED",
              !.reason = reason, !.blocks = @ + 1]

(* Slip: one finished parent is enough. *)
SomeParentDone(T, t) == \E p \in Parents(t) : T[p].state = "DONE"

ParentsDone(T, t) == \A p \in Parents(t) : T[p].state = "DONE"

(* auto_promote_flow, for the flows F. *)
Promoted(T, F) ==
    [t \in Tasks |->
        IF T[t].state = "TODO" /\ T[t].flow \in F /\ (Parents(t) = {} \/ ParentsDone(T, t))
        THEN Moved(T[t], "READY") ELSE T[t]]

(* evaluate_task_promotion with the dependencies E, after they changed. *)
Evaluated(E, c) ==
    LET parents == {p \in Tasks : <<p, c>> \in E}
        done == \A p \in parents : task[p].state = "DONE"
    IN  IF done /\ (task[c].state = "TODO" \/ (task[c].state = "TRIAGE" /\ parents # {}))
        THEN [task EXCEPT ![c] = Moved(@, "READY")] ELSE task

-----------------------------------------------------------------------------
(* The API.  A request is handled between two ticks.                       *)

Troubled == trouble < MaxTrouble /\ trouble' = trouble + 1
Lost == Troubled /\ lost' = lost + 1

Idle == gateway = "up" /\ pc = "idle"

NewTask(f, s) == [NoTask EXCEPT !.state = s, !.flow = f]

(* Parents may be any tasks there are: nobody asks for their flow. *)
CreateTask(t, f, P) ==
    /\ Idle
    /\ flow[f] # "absent"
    /\ task[t] = NoTask /\ \A u \in Tasks : u < t => task[u].flow # 0
    /\ \A p \in P : task[p].state # "absent"
    /\ needs' = needs \cup (P \X {t})
    /\ LET ready == \A p \in P : task[p].state = "DONE"
       IN  task' = [task EXCEPT ![t] = NewTask(f, IF ready THEN "READY" ELSE "TODO")]
    /\ UNCHANGED <<flow, attempts, outcome, claim, runs, pc, todo, gateway, bounds>>

Edit(kind) ==
    /\ Idle
    /\ kind \in Edits /\ Troubled
    /\ UNCHANGED <<conv, contract, pc, todo, gateway, lost>>

(* A move by hand, which the dispatcher's promises make no claim about. *)
Pushes(t) == pushed' = [pushed EXCEPT ![t] = @ + 1]

(* Slip: the search starts from the wrong end. *)
WouldRepeat(p, c) ==
    LET E == {e \in needs : task[e[1]].flow = task[p].flow} IN c \in Reachable(E, p)

(* detect_dag_cycle over the edges whose parent is in the flow. *)
WouldCycle(p, c) ==
    LET E == {e \in needs : task[e[1]].flow = task[p].flow} IN p \in Reachable(E, c)

AddDependency(p, c) ==
    /\ Edit("depend")
    /\ p # c /\ {task[p].state, task[c].state} \cap {"absent"} = {}
    /\ task[p].flow = task[c].flow
    /\ ~WouldCycle(p, c)
    /\ needs' = needs \cup {<<p, c>>}
    /\ task' = Evaluated(needs', c)
    /\ Pushes(c)
    /\ UNCHANGED <<flow, attempts, outcome, claim, status>>

(* It may take a task out of TRIAGE, however many attempts that has had:   *)
(* counted as the move by hand it is.                                      *)
RemoveDependency(p, c) ==
    /\ Edit("release")
    /\ <<p, c>> \in needs
    /\ needs' = needs \ {<<p, c>>}
    /\ task' = Evaluated(needs', c)
    /\ IF task[c].state = "TRIAGE" /\ task' # task THEN Pushes(c) ELSE UNCHANGED pushed
    /\ UNCHANGED <<flow, attempts, outcome, claim, status>>

BlockTask(t, reason) ==
    /\ Edit("block")
    /\ task[t].state # "absent"
    /\ task' = [task EXCEPT ![t] = Blocked(@, reason)]
    /\ Pushes(t)
    /\ UNCHANGED <<flow, needs, attempts, outcome, claim, status>>

(* Whatever state it is in; the reason stays for the recurrence guard. *)
UnblockTask(t) ==
    /\ Edit("unblock")
    /\ task[t].state # "absent"
    /\ task' = [task EXCEPT ![t].state = IF ParentsDone(task, t) THEN "READY" ELSE "TODO",
                            ![t].blocks = @]
    /\ Pushes(t)
    /\ UNCHANGED <<flow, needs, attempts, outcome, claim, status>>

RetryTask(t) ==
    /\ Edit("retry")
    /\ task[t].state # "absent"
    /\ claim' = [claim EXCEPT ![t] = NoClaim]
    /\ task' = [task EXCEPT ![t] = Moved(@, "READY")]
    /\ Pushes(t)
    /\ UNCHANGED <<flow, needs, attempts, outcome, status>>

SetTask(t, s) ==
    /\ Edit("set task")
    /\ task[t].state # "absent"
    /\ task' = [task EXCEPT ![t] = Moved(@, s)]
    /\ Pushes(t)
    /\ UNCHANGED <<flow, needs, attempts, outcome, claim, status>>

SetFlow(f, s) ==
    /\ Edit("set flow")
    /\ flow[f] # "absent"
    /\ flow' = [flow EXCEPT ![f] = s]
    /\ UNCHANGED <<task, needs, attempts, outcome, claim, status, pushed>>

(* The rows that refer to a deleted row go with it; the runs stay. *)
Deleted(D) ==
    /\ task' = [t \in Tasks |-> IF t \in D THEN [NoTask EXCEPT !.flow = task[t].flow] ELSE task[t]]
    /\ needs' = {e \in needs : {e[1], e[2]} \cap D = {}}
    /\ attempts' = [t \in Tasks |-> IF t \in D THEN <<>> ELSE attempts[t]]
    /\ claim' = [t \in Tasks |-> IF t \in D THEN NoClaim ELSE claim[t]]
    /\ UNCHANGED <<outcome, status, pushed>>

DeleteTask(t) ==
    /\ Edit("delete task")
    /\ task[t].state # "absent"
    /\ Deleted({t})
    /\ UNCHANGED flow

DeleteFlow(f) ==
    /\ Edit("delete flow")
    /\ flow[f] # "absent"
    /\ flow' = [flow EXCEPT ![f] = "absent"]
    /\ Deleted(Of(f))

CancelRun(r) ==
    /\ Edit("cancel run")
    /\ RunQueue!CancelQueued(r)
    /\ UNCHANGED <<tables, pushed>>

-----------------------------------------------------------------------------
(* The dispatcher's tick.                                                  *)

At(where) == gateway = "up" /\ pc = where
Tick ==
    /\ At("idle")
    /\ pc' = "reconcile"
    /\ todo' = In({"RUNNING"})
    /\ UNCHANGED <<tables, runs, gateway, bounds>>

Latest(t) == attempts[t][Len(attempts[t])]
Released(t) == [claim EXCEPT ![t] = NoClaim]

(* Slip: the lease is never looked at. *)
WaitsForEver(t) == attempts[t] = <<>> /\ UNCHANGED <<claim, task, outcome>>

(* A task that was claimed and has no attempt waits for its lease. *)
WaitsForAttempt(t) ==
    /\ attempts[t] = <<>>
    /\ IF claim[t].owner # "nobody" /\ ~claim[t].live
       THEN claim' = Released(t) /\ task' = [task EXCEPT ![t] = Moved(@, "READY")]
       ELSE UNCHANGED <<claim, task>>
    /\ UNCHANGED <<outcome>>

(* The lease of the process that took it is extended while the run lasts. *)
WaitsForRun(t) ==
    /\ attempts[t] # <<>> /\ status[Latest(t)] \in {"queued", "running"}
    /\ claim' = [claim EXCEPT ![t].live = @ \/ claim[t].owner = "me"]
    /\ UNCHANGED <<task, outcome>>

Finished(t) == attempts[t] # <<>> /\ status[Latest(t)] \in RunQueue!Outcomes
Reported(t, S) == Finished(t) /\ status[Latest(t)] = "completed" /\ contract[Latest(t)] \in S

(* Slip: a worker that reports a failure is taken to be done. *)
SucceededIfCompleted(t) == Reported(t, {"none", "completed", "failed"})

Succeeded(t) == Reported(t, {"none", "completed"})

Written(t) ==
    CASE Reported(t, {"blocked"}) -> "BLOCKED"
      [] Reported(t, {"failed"}) -> "FAILED"
      [] Reported(t, {"none", "completed"}) -> "COMPLETED"
      [] OTHER -> status[Latest(t)]
Closed(t) == outcome' = [outcome EXCEPT ![Latest(t)] = Written(t)]

Exhausted(t) == Len(attempts[t]) >= MaxAttempts

(* _handle_parent_task_failed *)
ChildrenBlocked(T, t) ==
    [c \in Tasks |-> IF c \in Children(t) /\ T[c].flow = T[t].flow /\ T[c].state \in {"TODO", "READY"}
                     THEN Blocked(T[c], "dependency") ELSE T[c]]

(* What a finished attempt makes of its task. *)
NextState(t) == IF Succeeded(t) THEN "DONE" ELSE IF Exhausted(t) THEN "FAILED" ELSE "READY"
Decided(t) == [task EXCEPT ![t] = Moved(@, NextState(t))]
Followed(t) ==
    IF Succeeded(t) THEN Promoted(Decided(t), {task[t].flow})
    ELSE IF Exhausted(t) THEN ChildrenBlocked(Decided(t), t) ELSE Decided(t)

ReportsBlock(t) ==
    /\ Reported(t, {"blocked"})
    /\ Closed(t)
    /\ claim' = Released(t)
    /\ \E reason \in Reasons : task' = [task EXCEPT ![t] = Blocked(@, reason)]

Decides(t) ==
    /\ Finished(t) /\ ~Reported(t, {"blocked"})
    /\ Closed(t)
    /\ claim' = Released(t)
    /\ task' = Followed(t)

(* _reconcile_running_tasks, for the next task. *)
Reconcile(t) ==
    /\ At("reconcile")
    /\ t \in todo /\ \A u \in todo : t <= u
    /\ WaitsForAttempt(t) \/ WaitsForRun(t) \/ ReportsBlock(t) \/ Decides(t)
    /\ todo' = todo \ {t}
    /\ UNCHANGED <<flow, needs, attempts, runs, pc, gateway, bounds>>

Promote ==
    /\ At("reconcile") /\ todo = {}
    /\ task' = Promoted(task, {f \in Flows : flow[f] \in {"RUNNING", "QUEUED", "WAITING", "BLOCKED"}})
    /\ pc' = "dispatch"
    /\ UNCHANGED <<flow, needs, attempts, outcome, claim, runs, todo, gateway, bounds>>

Slots == IF Cardinality(In({"RUNNING"})) >= Workers THEN 0 ELSE Workers - Cardinality(In({"RUNNING"}))
Claimable ==
    {t \in In({"READY"}) : flow[task[t].flow] \in {"RUNNING", "QUEUED"} /\ ~claim[t].live}

(* claim_ready_tasks: one transaction; which come first is the user's      *)
(* priority.                                                               *)
Claim ==
    /\ At("dispatch")
    /\ \E S \in SUBSET Claimable :
          /\ Cardinality(S) = IF Cardinality(Claimable) < Slots THEN Cardinality(Claimable) ELSE Slots
          /\ task' = [t \in Tasks |-> IF t \in S THEN [task[t] EXCEPT !.state = "RUNNING"] ELSE task[t]]
          /\ claim' = [t \in Tasks |-> IF t \in S THEN [owner |-> "me", live |-> TRUE] ELSE claim[t]]
          /\ todo' = S
    /\ pc' = "spawn"
    /\ UNCHANGED <<flow, needs, attempts, outcome, runs, gateway, bounds>>

Submit(t) ==
    /\ At("spawn") /\ t \in todo
    /\ RunQueue!Submit(t)

(* Slip: the attempt is not recorded. *)
NotRecorded(t) == attempts' = attempts

Recorded(t) == attempts' = [attempts EXCEPT ![t] = Append(@, Len(conv'))]

(* _spawn_task_run *)
Spawn(t) ==
    /\ Submit(t)
    /\ Recorded(t)
    /\ flow' = [flow EXCEPT ![task[t].flow] = IF @ \in {"QUEUED", "WAITING", "BLOCKED"} THEN "RUNNING" ELSE @]
    /\ todo' = todo \ {t}
    /\ UNCHANGED <<task, needs, outcome, claim, contract, pc, gateway, bounds>>

(* Before the run is submitted or after: the task is offered again. *)
SpawnRaises(t) ==
    /\ At("spawn") /\ t \in todo
    /\ Lost
    /\ UNCHANGED runs \/ Submit(t)
    /\ claim' = Released(t)
    /\ task' = [task EXCEPT ![t] = Moved(@, "READY")]
    /\ todo' = todo \ {t}
    /\ UNCHANGED <<flow, needs, attempts, outcome, contract, pc, gateway, pushed>>

(* _evaluate_all_flow_statuses *)
FlowStatus(f) ==
    LET all(S) == \A t \in Of(f) : task[t].state \in S
        any(s) == \E t \in Of(f) : task[t].state = s
    IN  IF all({"DONE", "ARCHIVED"}) THEN "SUCCEEDED"
        ELSE IF any("RUNNING") \/ any("READY") THEN "RUNNING"
        ELSE IF all({"BLOCKED", "DONE", "ARCHIVED"}) THEN "BLOCKED"
        ELSE IF any("FAILED") THEN "FAILED"
        ELSE IF any("BLOCKED") THEN "BLOCKED"
        ELSE "WAITING"

EvaluateFlows ==
    /\ At("spawn") /\ todo = {}
    /\ flow' = [f \in Flows |->
          IF flow[f] \in TerminalFlows \cup {"absent"} \/ Of(f) = {} THEN flow[f] ELSE FlowStatus(f)]
    /\ pc' = "idle"
    /\ UNCHANGED <<task, needs, attempts, outcome, claim, runs, todo, gateway, bounds>>

-----------------------------------------------------------------------------
(* Runs, time and the death of the gateway.                                *)

RunStarts(r) ==
    /\ Idle
    /\ RunQueue!Start(r)
    /\ UNCHANGED <<tables, contract, pc, todo, gateway, bounds>>

RunEnds(r) ==
    /\ Idle
    /\ r \in DOMAIN conv /\ RunQueue!Settle({r}) /\ status'[r] \in Endings
    /\ \E c \in Contracts :
          /\ c # "none" => status'[r] = "completed"
          /\ contract' = [contract EXCEPT ![r] = c]
    /\ UNCHANGED <<tables, pc, todo, gateway, bounds>>

LeaseExpires(t) ==
    /\ pc = "idle"
    /\ claim[t].live
    /\ claim' = [claim EXCEPT ![t].live = FALSE]
    /\ UNCHANGED <<flow, task, needs, attempts, outcome, runs, pc, todo, gateway, bounds>>

(* The next process has another name. *)
Inherited(c) == [t \in Tasks |-> IF c[t].owner = "me" THEN [c[t] EXCEPT !.owner = "before"] ELSE c[t]]

Dies ==
    /\ gateway = "up" /\ Lost
    /\ gateway' = "down" /\ pc' = "idle" /\ todo' = {}

Crash ==
    /\ Dies
    /\ claim' = Inherited(claim)
    /\ UNCHANGED <<flow, task, needs, attempts, outcome, runs, pushed>>

(* After the attempt is closed, its claim released, or its task moved.     *)
CrashInReconcile(t) ==
    /\ At("reconcile") /\ t \in todo /\ \A u \in todo : t <= u
    /\ Finished(t)
    /\ Dies
    /\ Closed(t)
    /\ \/ claim' = Inherited(claim) /\ UNCHANGED task
       \/ claim' = Inherited(Released(t)) /\ UNCHANGED task
       \/ claim' = Inherited(Released(t)) /\ ~Reported(t, {"blocked"}) /\ task' = Decided(t)
    /\ UNCHANGED <<flow, needs, attempts, runs, pushed>>

(* After the run is submitted, or its attempt recorded. *)
CrashInSpawn(t) ==
    /\ Dies
    /\ Submit(t)
    /\ UNCHANGED attempts \/ Recorded(t)
    /\ claim' = Inherited(claim)
    /\ UNCHANGED <<flow, task, needs, outcome, contract, pushed>>

Boot ==
    /\ gateway = "down" /\ gateway' = "up"
    /\ UNCHANGED <<tables, runs, pc, todo, bounds>>

TickStep ==
    \/ Promote \/ Claim \/ EvaluateFlows
    \/ \E t \in Tasks : Reconcile(t) \/ Spawn(t)

Request ==
    \/ \E t, u \in Tasks : AddDependency(t, u) \/ RemoveDependency(t, u)
    \/ \E t \in Tasks :
          \/ \E reason \in Reasons : BlockTask(t, reason)
          \/ UnblockTask(t) \/ RetryTask(t) \/ DeleteTask(t)
          \/ \E s \in TaskStates : SetTask(t, s)
    \/ \E f \in Flows : DeleteFlow(f) \/ \E s \in FlowStates : SetFlow(f, s)
    \/ \E r \in Runs : CancelRun(r)

Next ==
    \/ \E t \in Tasks, f \in Flows, P \in SUBSET Tasks : CreateTask(t, f, P)
    \/ Request
    \/ Tick \/ TickStep \/ \E t \in Tasks : SpawnRaises(t)
    \/ \E r \in Runs : RunStarts(r) \/ RunEnds(r)
    \/ \E t \in Tasks : LeaseExpires(t) \/ CrashInReconcile(t) \/ CrashInSpawn(t)
    \/ Crash \/ Boot

Spec == Init /\ [][Next]_vars

(* The dispatcher keeps ticking while the gateway is up and the gateway is *)
(* started again; a queued run gets its turn and a started one ends, and a *)
(* lease that nobody extends runs out: each needs its moment between two   *)
(* ticks.                                                                  *)
LiveSpec ==
    /\ Spec
    /\ WF_vars(Tick) /\ WF_vars(TickStep) /\ WF_vars(Boot)
    /\ SF_vars(\E r \in Runs : RunStarts(r)) /\ SF_vars(\E r \in Runs : RunEnds(r))
    /\ \A t \in Tasks : SF_vars(LeaseExpires(t))

-----------------------------------------------------------------------------
Live(t) == {r \in Runs : r \in DOMAIN conv /\ conv[r] = t /\ status[r] \in {"queued", "running"}}

Rows == [state : TaskStates \cup {"absent"}, flow : 0 .. MaxFlows,
         reason : Reasons \cup {"none"}, blocks : Nat]

TypeOK ==
    /\ flow \in [Flows -> FlowStates \cup {"absent"}]
    /\ task \in [Tasks -> Rows]
    /\ needs \subseteq Tasks \X Tasks
    /\ attempts \in [Tasks -> Seq(Runs)]
    /\ outcome \in [Runs -> RunQueue!Outcomes \cup {"none", "BLOCKED", "FAILED", "COMPLETED"}]
    /\ claim \in [Tasks -> [owner : {"nobody", "me", "before"}, live : BOOLEAN]]
    /\ conv \in Seq(Tasks) /\ Len(conv) <= MaxRuns
    /\ status \in [Runs -> {"absent", "queued", "running"} \cup RunQueue!Outcomes]
    /\ contract \in [Runs -> Contracts]
    /\ pc \in {"idle", "reconcile", "dispatch", "spawn"} /\ todo \subseteq Tasks
    /\ gateway \in {"up", "down"}
    /\ pushed \in [Tasks -> 0 .. trouble] /\ lost \in 0 .. trouble /\ trouble \in 0 .. MaxTrouble

(* The dependencies stay a directed acyclic graph, whatever is added to it *)
(* and removed from it: no task is its own ancestor.                       *)
Acyclic == \A e \in needs : e[1] \notin Reachable(needs, e[2])

(* No task is worked on before all it depends on is done, unless the user  *)
(* moved one of them by hand.                                              *)
ParentsFirst ==
    \A t \in Tasks :
        (/\ task[t].state \in {"RUNNING", "DONE"}
         /\ \A u \in {t} \cup Parents(t) : pushed[u] = 0)
        => ParentsDone(task, t)

(* A task nobody moved is done only when its last attempt ended well and   *)
(* said so, and that attempt is on record as completed.                    *)
DoneIsEarned ==
    \A t \in Tasks :
        (task[t].state = "DONE" /\ pushed[t] = 0)
        => /\ attempts[t] # <<>>
           /\ status[Latest(t)] = "completed"
           /\ contract[Latest(t)] \in {"none", "completed"}
           /\ outcome[Latest(t)] = "COMPLETED"

(* At most one run works on a task, and it takes no more attempts than it  *)
(* may.  A death or an error between submitting a run and recording it,    *)
(* and the user's moving the task while its run lasts, may leave one more. *)
RunsAccounted ==
    \A t \in Tasks :
        /\ Cardinality(Live(t)) <= 1 + pushed[t] + lost
        /\ Len(attempts[t]) <= MaxAttempts + pushed[t]

(* A task the user declared to be running holds a worker's place for ever. *)
Squats(t) == task[t].state = "RUNNING" /\ attempts[t] = <<>> /\ claim[t].owner = "nobody"

(* What the dispatcher can do nothing more about. *)
AtRest(t) ==
    \/ task[t].state \in {"absent", "DONE", "FAILED", "BLOCKED", "TRIAGE"}
    \/ flow[task[t].flow] \in TerminalFlows
    \/ \E p \in Parents(t) : task[p].state # "DONE"
    \/ pushed[t] > 0 \/ \E u \in Tasks : Squats(u)
    \/ Len(conv) = MaxRuns   \* the bound

(* A task that is ready or being worked on is decided in the end, through  *)
(* crashes, failures to submit and lost attempts.                          *)
EveryTaskSettles == \A t \in Tasks : (task[t].state \in {"READY", "RUNNING"}) ~> AtRest(t)
=============================================================================
