---------------------------- MODULE TaskFlowProof ----------------------------
(***************************************************************************)
(* Proofs about TaskFlow, for every number of tasks, flows, runs, workers, *)
(* attempts, requests and faults.                                          *)
(*                                                                         *)
(* First, the dependencies stay acyclic as long as none crosses flows;     *)
(* with one flow none can.  That b is not reachable from a is witnessed by *)
(* a closed set: one that holds a, is closed under the edges and does not  *)
(* hold b.  Every step that adds an edge makes the witnesses of the new    *)
(* graph from those of the old one, by union and intersection.             *)
(*                                                                         *)
(* Then type correctness, ParentsFirst, DoneIsEarned and RunsAccounted,    *)
(* none of them inductive alone.  Step says, action by action, what may    *)
(* become of a task, its attempts, its runs and its edges; IInv is then    *)
(* shown from Step alone, one conjunct at a time.                          *)
(***************************************************************************)
EXTENDS TaskFlow, TLAPS, FiniteSetTheorems

\* S separates b from a: b cannot be reached from a along E.
ClosedUnder(E, S) == \A e \in E : e[1] \in S => e[2] \in S
Separates(E, S, a, b) == S \subseteq Tasks /\ a \in S /\ b \notin S /\ ClosedUnder(E, S)

\* The rows; and what there is a task for, or an edge, or something to do, has
\* been created.
Graph ==
    /\ task \in [Tasks -> Rows]
    /\ needs \subseteq Tasks \X Tasks
    /\ \A t \in Tasks : task[t].state # "absent" \/ t \in todo => task[t].flow # 0
    /\ \A e \in needs : task[e[1]].flow # 0 /\ task[e[2]].flow # 0

WithinFlows == \A e \in needs : task[e[1]].flow = task[e[2]].flow

-----------------------------------------------------------------------------
(* Reachability.                                                           *)

LEMMA Separated ==
    ASSUME NEW E, NEW a \in Tasks, NEW b \in Tasks
    PROVE  b \notin Reachable(E, a) <=> \E S : Separates(E, S, a, b)
BY DEF Reachable, Separates, ClosedUnder

(* An acyclic graph stays acyclic under an edge from p to c, if a closed   *)
(* set holds c and not p.                                                  *)
LEMMA EdgeAdded ==
    ASSUME NEW E, E \subseteq Tasks \X Tasks, NEW p \in Tasks, NEW c \in Tasks,
           \A e \in E : e[1] \notin Reachable(E, e[2]),
           NEW S, Separates(E, S, c, p)
    PROVE  LET F == E \cup {<<p, c>>} IN \A e \in F : e[1] \notin Reachable(F, e[2])
<1>. DEFINE F == E \cup {<<p, c>>}
<1>. SUFFICES ASSUME NEW e \in F PROVE e[1] \notin Reachable(F, e[2])
  OBVIOUS
<1>0. e[1] \in Tasks /\ e[2] \in Tasks
  OBVIOUS
<1>. SUFFICES \E T : Separates(F, T, e[2], e[1])
  BY <1>0, Separated
<1>1. CASE e = <<p, c>>
  <2>1. Separates(F, S, c, p)
    BY DEF Separates, ClosedUnder
  <2>. QED
    BY <1>1, <2>1
<1>2. CASE e \in E
  <2>1. PICK T : Separates(E, T, e[2], e[1])
    BY <1>0, <1>2, Separated
  <2>2. CASE p \notin T
    <3>1. Separates(F, T, e[2], e[1])
      BY <2>1, <2>2 DEF Separates, ClosedUnder
    <3>. QED
      BY <3>1
  <2>3. CASE p \in T /\ e[1] \notin S
    <3>1. Separates(F, T \cup S, e[2], e[1])
      BY <2>1, <2>3 DEF Separates, ClosedUnder
    <3>. QED
      BY <3>1
  <2>4. CASE e[1] \in S
    <3>1. Separates(F, T \cap S, e[2], e[1])
      BY <1>2, <2>1, <2>4 DEF Separates, ClosedUnder
    <3>. QED
      BY <3>1
  <2>. QED
    BY <2>2, <2>3, <2>4
<1>. QED
  BY <1>1, <1>2

(* It stays acyclic under edges into a task that no edge touches.          *)
LEMMA NodeAdded ==
    ASSUME NEW E, E \subseteq Tasks \X Tasks, NEW t \in Tasks,
           NEW P \in SUBSET (Tasks \ {t}),
           \A e \in E : e[1] # t /\ e[2] # t,
           \A e \in E : e[1] \notin Reachable(E, e[2])
    PROVE  LET F == E \cup (P \X {t}) IN \A e \in F : e[1] \notin Reachable(F, e[2])
<1>. DEFINE F == E \cup (P \X {t})
<1>. SUFFICES ASSUME NEW e \in F PROVE e[1] \notin Reachable(F, e[2])
  OBVIOUS
<1>0. e[1] \in Tasks /\ e[2] \in Tasks
  OBVIOUS
<1>. SUFFICES \E T : Separates(F, T, e[2], e[1])
  BY <1>0, Separated
<1>1. CASE e \in P \X {t}
  <2>1. Separates(F, {t}, t, e[1])
    BY <1>1 DEF Separates, ClosedUnder
  <2>. QED
    BY <1>1, <2>1
<1>2. CASE e \in E
  <2>1. PICK T : Separates(E, T, e[2], e[1])
    BY <1>0, <1>2, Separated
  <2>2. Separates(F, T \cup {t}, e[2], e[1])
    BY <1>2, <2>1 DEF Separates, ClosedUnder
  <2>. QED
    BY <2>2
<1>. QED
  BY <1>1, <1>2

LEMMA EdgesRemoved ==
    ASSUME NEW E, E \subseteq Tasks \X Tasks, NEW F, F \subseteq E,
           \A e \in E : e[1] \notin Reachable(E, e[2])
    PROVE  \A e \in F : e[1] \notin Reachable(F, e[2])
<1>. SUFFICES ASSUME NEW e \in F PROVE e[1] \notin Reachable(F, e[2])
  OBVIOUS
<1>0. e \in E /\ e[1] \in Tasks /\ e[2] \in Tasks
  OBVIOUS
<1>1. PICK T : Separates(E, T, e[2], e[1])
  BY <1>0, Separated
<1>2. Separates(F, T, e[2], e[1])
  BY <1>1 DEF Separates, ClosedUnder
<1>. QED
  BY <1>0, <1>2, Separated

-----------------------------------------------------------------------------
(* The rows of the tasks.                                                  *)

\* Rows T in which every task is in its flow, and none that was never created.
Keep(T) ==
    /\ T \in [Tasks -> Rows]
    /\ \A t \in Tasks : /\ T[t].flow = task[t].flow
                        /\ T[t].state # "absent" => task[t].flow # 0

KeepsFlows == Keep(task') /\ \A t \in Tasks \cap todo' : task[t].flow # 0

LEMMA GraphKeep == ASSUME Graph PROVE Keep(task)
BY DEF Graph, Keep

LEMMA MovedRow ==
    ASSUME NEW x \in Rows, NEW s \in TaskStates
    PROVE  Moved(x, s) \in Rows /\ Moved(x, s).flow = x.flow
BY DEF Moved, Rows

LEMMA BlockedRow ==
    ASSUME NEW x \in Rows, NEW reason \in Reasons
    PROVE  Blocked(x, reason) \in Rows /\ Blocked(x, reason).flow = x.flow
<1>1. PICK s \in {"TRIAGE", "BLOCKED"} :
        Blocked(x, reason) = [x EXCEPT !.state = s, !.reason = reason, !.blocks = @ + 1]
  BY DEF Blocked
<1>2. PICK n \in Nat : n = x.blocks + 1
  BY DEF Rows
<1>3. LET y == [x EXCEPT !.state = s, !.reason = reason, !.blocks = n]
      IN  y \in Rows /\ y.flow = x.flow
  BY DEF Rows, TaskStates
<1>. QED
  BY <1>1, <1>2, <1>3

LEMMA PromotedRows ==
    ASSUME NEW T, Keep(T), NEW F
    PROVE  Keep(Promoted(T, F))
<1>1. \A t \in Tasks : Moved(T[t], "READY") \in Rows /\ Moved(T[t], "READY").flow = T[t].flow
  BY MovedRow DEF TaskStates, Keep
<1>. QED
  BY <1>1 DEF Promoted, Keep

(* One row that is replaced, of a task that there is or that waits to be   *)
(* handled.                                                                *)
LEMMA OneMoved ==
    ASSUME Graph, NEW t \in Tasks, task[t].state # "absent" \/ t \in todo,
           NEW x \in Rows, x.flow = task[t].flow
    PROVE  Keep([task EXCEPT ![t] = x])
BY DEF Graph, Keep

LEMMA EvaluatedRows ==
    ASSUME Graph, NEW E, NEW c \in Tasks, task[c].state # "absent"
    PROVE  Keep(Evaluated(E, c))
<1>1. Moved(task[c], "READY") \in Rows /\ Moved(task[c], "READY").flow = task[c].flow
  BY MovedRow DEF Graph, TaskStates
<1>2. Keep([task EXCEPT ![c] = Moved(task[c], "READY")])
  BY <1>1, OneMoved
<1>. QED
  BY <1>2, GraphKeep DEF Evaluated

LEMMA FollowedRows ==
    ASSUME Graph, NEW t \in Tasks, t \in todo
    PROVE  Keep(Decided(t)) /\ Keep(Followed(t))
<1>1. NextState(t) \in TaskStates
  BY DEF NextState, TaskStates
<1>2. Keep(Decided(t))
  BY <1>1, MovedRow, OneMoved DEF Decided, Graph
<1>3. Keep(Promoted(Decided(t), {task[t].flow}))
  BY <1>2, PromotedRows
<1>4. \A u \in Tasks : /\ Blocked(Decided(t)[u], "dependency") \in Rows
                       /\ Blocked(Decided(t)[u], "dependency").flow = task[u].flow
  BY <1>2, BlockedRow DEF Reasons, Keep
<1>5. Keep(ChildrenBlocked(Decided(t), t))
  BY <1>2, <1>4 DEF ChildrenBlocked, Keep
<1>. QED
  BY <1>2, <1>3, <1>5 DEF Followed

-----------------------------------------------------------------------------
(* The steps.                                                              *)

GraphKept == KeepsFlows /\ needs' \subseteq needs

LEMMA SameTodo ==
    ASSUME Graph, todo' \subseteq todo, Keep(task'), needs' \subseteq needs
    PROVE  GraphKept
BY DEF Graph, GraphKept, KeepsFlows

LEMMA RowRequests ==
    ASSUME Graph, NEW t \in Tasks,
           \/ \E reason \in Reasons : BlockTask(t, reason)
           \/ UnblockTask(t) \/ RetryTask(t)
           \/ \E s \in TaskStates : SetTask(t, s)
    PROVE  GraphKept
<1>1. /\ task[t] \in Rows /\ task[t].state # "absent"
      /\ UNCHANGED <<needs, todo>>
  BY DEF Graph, BlockTask, UnblockTask, RetryTask, SetTask, Edit
<1>2. ASSUME NEW reason \in Reasons, BlockTask(t, reason) PROVE Keep(task')
  BY <1>1, <1>2, BlockedRow, OneMoved DEF BlockTask
<1>3. ASSUME UnblockTask(t) PROVE Keep(task')
  BY <1>1, <1>3 DEF UnblockTask, Keep, Graph, Rows, TaskStates
<1>4. ASSUME NEW s \in TaskStates, task' = [task EXCEPT ![t] = Moved(@, s)] PROVE Keep(task')
  BY <1>1, <1>4, MovedRow, OneMoved
<1>5. "READY" \in TaskStates
  BY DEF TaskStates
<1>6. Keep(task')
  BY <1>2, <1>3, <1>4, <1>5 DEF RetryTask, SetTask
<1>. QED
  BY <1>1, <1>6, SameTodo

LEMMA ReconcileSteps ==
    ASSUME Graph, NEW t \in Tasks, Reconcile(t) \/ CrashInReconcile(t)
    PROVE  GraphKept
<1>1. task[t] \in Rows /\ t \in todo /\ todo' \subseteq todo /\ UNCHANGED needs
  BY DEF Graph, Reconcile, CrashInReconcile, Dies
<1>2. ASSUME UNCHANGED task PROVE Keep(task')
  BY <1>2, GraphKeep
<1>3. ASSUME task' = [task EXCEPT ![t] = Moved(@, "READY")] PROVE Keep(task')
  BY <1>1, <1>3, MovedRow, OneMoved DEF TaskStates
<1>4. ASSUME NEW reason \in Reasons, task' = [task EXCEPT ![t] = Blocked(@, reason)]
      PROVE  Keep(task')
  BY <1>1, <1>4, BlockedRow, OneMoved
<1>5. ASSUME task' = Decided(t) \/ task' = Followed(t) PROVE Keep(task')
  BY <1>1, <1>5, FollowedRows
<1>6. \/ UNCHANGED task
      \/ task' = [task EXCEPT ![t] = Moved(@, "READY")]
      \/ \E reason \in Reasons : task' = [task EXCEPT ![t] = Blocked(@, reason)]
      \/ task' = Decided(t) \/ task' = Followed(t)
  BY DEF Reconcile, CrashInReconcile, WaitsForAttempt, WaitsForRun, ReportsBlock, Decides
<1>7. Keep(task')
  BY <1>2, <1>3, <1>4, <1>5, <1>6, GraphKeep
<1>. QED
  BY <1>1, <1>7, SameTodo

LEMMA TickSteps ==
    ASSUME Graph, Tick \/ TickStep
    PROVE  GraphKept
<1>1. CASE Tick
  BY <1>1, GraphKeep DEF Tick, tables, In, GraphKept, KeepsFlows, Graph
<1>2. CASE Promote
  BY <1>2, GraphKeep, PromotedRows, SameTodo DEF Promote
<1>3. CASE Claim
  <2>1. PICK S \in SUBSET Claimable :
          /\ task' = [t \in Tasks |-> IF t \in S THEN [task[t] EXCEPT !.state = "RUNNING"]
                                      ELSE task[t]]
          /\ todo' = S
    BY <1>3 DEF Claim
  <2>2. \A t \in S : t \in Tasks /\ task[t].state # "absent"
    BY DEF Claimable, In
  <2>3. UNCHANGED needs
    BY <1>3 DEF Claim
  <2>4. \A t \in Tasks : /\ [task[t] EXCEPT !.state = "RUNNING"] \in Rows
                         /\ [task[t] EXCEPT !.state = "RUNNING"].flow = task[t].flow
    BY DEF Graph, Rows, TaskStates
  <2>5. Keep(task')
    BY <2>1, <2>2, <2>4 DEF Keep, Graph
  <2>. QED
    BY <2>1, <2>2, <2>3, <2>5 DEF GraphKept, KeepsFlows, Graph
<1>4. CASE EvaluateFlows
  BY <1>4, GraphKeep, SameTodo DEF EvaluateFlows
<1>5. ASSUME NEW t \in Tasks, Spawn(t) PROVE GraphKept
  BY <1>5, GraphKeep, SameTodo DEF Spawn
<1>. QED
  BY <1>1, <1>2, <1>3, <1>4, <1>5, ReconcileSteps DEF TickStep

LEMMA OtherSteps ==
    ASSUME Graph,
           \/ Crash \/ Boot
           \/ \E t \in Tasks : SpawnRaises(t) \/ LeaseExpires(t) \/ CrashInSpawn(t)
           \/ \E r \in Runs : RunStarts(r) \/ RunEnds(r) \/ CancelRun(r)
           \/ \E f \in Flows, s \in FlowStates : SetFlow(f, s)
           \/ UNCHANGED vars
    PROVE  GraphKept
<1>1. ASSUME NEW t \in Tasks, SpawnRaises(t) PROVE GraphKept
  <2>1. Moved(task[t], "READY") \in Rows /\ Moved(task[t], "READY").flow = task[t].flow
    BY MovedRow DEF Graph, TaskStates
  <2>2. t \in todo /\ todo' \subseteq todo /\ UNCHANGED needs
    BY <1>1 DEF SpawnRaises
  <2>3. Keep(task')
    BY <1>1, <2>1, <2>2, OneMoved DEF SpawnRaises
  <2>. QED
    BY <2>2, <2>3, SameTodo
<1>2. CASE UNCHANGED <<task, needs>> /\ todo' \subseteq todo
  BY <1>2, GraphKeep, SameTodo
<1>. QED
  BY <1>1, <1>2
     DEF Crash, Boot, Dies, LeaseExpires, CrashInSpawn, RunStarts, RunEnds, CancelRun,
         SetFlow, Edit, tables, vars

LEMMA DeletedRows ==
    ASSUME Graph, NEW D, Deleted(D), UNCHANGED todo
    PROVE  GraphKept
<1>1. task' = [t \in Tasks |-> IF t \in D THEN [NoTask EXCEPT !.flow = task[t].flow]
                               ELSE task[t]]
  BY DEF Deleted
<1>2. \A t \in Tasks : /\ [NoTask EXCEPT !.flow = task[t].flow] \in Rows
                       /\ [NoTask EXCEPT !.flow = task[t].flow].flow = task[t].flow
                       /\ [NoTask EXCEPT !.flow = task[t].flow].state = "absent"
  BY DEF NoTask, Graph, Rows
<1>3. Keep(task')
  BY <1>1, <1>2 DEF Keep, Graph
<1>. QED
  BY <1>3, SameTodo DEF Deleted

(* A step of TaskFlow leaves the edges alone, removes some, or adds those  *)
(* of one request.                                                         *)
LEMMA StepsOfTheGraph ==
    ASSUME Graph, [Next]_vars
    PROVE  \/ GraphKept
           \/ \E p, c \in Tasks : AddDependency(p, c)
           \/ \E t \in Tasks, f \in Flows, P \in SUBSET Tasks : CreateTask(t, f, P)
<1>1. ASSUME NEW p \in Tasks, NEW c \in Tasks, RemoveDependency(p, c) PROVE GraphKept
  <2>1. /\ <<p, c>> \in needs /\ needs' \subseteq needs /\ UNCHANGED todo
        /\ task' = Evaluated(needs', c)
    BY <1>1 DEF RemoveDependency, Edit
  <2>2. CASE task[c].state = "absent"
    BY <2>1, <2>2, GraphKeep, SameTodo DEF Evaluated
  <2>3. CASE task[c].state # "absent"
    BY <2>1, <2>3, EvaluatedRows, SameTodo
  <2>. QED
    BY <2>2, <2>3
<1>2. CASE Request
  <2>1. ASSUME NEW r \in Runs, CancelRun(r) PROVE GraphKept
    BY <2>1, OtherSteps
  <2>2. ASSUME NEW f \in Flows, NEW s \in FlowStates, SetFlow(f, s) PROVE GraphKept
    BY <2>2, OtherSteps
  <2>3. ASSUME NEW f \in Flows, DeleteFlow(f) PROVE GraphKept
    BY <2>3, DeletedRows DEF DeleteFlow, Edit
  <2>4. ASSUME NEW t \in Tasks, DeleteTask(t) PROVE GraphKept
    BY <2>4, DeletedRows DEF DeleteTask, Edit
  <2>. QED
    BY <1>1, <1>2, <2>1, <2>2, <2>3, <2>4, RowRequests DEF Request
<1>3. CASE Tick \/ TickStep
  BY <1>3, TickSteps
<1>. QED
  BY <1>2, <1>3, OtherSteps, ReconcileSteps DEF Next

-----------------------------------------------------------------------------
(* The invariant.                                                          *)

LEMMA GraphInit == Init => Graph /\ Acyclic
<1>. SUFFICES ASSUME Init PROVE Graph /\ Acyclic
  OBVIOUS
<1>1. NoTask \in Rows /\ NoTask.state = "absent"
  BY TaskFlowBounds DEF NoTask, Rows
<1>2. /\ task = [t \in Tasks |-> NoTask] /\ needs = {} /\ todo = {}
  BY DEF Init
<1>3. Graph
  BY <1>1, <1>2 DEF Graph
<1>. QED
  BY <1>2, <1>3 DEF Acyclic

LEMMA AddDependencyStep ==
    ASSUME Graph, NEW p \in Tasks, NEW c \in Tasks, AddDependency(p, c)
    PROVE  Graph' /\ (Acyclic /\ WithinFlows => Acyclic')
<1>. DEFINE E == {e \in needs : task[e[1]].flow = task[p].flow}
<1>1. /\ task[p].flow = task[c].flow /\ p \notin Reachable(E, c)
      /\ needs' = needs \cup {<<p, c>>} /\ task' = Evaluated(needs', c)
      /\ {task[p].state, task[c].state} \cap {"absent"} = {}
  BY DEF AddDependency, WouldCycle
<1>4. ASSUME Acyclic, WithinFlows PROVE Acyclic'
  <2>1. PICK S : Separates(E, S, c, p)
    BY <1>1, Separated
  <2>2. Separates(needs, S \cap {t \in Tasks : task[t].flow = task[p].flow}, c, p)
    BY <1>1, <1>4, <2>1 DEF Separates, ClosedUnder, WithinFlows, Graph
  <2>. QED
    BY <1>1, <1>4, <2>2, EdgeAdded DEF Acyclic, Graph
<1>5. Keep(task') /\ UNCHANGED todo
  BY <1>1, EvaluatedRows DEF AddDependency, Edit
<1>6. task[p].flow # 0 /\ task[c].flow # 0
  BY <1>1 DEF Graph
<1>7. /\ needs' \subseteq Tasks \X Tasks
      /\ \A e \in needs' : task[e[1]].flow # 0 /\ task[e[2]].flow # 0
  BY <1>1, <1>6 DEF Graph
<1>8. Graph'
  BY <1>5, <1>7 DEF Graph, Keep
<1>. QED
  BY <1>4, <1>8

LEMMA CreateTaskStep ==
    ASSUME Graph,
           NEW t \in Tasks, NEW f \in Flows, NEW P \in SUBSET Tasks, CreateTask(t, f, P)
    PROVE  Graph' /\ (Acyclic => Acyclic')
<1>. DEFINE ready == \A p \in P : task[p].state = "DONE"
            new == NewTask(f, IF ready THEN "READY" ELSE "TODO")
<1>1. /\ task[t] = NoTask /\ \A p \in P : task[p].state # "absent"
      /\ needs' = needs \cup (P \X {t}) /\ UNCHANGED todo
      /\ task' = [task EXCEPT ![t] = new]
  BY DEF CreateTask
<1>2. task[t].state = "absent" /\ task[t].flow = 0
  BY <1>1 DEF NoTask
<1>3. P \in SUBSET (Tasks \ {t}) /\ \A e \in needs : e[1] # t /\ e[2] # t
  BY <1>1, <1>2 DEF Graph
<1>4. ASSUME Acyclic PROVE Acyclic'
  BY <1>1, <1>3, <1>4, NodeAdded DEF Acyclic, Graph
<1>5. new \in Rows /\ new.flow # 0
  <2>1. NoTask \in Rows
    BY TaskFlowBounds DEF NoTask, Rows
  <2>2. PICK s \in TaskStates : new = [NoTask EXCEPT !.state = s, !.flow = f]
    BY DEF NewTask, TaskStates
  <2>3. f \in 0 .. MaxFlows /\ f # 0
    BY TaskFlowBounds DEF Flows
  <2>. QED
    BY <2>1, <2>2, <2>3 DEF Rows
<1>6. Graph'
  BY <1>1, <1>2, <1>3, <1>5 DEF Graph
<1>. QED
  BY <1>4, <1>6

LEMMA GraphNext ==
    ASSUME Graph, [Next]_vars
    PROVE  Graph' /\ (Acyclic /\ WithinFlows => Acyclic')
<1>1. CASE GraphKept
  <2>1. Graph'
    BY <1>1 DEF GraphKept, KeepsFlows, Keep, Graph
  <2>2. Acyclic => Acyclic'
    BY <1>1, EdgesRemoved DEF GraphKept, Acyclic, Graph
  <2>. QED
    BY <2>1, <2>2
<1>. QED
  BY <1>1, AddDependencyStep, CreateTaskStep, StepsOfTheGraph

-----------------------------------------------------------------------------
(* Type correctness.                                                       *)

ClaimRows == [owner : {"nobody", "me", "before"}, live : BOOLEAN]
OutcomeNames == RunQueue!Outcomes \cup {"none", "BLOCKED", "FAILED", "COMPLETED"}
StatusNames == {"absent", "queued", "running"} \cup RunQueue!Outcomes

\* TypeOK without the table of tasks, the graph and what the bound counts.
Rest ==
    /\ flow \in [Flows -> FlowStates \cup {"absent"}]
    /\ attempts \in [Tasks -> Seq(Runs)]
    /\ outcome \in [Runs -> OutcomeNames]
    /\ claim \in [Tasks -> ClaimRows]
    /\ conv \in Seq(Tasks) /\ Len(conv) <= MaxRuns
    /\ status \in [Runs -> StatusNames]
    /\ contract \in [Runs -> Contracts]
    /\ pc \in {"idle", "reconcile", "dispatch", "spawn"} /\ todo \subseteq Tasks
    /\ gateway \in {"up", "down"}

\* What the bound counts.
Counters ==
    /\ pushed \in [Tasks -> 0 .. trouble]
    /\ lost \in 0 .. trouble /\ trouble \in 0 .. MaxTrouble

LEMMA RestIsType == TypeOK <=> Rest /\ Counters /\ task \in [Tasks -> Rows] /\ needs \subseteq Tasks \X Tasks
BY DEF TypeOK, Rest, Counters, ClaimRows, OutcomeNames, StatusNames

LEMMA TypeInit == Init => TypeOK
<1>. SUFFICES ASSUME Init PROVE Rest /\ Counters /\ Graph
  BY GraphInit, RestIsType DEF Graph
<1>1. NoClaim \in ClaimRows
  BY DEF NoClaim, ClaimRows
<1>2. \A f \in Flows : flow[f] \in FlowStates \cup {"absent"}
  BY DEF Init, FlowStates
<1>. QED
  BY <1>1, <1>2, GraphInit, TaskFlowBounds
     DEF Init, Rest, Counters, RunQueue!Init, RunQueue!Runs, Runs, FlowStates, Contracts, OutcomeNames, StatusNames

LEMMA CountersKept ==
    ASSUME Counters, \/ UNCHANGED bounds
                     \/ Lost /\ UNCHANGED pushed
                     \/ Troubled /\ UNCHANGED lost /\ (UNCHANGED pushed \/ \E t \in Tasks : Pushes(t))
    PROVE  Counters'
<1>. USE TaskFlowBounds
<1>1. trouble \in Nat /\ \A t \in Tasks : pushed[t] \in 0 .. trouble
  BY DEF Counters
<1>2. CASE UNCHANGED bounds
  BY <1>2 DEF Counters, bounds
<1>3. ASSUME Troubled
      PROVE  trouble' \in 0 .. MaxTrouble /\ trouble' = trouble + 1
  BY <1>1, <1>3 DEF Troubled
<1>4. ASSUME Troubled PROVE UNCHANGED pushed => pushed' \in [Tasks -> 0 .. trouble']
  <2>1. 0 .. trouble \subseteq 0 .. trouble'
    BY <1>1, <1>3, <1>4
  <2>. QED
    BY <2>1 DEF Counters
<1>5. ASSUME Troubled, NEW t \in Tasks, Pushes(t) PROVE pushed' \in [Tasks -> 0 .. trouble']
  <2>1. pushed[t] + 1 \in 0 .. trouble' /\ \A u \in Tasks : pushed[u] \in 0 .. trouble'
    BY <1>1, <1>3, <1>5
  <2>2. pushed' = [u \in Tasks |-> IF u = t THEN pushed[t] + 1 ELSE pushed[u]]
    BY <1>5 DEF Pushes, Counters
  <2>. QED
    BY <2>1, <2>2
<1>6. CASE Lost /\ UNCHANGED pushed
  BY <1>3, <1>4, <1>6 DEF Lost, Counters
<1>7. CASE Troubled /\ UNCHANGED lost /\ (UNCHANGED pushed \/ \E t \in Tasks : Pushes(t))
  BY <1>3, <1>4, <1>5, <1>7 DEF Counters
<1>. QED
  BY <1>2, <1>6, <1>7

(* The runs. *)
RunTypes == conv \in Seq(Tasks) /\ Len(conv) <= MaxRuns /\ status \in [Runs -> StatusNames]

LEMMA SubmitTypes ==
    ASSUME RunTypes, NEW t \in Tasks, RunQueue!Submit(t)
    PROVE  /\ RunTypes'
           /\ Len(conv') = Len(conv) + 1 /\ Len(conv') \in Runs
           /\ DOMAIN conv = 1 .. Len(conv) /\ DOMAIN conv' = 1 .. Len(conv')
           /\ conv'[Len(conv')] = t /\ \A r \in DOMAIN conv : conv'[r] = conv[r]
           /\ status' = [r \in Runs |-> IF r = Len(conv') THEN "queued" ELSE status[r]]
<1>1. /\ conv' = Append(conv, t) /\ Len(conv) < MaxRuns /\ Len(conv) \in Nat
      /\ status' = [status EXCEPT ![Len(conv) + 1] = "queued"]
  BY DEF RunQueue!Submit, RunTypes
<1>2. Len(conv') = Len(conv) + 1 /\ conv' \in Seq(Tasks)
  BY <1>1 DEF RunTypes
<1>3. Len(conv') \in Runs
  BY <1>1, <1>2, TaskFlowBounds DEF Runs
<1>4. /\ DOMAIN conv = 1 .. Len(conv) /\ DOMAIN conv' = 1 .. Len(conv')
      /\ conv'[Len(conv')] = t /\ \A r \in DOMAIN conv : conv'[r] = conv[r]
  BY <1>1, <1>2 DEF RunTypes
<1>5. status' = [r \in Runs |-> IF r = Len(conv') THEN "queued" ELSE status[r]]
  BY <1>1, <1>2 DEF RunTypes
<1>. QED
  BY <1>2, <1>3, <1>4, <1>5 DEF RunTypes, StatusNames, Runs

LEMMA SettleTypes ==
    ASSUME RunTypes,
           NEW r \in Runs, RunQueue!Start(r) \/ RunQueue!CancelQueued(r) \/ RunQueue!Settle({r})
    PROVE  /\ RunTypes' /\ UNCHANGED conv
           /\ status[r] \in {"queued", "running"}
           /\ \A q \in Runs : q # r => status'[q] = status[q]
<1>1. CASE RunQueue!Start(r) \/ RunQueue!CancelQueued(r)
  BY <1>1 DEF RunQueue!Start, RunQueue!CancelQueued, RunTypes, StatusNames, RunQueue!Outcomes
<1>2. CASE RunQueue!Settle({r})
  <2>1. PICK how \in [{r} -> RunQueue!Outcomes] :
          status' = [q \in RunQueue!Runs |-> IF q \in {r} THEN how[q] ELSE status[q]]
    BY <1>2 DEF RunQueue!Settle
  <2>2. how[r] \in RunQueue!Outcomes /\ RunQueue!Runs = Runs
    BY DEF RunQueue!Runs, Runs
  <2>. QED
    BY <1>2, <2>1, <2>2 DEF RunTypes, StatusNames, RunQueue!Settle
<1>. QED
  BY <1>1, <1>2

LEMMA ClaimTypes ==
    ASSUME claim \in [Tasks -> ClaimRows], NEW t \in Tasks
    PROVE  /\ Released(t) \in [Tasks -> ClaimRows]
           /\ Inherited(claim) \in [Tasks -> ClaimRows]
           /\ Inherited(Released(t)) \in [Tasks -> ClaimRows]
           /\ [claim EXCEPT ![t].live = FALSE] \in [Tasks -> ClaimRows]
           /\ NoClaim \in ClaimRows
           /\ WaitsForRun(t) => claim' \in [Tasks -> ClaimRows]
<1>1. NoClaim \in ClaimRows
  BY DEF NoClaim, ClaimRows
<1>2. ASSUME NEW c \in [Tasks -> ClaimRows] PROVE Inherited(c) \in [Tasks -> ClaimRows]
  BY <1>2 DEF Inherited, ClaimRows
<1>3. Released(t) \in [Tasks -> ClaimRows]
  BY <1>1 DEF Released
<1>4. [claim EXCEPT ![t].live = FALSE] \in [Tasks -> ClaimRows]
  BY DEF ClaimRows
<1>5. ASSUME WaitsForRun(t) PROVE claim' \in [Tasks -> ClaimRows]
  <2>1. PICK b \in BOOLEAN : b = (claim[t].live \/ claim[t].owner = "me")
    OBVIOUS
  <2>2. claim' = [claim EXCEPT ![t].live = b]
    BY <1>5, <2>1 DEF WaitsForRun
  <2>. QED
    BY <2>2 DEF ClaimRows
<1>. QED
  BY <1>1, <1>2, <1>3, <1>4, <1>5

LEMMA RecordedTypes ==
    ASSUME Rest, NEW t \in Tasks, RunQueue!Submit(t), Recorded(t)
    PROVE  /\ attempts' \in [Tasks -> Seq(Runs)]
           /\ attempts' = [attempts EXCEPT ![t] = Append(attempts[t], Len(conv'))]
<1>1. Len(conv') \in Runs
  BY SubmitTypes DEF Rest, RunTypes
<1>. QED
  BY <1>1 DEF Rest, Recorded

LEMMA ClosedTypes ==
    ASSUME Rest, NEW t \in Tasks, Finished(t), Closed(t)
    PROVE  /\ Latest(t) \in Runs
           /\ outcome' = [outcome EXCEPT ![Latest(t)] = Written(t)]
           /\ outcome' \in [Runs -> OutcomeNames]
<1>1. attempts[t] \in Seq(Runs) /\ attempts[t] # <<>>
  BY DEF Rest, Finished
<1>2. Latest(t) \in Runs
  BY <1>1 DEF Latest
<1>3. Written(t) \in OutcomeNames
  <2>1. status[Latest(t)] \in RunQueue!Outcomes
    BY DEF Finished
  <2>. QED
    BY <2>1 DEF Written, OutcomeNames
<1>. QED
  BY <1>2, <1>3 DEF Closed, Rest

LEMMA RequestTypes ==
    ASSUME Rest,
           \/ Request
           \/ \E t \in Tasks, f \in Flows, P \in SUBSET Tasks : CreateTask(t, f, P)
    PROVE  Rest'
<1>1. ASSUME UNCHANGED <<attempts, outcome, conv, status, contract, pc, todo, gateway>>,
             flow' \in [Flows -> FlowStates \cup {"absent"}], claim' \in [Tasks -> ClaimRows]
      PROVE  Rest'
  BY <1>1 DEF Rest
<1>2. CASE \E t \in Tasks, f \in Flows, P \in SUBSET Tasks : CreateTask(t, f, P)
  BY <1>2, <1>1 DEF CreateTask, runs, Rest
<1>3. ASSUME NEW t \in Tasks, NEW u \in Tasks, AddDependency(t, u) \/ RemoveDependency(t, u)
      PROVE  Rest'
  BY <1>3, <1>1 DEF AddDependency, RemoveDependency, Edit, Rest
<1>4. ASSUME NEW t \in Tasks,
             \/ \E reason \in Reasons : BlockTask(t, reason)
             \/ UnblockTask(t) \/ \E s \in TaskStates : SetTask(t, s)
      PROVE  Rest'
  BY <1>4, <1>1 DEF BlockTask, UnblockTask, SetTask, Edit, Rest
<1>5. ASSUME NEW t \in Tasks, RetryTask(t) PROVE Rest'
  <2>1. claim' \in [Tasks -> ClaimRows]
    BY <1>5, ClaimTypes DEF RetryTask, Released, Rest
  <2>. QED
    BY <1>5, <1>1, <2>1 DEF RetryTask, Edit, Rest
<1>6. ASSUME NEW f \in Flows, NEW s \in FlowStates, SetFlow(f, s) PROVE Rest'
  BY <1>6, <1>1 DEF SetFlow, Edit, Rest
<1>7. ASSUME NEW D, Deleted(D), UNCHANGED <<conv, contract, pc, todo, gateway>>,
             flow' \in [Flows -> FlowStates \cup {"absent"}]
      PROVE  Rest'
  <2>1. attempts' \in [Tasks -> Seq(Runs)]
    BY <1>7 DEF Deleted, Rest
  <2>2. claim' \in [Tasks -> ClaimRows]
    BY <1>7 DEF Deleted, Rest, NoClaim, ClaimRows
  <2>. QED
    BY <1>7, <2>1, <2>2 DEF Deleted, Rest
<1>8. ASSUME NEW t \in Tasks, DeleteTask(t) PROVE Rest'
  BY <1>7, <1>8 DEF DeleteTask, Edit, Rest
<1>9. ASSUME NEW f \in Flows, DeleteFlow(f) PROVE Rest'
  BY <1>7, <1>9 DEF DeleteFlow, Edit, Rest
<1>10. ASSUME NEW r \in Runs, CancelRun(r) PROVE Rest'
  BY <1>10, SettleTypes DEF CancelRun, Edit, Rest, RunTypes, tables
<1>. QED
  BY <1>2, <1>3, <1>4, <1>5, <1>6, <1>8, <1>9, <1>10 DEF Request

LEMMA ReconcileTypes ==
    ASSUME Rest, NEW t \in Tasks, Reconcile(t) \/ CrashInReconcile(t)
    PROVE  Rest'
<1>1. UNCHANGED outcome \/ (Finished(t) /\ Closed(t))
  BY DEF Reconcile, CrashInReconcile, WaitsForAttempt, WaitsForRun, ReportsBlock, Decides, Reported
<1>2. outcome' \in [Runs -> OutcomeNames]
  BY <1>1, ClosedTypes DEF Rest
<1>3. claim' \in [Tasks -> ClaimRows]
  BY ClaimTypes DEF Rest, Reconcile, CrashInReconcile, WaitsForAttempt, ReportsBlock, Decides
<1>. QED
  BY <1>2, <1>3 DEF Rest, Reconcile, CrashInReconcile, Dies, runs

LEMMA SpawnTypes ==
    ASSUME Rest, NEW t \in Tasks, Spawn(t) \/ SpawnRaises(t) \/ CrashInSpawn(t)
    PROVE  Rest'
<1>1. UNCHANGED <<conv, status>> \/ RunQueue!Submit(t)
  BY DEF Spawn, SpawnRaises, CrashInSpawn, Submit, runs
<1>2. RunTypes'
  BY <1>1, SubmitTypes DEF Rest, RunTypes
<1>3. attempts' \in [Tasks -> Seq(Runs)]
  BY RecordedTypes DEF Spawn, SpawnRaises, CrashInSpawn, Submit, Rest
<1>4. claim' \in [Tasks -> ClaimRows]
  BY ClaimTypes DEF Spawn, SpawnRaises, CrashInSpawn, Rest
<1>5. flow' \in [Flows -> FlowStates \cup {"absent"}]
  BY DEF Spawn, SpawnRaises, CrashInSpawn, Rest, FlowStates
<1>. QED
  BY <1>2, <1>3, <1>4, <1>5 DEF Spawn, SpawnRaises, CrashInSpawn, Dies, Rest, RunTypes, runs

LEMMA OtherTypes ==
    ASSUME Rest,
           \/ Tick \/ Promote \/ Claim \/ EvaluateFlows \/ Crash \/ Boot
           \/ \E r \in Runs : RunStarts(r) \/ RunEnds(r)
           \/ \E t \in Tasks : LeaseExpires(t)
           \/ UNCHANGED vars
    PROVE  Rest'
<1>1. CASE Tick \/ Promote \/ Boot \/ UNCHANGED vars
  BY <1>1 DEF Tick, Promote, Boot, vars, tables, runs, Rest, In
<1>2. CASE Claim
  <2>1. PICK S \in SUBSET Claimable :
          /\ claim' = [t \in Tasks |-> IF t \in S THEN [owner |-> "me", live |-> TRUE] ELSE claim[t]]
          /\ todo' = S
    BY <1>2 DEF Claim
  <2>2. claim' \in [Tasks -> ClaimRows] /\ todo' \subseteq Tasks
    BY <2>1 DEF Rest, ClaimRows, Claimable, In
  <2>. QED
    BY <1>2, <2>2 DEF Claim, runs, Rest
<1>3. CASE EvaluateFlows
  <2>1. \A f \in Flows : FlowStatus(f) \in FlowStates
    BY DEF FlowStatus, FlowStates
  <2>2. flow' \in [Flows -> FlowStates \cup {"absent"}]
    BY <1>3, <2>1 DEF EvaluateFlows, Rest
  <2>. QED
    BY <1>3, <2>2 DEF EvaluateFlows, runs, Rest
<1>4. CASE Crash
  BY <1>4, ClaimTypes DEF Crash, Dies, runs, Rest, Inherited, ClaimRows
<1>5. ASSUME NEW r \in Runs, RunStarts(r) PROVE Rest'
  BY <1>5, SettleTypes DEF RunStarts, tables, Rest, RunTypes
<1>6. ASSUME NEW r \in Runs, RunEnds(r) PROVE Rest'
  <2>1. RunTypes'
    BY <1>6, SettleTypes DEF RunEnds, Rest, RunTypes
  <2>2. contract' \in [Runs -> Contracts]
    BY <1>6 DEF RunEnds, Rest
  <2>. QED
    BY <1>6, <2>1, <2>2 DEF RunEnds, tables, Rest, RunTypes
<1>7. ASSUME NEW t \in Tasks, LeaseExpires(t) PROVE Rest'
  BY <1>7, ClaimTypes DEF LeaseExpires, runs, Rest
<1>. QED
  BY <1>1, <1>2, <1>3, <1>4, <1>5, <1>6, <1>7

LEMMA RestNext ==
    ASSUME Rest, [Next]_vars
    PROVE  Rest'
BY RequestTypes, ReconcileTypes, SpawnTypes, OtherTypes DEF Next, TickStep

LEMMA CountersNext ==
    ASSUME Counters, [Next]_vars
    PROVE  Counters'
<1>1. CASE Request
  <2>1. Troubled /\ UNCHANGED lost /\ (UNCHANGED pushed \/ \E t \in Tasks : Pushes(t))
    BY <1>1 DEF Request, AddDependency, RemoveDependency, BlockTask, UnblockTask, RetryTask, SetTask,
                SetFlow, DeleteTask, DeleteFlow, Deleted, CancelRun, Edit
  <2>. QED
    BY <2>1, CountersKept
<1>2. CASE \/ \E t \in Tasks : SpawnRaises(t) \/ CrashInReconcile(t) \/ CrashInSpawn(t)
           \/ Crash
  <2>1. Lost /\ UNCHANGED pushed
    BY <1>2 DEF SpawnRaises, CrashInReconcile, CrashInSpawn, Crash, Dies
  <2>. QED
    BY <2>1, CountersKept
<1>3. CASE \/ \E t \in Tasks, f \in Flows, P \in SUBSET Tasks : CreateTask(t, f, P)
           \/ Tick \/ TickStep \/ Boot \/ UNCHANGED vars
           \/ \E r \in Runs : RunStarts(r) \/ RunEnds(r)
           \/ \E t \in Tasks : LeaseExpires(t)
  <2>1. UNCHANGED bounds
    BY <1>3 DEF CreateTask, Tick, TickStep, Promote, Claim, EvaluateFlows, Reconcile, Spawn, Boot,
                RunStarts, RunEnds, LeaseExpires, vars
  <2>. QED
    BY <2>1, CountersKept
<1>. QED
  BY <1>1, <1>2, <1>3 DEF Next

-----------------------------------------------------------------------------
(* What one step may make of a task, of its attempts and of its place      *)
(* among those the dispatcher has in hand.                                 *)

\* A claimed task whose run is not submitted yet.
InHand(t) == pc = "spawn" /\ t \in todo

\* The tasks the dispatcher handles are running, and it handles none between
\* its ticks.
Working ==
    /\ pc \in {"reconcile", "spawn"} => \A t \in todo : task[t].state = "RUNNING"
    /\ pc \in {"idle", "dispatch"} => todo = {}
    /\ gateway = "down" => pc = "idle"

Same(t) == attempts'[t] = attempts[t] /\ pushed'[t] = pushed[t]
From(t, S, R) == task[t].state \in S /\ task'[t].state \in R

Untouched(t) == Same(t) /\ task'[t].state = task[t].state /\ (InHand(t)' <=> InHand(t))
Deserted(t) == Same(t) /\ From(t, {"RUNNING"}, {"RUNNING"}) /\ InHand(t) /\ ~InHand(t)' /\ lost' = lost + 1
ByHand(t) ==
    /\ attempts'[t] = attempts[t] /\ pushed'[t] = pushed[t] + 1
    /\ task[t].state # "absent" /\ task'[t].state # "absent"
    /\ ~InHand(t) /\ ~InHand(t)'
Dropped(t) ==
    /\ attempts'[t] = <<>> /\ pushed'[t] = pushed[t]
    /\ task[t].state # "absent" /\ task'[t].state = "absent" /\ task'[t].flow # 0
    /\ ~InHand(t) /\ ~InHand(t)'
Born(t) == Same(t) /\ From(t, {"absent"}, {"READY", "TODO"}) /\ task[t].flow = 0 /\ ~InHand(t)'
Freed(t) == Same(t) /\ From(t, {"TODO"}, {"READY"}) /\ ~InHand(t)'
Held(t) == Same(t) /\ From(t, {"TODO", "READY"}, {"BLOCKED", "TRIAGE"}) /\ ~InHand(t)'
Claimed(t) == Same(t) /\ From(t, {"READY"}, {"RUNNING"}) /\ InHand(t)'
GivenBack(t) ==
    /\ Same(t) /\ From(t, {"RUNNING"}, {"READY"}) /\ ~InHand(t)'
    /\ IF InHand(t) THEN lost' = lost + 1 ELSE attempts[t] = <<>>
Judged(t) ==
    /\ Same(t) /\ From(t, {"RUNNING"}, {"BLOCKED", "TRIAGE", NextState(t)}) /\ ~InHand(t) /\ ~InHand(t)'
    /\ Finished(t) /\ Closed(t) /\ UNCHANGED runs
    /\ task'[t].state = "DONE" => Succeeded(t)
    /\ task'[t].state = "READY" => ~Exhausted(t)
Spawned(t) ==
    /\ RunQueue!Submit(t) /\ Recorded(t) /\ pushed'[t] = pushed[t] /\ From(t, {"RUNNING"}, {"RUNNING"})
    /\ InHand(t) /\ ~InHand(t)'

Fate(t) ==
    \/ Untouched(t) \/ Deserted(t) \/ ByHand(t) \/ Dropped(t) \/ Born(t) \/ Freed(t) \/ Held(t)
    \/ Claimed(t) \/ GivenBack(t) \/ Judged(t) \/ Spawned(t)

\* What becomes of the runs and of what is written of them.
RunsGoOn ==
    /\ UNCHANGED conv
    /\ \A r \in Runs :
          /\ status[r] \in RunQueue!Outcomes => status'[r] = status[r] /\ contract'[r] = contract[r]
          /\ status'[r] \in {"queued", "running"} => status[r] \in {"queued", "running"}
Submitted(t) ==
    /\ RunQueue!Submit(t) /\ UNCHANGED contract
    /\ InHand(t) /\ (Spawned(t) \/ Deserted(t) \/ GivenBack(t))
RunsFate == RunsGoOn \/ \E t \in Tasks : Submitted(t)
OutcomeFate ==
    \/ UNCHANGED outcome
    \/ \E t \in Tasks : task[t].state = "RUNNING" /\ Finished(t) /\ Closed(t)

\* Edges are added into tasks that are new, or moved by hand; no edge is left
\* at a task that goes; and a task is freed once its parents are done.
EdgesFate ==
    \A e \in needs' :
        /\ e \in needs \/ pushed'[e[2]] > 0 \/ task[e[2]].flow = 0
        /\ ~Dropped(e[1])
        /\ (Freed(e[2]) \/ (Born(e[2]) /\ task'[e[2]].state = "READY")) => task'[e[1]].state = "DONE"

Step == (\A t \in Tasks : Fate(t)) /\ RunsFate /\ OutcomeFate /\ EdgesFate /\ lost' >= lost

LEMMA BetweenTicks ==
    ASSUME Working, pc = "idle", UNCHANGED <<pc, todo, gateway>>
    PROVE  Working' /\ \A t \in Tasks : ~InHand(t) /\ ~InHand(t)'
BY DEF Working, InHand

LEMMA Counts == TypeOK => \A t \in Tasks : pushed[t] \in Nat /\ lost \in Nat
BY TaskFlowBounds DEF TypeOK

LEMMA RunsStay == UNCHANGED runs => RunsGoOn
BY DEF RunsGoOn, runs

(* A request that moves the task c by hand. *)
LEMMA MovesByHand ==
    ASSUME TypeOK, Working, pc = "idle", UNCHANGED <<pc, todo, gateway>>,
           NEW c \in Tasks, Pushes(c), task[c].state # "absent",
           NEW x, task' = [task EXCEPT ![c] = x], x.state # "absent",
           UNCHANGED <<attempts, outcome, runs, lost>>,
           \A e \in needs' : e \in needs \/ e[2] = c,
           needs' \subseteq Tasks \X Tasks
    PROVE  Step /\ Working'
<1>1. Working' /\ \A t \in Tasks : ~InHand(t) /\ ~InHand(t)'
  BY BetweenTicks
<1>2. /\ task'[c].state # "absent" /\ \A t \in Tasks : t # c => task'[t] = task[t]
      /\ pushed'[c] = pushed[c] + 1 /\ \A t \in Tasks : t # c => pushed'[t] = pushed[t]
      /\ \A t \in Tasks : attempts'[t] = attempts[t] /\ pushed[t] \in Nat /\ lost \in Nat
  BY Counts DEF TypeOK, Pushes
<1>3. ByHand(c) /\ \A t \in Tasks : t # c => Untouched(t)
  BY <1>1, <1>2 DEF ByHand, Untouched, Same
<1>4. \A t \in Tasks : Fate(t) /\ ~Dropped(t) /\ ~Freed(t) /\ ~Born(t)
  BY <1>2, <1>3 DEF Fate, Dropped, Freed, Born, Same, From
<1>. QED
  BY <1>1, <1>2, <1>3, <1>4, RunsStay DEF Step, RunsFate, OutcomeFate, EdgesFate

(* A step that leaves the tasks and the graph alone, and what is in hand. *)
LEMMA TasksStay ==
    ASSUME TypeOK, UNCHANGED <<task, needs, attempts, pushed>>,
           \A t \in Tasks : InHand(t)' <=> InHand(t),
           RunsGoOn, OutcomeFate, lost' >= lost
    PROVE  Step
<1>1. \A t \in Tasks : Untouched(t) /\ ~Dropped(t) /\ ~Freed(t) /\ ~Born(t)
  BY DEF Untouched, Same, Dropped, Freed, Born, From
<1>. QED
  BY <1>1 DEF Step, Fate, RunsFate, EdgesFate, TypeOK

LEMMA CreationStep ==
    ASSUME TypeOK, Graph, Working,
           NEW t \in Tasks, NEW f \in Flows, NEW P \in SUBSET Tasks, CreateTask(t, f, P)
    PROVE  Step /\ Working'
<1>. DEFINE ready == \A p \in P : task[p].state = "DONE"
            new == NewTask(f, IF ready THEN "READY" ELSE "TODO")
<1>1. /\ task[t] = NoTask /\ \A p \in P : task[p].state # "absent"
      /\ needs' = needs \cup (P \X {t})
      /\ task' = [task EXCEPT ![t] = new]
      /\ pc = "idle" /\ UNCHANGED <<pc, todo, gateway, attempts, outcome, runs, pushed, lost>>
  BY DEF CreateTask, Idle, bounds
<1>2. Working' /\ \A u \in Tasks : ~InHand(u) /\ ~InHand(u)'
  BY <1>1, BetweenTicks
<1>3. /\ new.state \in {"READY", "TODO"} /\ (new.state = "READY" => ready)
      /\ task[t].state = "absent" /\ task[t].flow = 0
  BY <1>1 DEF NewTask, NoTask
<1>4. /\ task'[t] = new /\ \A u \in Tasks : u # t => task'[u] = task[u]
      /\ \A u \in Tasks : attempts'[u] = attempts[u] /\ pushed'[u] = pushed[u]
  BY <1>1 DEF TypeOK
<1>. HIDE DEF new
<1>5. Born(t) /\ \A u \in Tasks : u # t => Untouched(u)
  BY <1>2, <1>3, <1>4 DEF Born, Untouched, Same, From
<1>6. \A u \in Tasks : /\ Fate(u) /\ ~Dropped(u) /\ ~Freed(u)
                       /\ u # t => ~Born(u)
  BY <1>3, <1>4, <1>5 DEF Fate, Dropped, Freed, Born, From
<1>7. \A e \in needs' : e[2] = t => e \in P \X {t} /\ e[1] \in P
  BY <1>1, <1>3 DEF Graph
<1>8. EdgesFate
  <2>. SUFFICES ASSUME NEW e \in needs'
                PROVE  /\ e \in needs \/ task[e[2]].flow = 0
                       /\ ~Dropped(e[1]) /\ ~Freed(e[2])
                       /\ (Born(e[2]) /\ task'[e[2]].state = "READY") => task'[e[1]].state = "DONE"
    BY DEF EdgesFate
  <2>1. e[1] \in Tasks /\ e[2] \in Tasks
    BY <1>1 DEF TypeOK
  <2>2. e \in needs \/ task[e[2]].flow = 0
    BY <1>1, <1>3
  <2>3. ASSUME Born(e[2]), task'[e[2]].state = "READY" PROVE task'[e[1]].state = "DONE"
    <3>1. e[2] = t
      BY <1>6, <2>1, <2>3
    <3>2. e[1] \in P /\ ready
      BY <1>3, <1>4, <1>7, <2>3, <3>1
    <3>. QED
      BY <1>3, <1>4, <2>1, <3>2
  <2>. QED
    BY <1>6, <2>1, <2>2, <2>3
<1>9. lost' >= lost
  BY <1>1, TaskFlowBounds DEF TypeOK
<1>. QED
  BY <1>1, <1>2, <1>6, <1>8, <1>9, RunsStay DEF Step, RunsFate, OutcomeFate

(* The rows that requests write. *)
LEMMA RequestRows ==
    ASSUME TypeOK, NEW c \in Tasks, task[c].state # "absent"
    PROVE  /\ \A s \in TaskStates : Moved(task[c], s).state = s /\ s # "absent"
           /\ \A reason \in Reasons : Blocked(task[c], reason).state \in {"TRIAGE", "BLOCKED"}
<1>1. task[c] \in Rows
  BY DEF TypeOK
<1>. QED
  BY <1>1 DEF Moved, Blocked, Rows, TaskStates

LEMMA DependencyStep ==
    ASSUME TypeOK, Graph, Working, NEW p \in Tasks, NEW c \in Tasks,
           AddDependency(p, c) \/ RemoveDependency(p, c)
    PROVE  Step /\ Working'
<1>1. /\ pc = "idle" /\ UNCHANGED <<pc, todo, gateway, attempts, outcome, runs, lost>>
      /\ task' = Evaluated(needs', c)
      /\ \A e \in needs' : e \in needs \/ e[2] = c
      /\ needs' \subseteq Tasks \X Tasks
  BY DEF AddDependency, RemoveDependency, Edit, Idle, runs, TypeOK
<1>2. Working' /\ \A u \in Tasks : ~InHand(u) /\ ~InHand(u)'
  BY <1>1, BetweenTicks
<1>. DEFINE parents == {q \in Tasks : <<q, c>> \in needs'}
<1>3. \/ UNCHANGED task
      \/ /\ task' = [task EXCEPT ![c] = Moved(task[c], "READY")]
         /\ task[c].state \in {"TODO", "TRIAGE"}
         /\ \A q \in parents : task[q].state = "DONE"
  BY <1>1 DEF Evaluated
<1>4. task[c].state # "absent" => Moved(task[c], "READY").state = "READY"
  BY RequestRows DEF TaskStates
<1>5. CASE Pushes(c) /\ task[c].state # "absent"
  <2>1. task' = [task EXCEPT ![c] = task'[c]] /\ task'[c].state # "absent"
    BY <1>3, <1>4, <1>5 DEF TypeOK
  <2>. QED
    BY <1>1, <1>5, <2>1, MovesByHand
<1>6. CASE UNCHANGED <<task, pushed>> /\ needs' \subseteq needs
  <2>1. \A t \in Tasks : Untouched(t) /\ ~Dropped(t) /\ ~Freed(t) /\ ~Born(t)
    BY <1>1, <1>2, <1>6 DEF Untouched, Same, Dropped, Freed, Born, From
  <2>2. lost' >= lost
    BY <1>1, TaskFlowBounds DEF TypeOK
  <2>3. EdgesFate
    BY <1>1, <1>6, <2>1 DEF EdgesFate
  <2>. QED
    BY <1>1, <1>2, <2>1, <2>2, <2>3, RunsStay DEF Step, Fate, RunsFate, OutcomeFate
<1>7. CASE /\ UNCHANGED pushed /\ needs' \subseteq needs
           /\ task' = [task EXCEPT ![c] = Moved(task[c], "READY")]
           /\ task[c].state = "TODO"
           /\ \A q \in parents : task[q].state = "DONE"
  <2>1. /\ task'[c].state = "READY" /\ \A u \in Tasks : u # c => task'[u] = task[u]
        /\ \A u \in Tasks : attempts'[u] = attempts[u] /\ pushed'[u] = pushed[u]
    BY <1>1, <1>4, <1>7 DEF TypeOK
  <2>2. Freed(c) /\ \A u \in Tasks : u # c => Untouched(u)
    BY <1>2, <1>7, <2>1 DEF Freed, Untouched, Same, From
  <2>3. \A u \in Tasks : Fate(u) /\ ~Dropped(u) /\ ~Born(u) /\ (u # c => ~Freed(u))
    BY <1>7, <2>1, <2>2 DEF Fate, Dropped, Born, Freed, From
  <2>4. \A q \in parents : task'[q].state = "DONE"
    BY <1>7, <2>1
  <2>5. EdgesFate
    BY <1>1, <1>7, <2>3, <2>4 DEF EdgesFate
  <2>6. lost' >= lost
    BY <1>1, TaskFlowBounds DEF TypeOK
  <2>. QED
    BY <1>1, <1>2, <2>3, <2>5, <2>6, RunsStay DEF Step, RunsFate, OutcomeFate
<1>8. CASE AddDependency(p, c)
  BY <1>5, <1>8 DEF AddDependency
<1>9. CASE RemoveDependency(p, c)
  <2>1. needs' \subseteq needs
    BY <1>9 DEF RemoveDependency
  <2>2. \/ Pushes(c) /\ task[c].state = "TRIAGE"
        \/ UNCHANGED pushed /\ (task[c].state # "TRIAGE" \/ UNCHANGED task)
    BY <1>9 DEF RemoveDependency
  <2>. QED
    BY <1>3, <1>5, <1>6, <1>7, <2>1, <2>2
<1>. QED
  BY <1>8, <1>9

LEMMA MoveStep ==
    ASSUME TypeOK, Working, NEW c \in Tasks,
           \/ \E reason \in Reasons : BlockTask(c, reason)
           \/ UnblockTask(c) \/ RetryTask(c)
           \/ \E s \in TaskStates : SetTask(c, s)
    PROVE  Step /\ Working'
<1>1. /\ pc = "idle" /\ UNCHANGED <<pc, todo, gateway, needs, attempts, outcome, runs, lost>>
      /\ Pushes(c) /\ task[c].state # "absent" /\ needs \subseteq Tasks \X Tasks
  BY DEF BlockTask, UnblockTask, RetryTask, SetTask, Edit, Idle, runs, TypeOK
<1>2. ASSUME NEW x, task' = [task EXCEPT ![c] = x], x.state # "absent" PROVE Step /\ Working'
  BY <1>1, <1>2, MovesByHand
<1>3. ASSUME NEW reason \in Reasons, BlockTask(c, reason) PROVE Step /\ Working'
  <2>1. task' = [task EXCEPT ![c] = Blocked(task[c], reason)]
    BY <1>3 DEF BlockTask
  <2>. QED
    BY <1>1, <1>2, <2>1, RequestRows
<1>4. ASSUME NEW s \in TaskStates, task' = [task EXCEPT ![c] = Moved(task[c], s)]
      PROVE  Step /\ Working'
  BY <1>1, <1>2, <1>4, RequestRows
<1>5. CASE UnblockTask(c)
  <2>1. task' = [task EXCEPT ![c] = task'[c]] /\ task'[c].state # "absent"
    BY <1>5 DEF UnblockTask, TypeOK, Rows
  <2>. QED
    BY <1>2, <2>1
<1>6. CASE RetryTask(c)
  BY <1>4, <1>6 DEF RetryTask, TaskStates
<1>7. ASSUME NEW s \in TaskStates, SetTask(c, s) PROVE Step /\ Working'
  BY <1>4, <1>7 DEF SetTask
<1>. QED
  BY <1>3, <1>5, <1>6, <1>7

LEMMA DeletionStep ==
    ASSUME TypeOK, Graph, Working, NEW D, Deleted(D), \A t \in D : task[t].state # "absent",
           pc = "idle", UNCHANGED <<pc, todo, gateway, conv, contract, lost>>
    PROVE  Step /\ Working'
<1>1. Working' /\ \A u \in Tasks : ~InHand(u) /\ ~InHand(u)'
  BY BetweenTicks
<1>2. /\ \A t \in Tasks : t \notin D => task'[t] = task[t] /\ attempts'[t] = attempts[t]
      /\ \A t \in Tasks : t \in D => /\ task'[t].state = "absent" /\ task'[t].flow = task[t].flow
                                     /\ attempts'[t] = <<>>
      /\ UNCHANGED <<outcome, status, pushed>>
      /\ needs' = {e \in needs : {e[1], e[2]} \cap D = {}}
  BY DEF Deleted, NoTask
<1>3. \A t \in Tasks : /\ t \in D => Dropped(t)
                       /\ t \notin D => Untouched(t) /\ ~Dropped(t)
                       /\ ~Freed(t) /\ ~Born(t)
  BY <1>1, <1>2 DEF Dropped, Untouched, Same, Freed, Born, From, Graph
<1>4. EdgesFate
  BY <1>2, <1>3 DEF EdgesFate, TypeOK
<1>5. lost' >= lost
  BY TaskFlowBounds DEF TypeOK
<1>. QED
  BY <1>1, <1>2, <1>3, <1>4, <1>5, RunsStay DEF Step, Fate, RunsFate, OutcomeFate, runs

LEMMA QuietSteps ==
    ASSUME TypeOK, Working,
           \/ \E r \in Runs : CancelRun(r) \/ RunStarts(r) \/ RunEnds(r)
           \/ \E f \in Flows, s \in FlowStates : SetFlow(f, s)
           \/ \E t \in Tasks : LeaseExpires(t)
           \/ Tick \/ EvaluateFlows \/ Boot \/ UNCHANGED vars
    PROVE  Step /\ Working'
<1>0. lost \in Nat
  BY TaskFlowBounds DEF TypeOK
<1>1. UNCHANGED <<task, needs, attempts, pushed, lost, outcome>>
  BY DEF CancelRun, RunStarts, RunEnds, SetFlow, LeaseExpires, Tick, EvaluateFlows, Boot,
         Edit, vars, tables, bounds
<1>2. RunsGoOn
  <2>1. ASSUME NEW r \in Runs, CancelRun(r) \/ RunStarts(r) \/ RunEnds(r) PROVE RunsGoOn
    <3>1. /\ UNCHANGED conv /\ status[r] \in {"queued", "running"}
          /\ \A q \in Runs : q # r => status'[q] = status[q]
      BY <2>1, SettleTypes DEF TypeOK, RunTypes, StatusNames, CancelRun, RunStarts, RunEnds
    <3>2. \A q \in Runs : q # r => contract'[q] = contract[q]
      BY <2>1 DEF TypeOK, CancelRun, RunStarts, RunEnds, Edit
    <3>. QED
      BY <3>1, <3>2 DEF RunsGoOn, RunQueue!Outcomes
  <2>. QED
    BY <2>1, RunsStay
       DEF SetFlow, LeaseExpires, Tick, EvaluateFlows, Boot, Edit, vars, runs
<1>3. /\ \A t \in Tasks : InHand(t)' <=> InHand(t)
      /\ Working'
  <2>1. CASE UNCHANGED <<pc, todo, gateway>>
    BY <1>1, <2>1 DEF InHand, Working
  <2>2. CASE Tick
    BY <1>1, <2>2 DEF Tick, At, In, InHand, Working
  <2>3. CASE EvaluateFlows
    BY <1>1, <2>3 DEF EvaluateFlows, At, InHand, Working
  <2>4. CASE Boot
    BY <1>1, <2>4 DEF Boot, InHand, Working
  <2>. QED
    BY <2>1, <2>2, <2>3, <2>4 DEF CancelRun, RunStarts, RunEnds, SetFlow, LeaseExpires, Edit, vars
<1>4. lost' >= lost
  BY <1>0, <1>1
<1>. QED
  BY <1>1, <1>2, <1>3, <1>4, TasksStay DEF OutcomeFate

LEMMA PromotedFate ==
    ASSUME NEW T, Keep(T), NEW F, NEW u \in Tasks
    PROVE  \/ Promoted(T, F)[u] = T[u]
           \/ /\ T[u].state = "TODO" /\ Promoted(T, F)[u].state = "READY"
              /\ \A p \in Parents(u) : Promoted(T, F)[p].state = "DONE"
<1>1. \A t \in Tasks : T[t].state # "TODO" => Promoted(T, F)[t] = T[t]
  BY DEF Promoted
<1>2. Moved(T[u], "READY").state = "READY"
  BY DEF Keep, Moved, Rows
<1>3. \A p \in Parents(u) : p \in Tasks
  BY DEF Parents
<1>. QED
  BY <1>1, <1>2, <1>3 DEF Promoted, ParentsDone, Parents

LEMMA PromoteStep ==
    ASSUME TypeOK, Graph, Working, Promote
    PROVE  Step /\ Working'
<1>1. PICK F : task' = Promoted(task, F)
  BY DEF Promote
<1>2. /\ pc = "reconcile" /\ todo = {} /\ pc' = "dispatch" /\ gateway = "up"
      /\ UNCHANGED <<todo, gateway, needs, attempts, outcome, runs, pushed, lost>>
  BY DEF Promote, At, bounds
<1>3. Working' /\ \A t \in Tasks : ~InHand(t) /\ ~InHand(t)'
  BY <1>2 DEF Working, InHand
<1>4. \A u \in Tasks :
          \/ task'[u] = task[u]
          \/ /\ task[u].state = "TODO" /\ task'[u].state = "READY"
             /\ \A p \in Parents(u) : task'[p].state = "DONE"
  BY <1>1, GraphKeep, PromotedFate
<1>5. \A u \in Tasks : /\ Untouched(u) \/ Freed(u)
                       /\ ~Dropped(u) /\ ~Born(u)
                       /\ Freed(u) => \A p \in Parents(u) : task'[p].state = "DONE"
  BY <1>2, <1>3, <1>4 DEF Untouched, Freed, Same, Dropped, Born, From
<1>6. EdgesFate
  BY <1>2, <1>5 DEF EdgesFate, TypeOK, Parents
<1>7. lost' >= lost
  BY <1>2, Counts, TaskFlowBounds DEF TypeOK
<1>. QED
  BY <1>2, <1>3, <1>5, <1>6, <1>7, RunsStay DEF Step, Fate, RunsFate, OutcomeFate

LEMMA ClaimStep ==
    ASSUME TypeOK, Graph, Working, Claim
    PROVE  Step /\ Working'
<1>1. PICK S \in SUBSET Claimable :
        /\ task' = [t \in Tasks |-> IF t \in S THEN [task[t] EXCEPT !.state = "RUNNING"]
                                    ELSE task[t]]
        /\ todo' = S
  BY DEF Claim
<1>2. /\ pc = "dispatch" /\ pc' = "spawn" /\ gateway = "up"
      /\ UNCHANGED <<gateway, needs, attempts, outcome, runs, pushed, lost>>
  BY DEF Claim, At, bounds
<1>3. \A t \in S : t \in Tasks /\ task[t].state = "READY"
  BY DEF Claimable, In
<1>4. \A t \in Tasks : /\ t \in S => task'[t].state = "RUNNING"
                       /\ t \notin S => task'[t] = task[t]
  BY <1>1 DEF TypeOK, Rows
<1>5. Working' /\ \A t \in Tasks : ~InHand(t) /\ (InHand(t)' <=> t \in S)
  BY <1>1, <1>2, <1>3, <1>4 DEF Working, InHand
<1>6. \A t \in Tasks : /\ t \in S => Claimed(t)
                       /\ t \notin S => Untouched(t)
                       /\ ~Dropped(t) /\ ~Freed(t) /\ ~Born(t)
  BY <1>2, <1>3, <1>4, <1>5 DEF Claimed, Untouched, Same, From, Dropped, Freed, Born
<1>7. EdgesFate
  BY <1>2, <1>6 DEF EdgesFate, TypeOK
<1>8. lost' >= lost
  BY <1>2, Counts, TaskFlowBounds DEF TypeOK
<1>. QED
  BY <1>2, <1>5, <1>6, <1>7, <1>8, RunsStay DEF Step, Fate, RunsFate, OutcomeFate

(* What the rest of the tasks see of one that is judged. *)
LEMMA FollowedFate ==
    ASSUME TypeOK, Graph, NEW t \in Tasks, t \in todo, task[t].state = "RUNNING",
           NEW T, T = Followed(t) \/ T = Decided(t)
    PROVE  /\ T[t].state = NextState(t)
           /\ \A u \in Tasks \ {t} :
                 \/ T[u] = task[u]
                 \/ /\ task[u].state = "TODO" /\ T[u].state = "READY"
                    /\ \A p \in Parents(u) : T[p].state = "DONE"
                 \/ task[u].state \in {"TODO", "READY"} /\ T[u].state \in {"BLOCKED", "TRIAGE"}
<1>1. NextState(t) \in {"DONE", "FAILED", "READY"} /\ Keep(Decided(t))
  BY FollowedRows DEF NextState
<1>2. Decided(t)[t].state = NextState(t) /\ \A u \in Tasks \ {t} : Decided(t)[u] = task[u]
  BY DEF Decided, Moved, TypeOK, Rows
<1>3. CASE T = Decided(t)
  BY <1>2, <1>3
<1>4. CASE T = Promoted(Decided(t), {task[t].flow})
  <2>1. \A u \in Tasks :
          \/ T[u] = Decided(t)[u]
          \/ /\ Decided(t)[u].state = "TODO" /\ T[u].state = "READY"
             /\ \A p \in Parents(u) : T[p].state = "DONE"
    <3>. DEFINE D == Decided(t)
                F == {task[t].flow}
    <3>1. Keep(D) /\ T = Promoted(D, F)
      BY <1>1, <1>4
    <3>. HIDE DEF D, F
    <3>2. \A u \in Tasks :
            \/ T[u] = D[u]
            \/ /\ D[u].state = "TODO" /\ T[u].state = "READY"
               /\ \A p \in Parents(u) : T[p].state = "DONE"
      BY <3>1, PromotedFate
    <3>. QED
      BY <3>2 DEF D
  <2>. QED
    BY <1>1, <1>2, <2>1
<1>5. CASE T = ChildrenBlocked(Decided(t), t) /\ NextState(t) = "FAILED"
  <2>1. \A u \in Tasks :
          \/ T[u] = Decided(t)[u]
          \/ Decided(t)[u].state \in {"TODO", "READY"} /\ T[u].state \in {"BLOCKED", "TRIAGE"}
    <3>1. \A u \in Tasks : Blocked(Decided(t)[u], "dependency").state \in {"BLOCKED", "TRIAGE"}
      BY <1>1 DEF Keep, Blocked, Rows
    <3>. QED
      BY <1>5, <3>1 DEF ChildrenBlocked
  <2>. QED
    BY <1>2, <1>5, <2>1
<1>. QED
  BY <1>3, <1>4, <1>5 DEF Followed, NextState

(* One task is judged, and what it held up or promised goes on.            *)
LEMMA JudgedStep ==
    ASSUME TypeOK, Graph, Working, NEW t \in Tasks, t \in todo, pc = "reconcile",
           pc' \in {"reconcile", "idle"}, todo' \subseteq todo \ {t}, pc' = "idle" => todo' = {},
           gateway' = "down" => pc' = "idle",
           Finished(t), Closed(t), UNCHANGED <<needs, attempts, runs, pushed>>, lost' >= lost,
           \/ (task' = Followed(t) \/ task' = Decided(t)) /\ ~Reported(t, {"blocked"})
           \/ \E reason \in Reasons : task' = [task EXCEPT ![t] = Blocked(@, reason)]
    PROVE  Step /\ Working'
<1>1. task[t].state = "RUNNING" /\ \A u \in Tasks : ~InHand(u) /\ ~InHand(u)'
  BY DEF Working, InHand
<1>2. /\ task'[t].state \in {"BLOCKED", "TRIAGE", NextState(t)}
      /\ task'[t].state = "DONE" => Succeeded(t)
      /\ task'[t].state = "READY" => ~Exhausted(t)
      /\ \A u \in Tasks \ {t} :
            \/ task'[u] = task[u]
            \/ /\ task[u].state = "TODO" /\ task'[u].state = "READY"
               /\ \A p \in Parents(u) : task'[p].state = "DONE"
            \/ task[u].state \in {"TODO", "READY"} /\ task'[u].state \in {"BLOCKED", "TRIAGE"}
  <2>1. CASE \E reason \in Reasons : task' = [task EXCEPT ![t] = Blocked(@, reason)]
    <3>1. \A reason \in Reasons : Blocked(task[t], reason).state \in {"BLOCKED", "TRIAGE"}
      BY <1>1, RequestRows
    <3>. QED
      BY <2>1, <3>1 DEF TypeOK
  <2>2. CASE (task' = Followed(t) \/ task' = Decided(t)) /\ ~Reported(t, {"blocked"})
    <3>1. /\ NextState(t) = "DONE" => Succeeded(t)
          /\ NextState(t) = "READY" => ~Exhausted(t)
      BY DEF NextState
    <3>. QED
      BY <1>1, <2>2, <3>1, FollowedFate
  <2>. QED
    BY <2>1, <2>2
<1>3. Judged(t)
  BY <1>1, <1>2 DEF Judged, Same, From
<1>4. \A u \in Tasks \ {t} :
          /\ Untouched(u) \/ Held(u) \/ Freed(u)
          /\ Freed(u) => \A p \in Parents(u) : task'[p].state = "DONE"
          /\ ~Dropped(u) /\ ~Born(u)
          /\ task[u].state = "RUNNING" => task'[u].state = "RUNNING"
  BY <1>1, <1>2 DEF Untouched, Held, Freed, Dropped, Born, Same, From
<1>5. ~Dropped(t) /\ ~Born(t) /\ ~Freed(t)
  BY <1>1, <1>2 DEF Dropped, Born, Freed, From, NextState
<1>6. EdgesFate
  BY <1>4, <1>5 DEF EdgesFate, TypeOK, Parents
<1>7. Working'
  BY <1>1, <1>4 DEF Working, TypeOK
<1>8. OutcomeFate
  BY <1>1 DEF OutcomeFate
<1>. QED
  BY <1>3, <1>4, <1>6, <1>7, <1>8, RunsStay DEF Step, Fate, RunsFate

LEMMA ReconcileStep ==
    ASSUME TypeOK, Graph, Working, NEW t \in Tasks, Reconcile(t)
    PROVE  Step /\ Working'
<1>1. /\ pc = "reconcile" /\ t \in todo /\ todo' = todo \ {t}
      /\ UNCHANGED <<needs, attempts, runs, pc, gateway, pushed, lost>>
      /\ gateway = "up"
  BY DEF Reconcile, At, bounds
<1>2. lost' >= lost
  BY <1>1, TaskFlowBounds DEF TypeOK
<1>3. CASE ReportsBlock(t) \/ Decides(t)
  <2>1. Finished(t) /\ Closed(t)
    BY <1>3 DEF ReportsBlock, Decides, Reported
  <2>2. \/ (task' = Followed(t) \/ task' = Decided(t)) /\ ~Reported(t, {"blocked"})
        \/ \E reason \in Reasons : task' = [task EXCEPT ![t] = Blocked(@, reason)]
    BY <1>3 DEF ReportsBlock, Decides
  <2>. QED
    BY <1>1, <1>2, <2>1, <2>2, JudgedStep
<1>4. /\ task[t].state = "RUNNING" /\ \A u \in todo : task[u].state = "RUNNING"
      /\ \A u \in Tasks : ~InHand(u) /\ ~InHand(u)'
  BY <1>1 DEF Working, InHand
<1>5. CASE UNCHANGED <<task, outcome>>
  <2>1. Working'
    BY <1>1, <1>5 DEF Working
  <2>. QED
    BY <1>1, <1>2, <1>4, <1>5, <2>1, TasksStay, RunsStay DEF OutcomeFate
<1>6. CASE /\ attempts[t] = <<>> /\ UNCHANGED outcome
           /\ task' = [task EXCEPT ![t] = Moved(@, "READY")]
  <2>1. task'[t].state = "READY" /\ \A u \in Tasks : u # t => task'[u] = task[u]
    BY <1>6 DEF Moved, TypeOK, Rows
  <2>2. GivenBack(t) /\ \A u \in Tasks : u # t => Untouched(u)
    BY <1>1, <1>4, <1>6, <2>1 DEF GivenBack, Untouched, Same, From
  <2>3. \A u \in Tasks : ~Dropped(u) /\ ~Born(u) /\ ~Freed(u)
    BY <1>4, <2>1 DEF Dropped, Born, Freed, From
  <2>4. Working'
    BY <1>1, <1>4, <2>1 DEF Working, TypeOK
  <2>5. EdgesFate
    BY <1>1, <2>3 DEF EdgesFate, TypeOK
  <2>. QED
    BY <1>1, <1>2, <1>6, <2>2, <2>4, <2>5, RunsStay DEF Step, Fate, RunsFate, OutcomeFate
<1>. QED
  BY <1>3, <1>5, <1>6 DEF Reconcile, WaitsForAttempt, WaitsForRun

LEMMA MoreLost == TypeOK /\ Lost => lost' = lost + 1 /\ lost' >= lost
BY TaskFlowBounds DEF Lost, TypeOK

LEMMA CrashInReconcileStep ==
    ASSUME TypeOK, Graph, Working, NEW t \in Tasks, CrashInReconcile(t)
    PROVE  Step /\ Working'
<1>1. /\ pc = "reconcile" /\ t \in todo /\ todo' = {} /\ pc' = "idle" /\ gateway' = "down"
      /\ UNCHANGED <<needs, attempts, runs, pushed>> /\ Finished(t) /\ Closed(t)
      /\ lost' >= lost
  BY MoreLost DEF CrashInReconcile, At, Dies
<1>2. CASE ~Reported(t, {"blocked"}) /\ task' = Decided(t)
  BY <1>1, <1>2, JudgedStep
<1>3. CASE UNCHANGED task
  <2>1. Working' /\ \A u \in Tasks : InHand(u)' <=> InHand(u)
    BY <1>1 DEF Working, InHand
  <2>2. OutcomeFate
    BY <1>1 DEF OutcomeFate, Working
  <2>. QED
    BY <1>1, <1>3, <2>1, <2>2, TasksStay, RunsStay
<1>. QED
  BY <1>2, <1>3 DEF CrashInReconcile

LEMMA SpawnStep ==
    ASSUME TypeOK, Graph, Working, NEW t \in Tasks,
           Spawn(t) \/ (CrashInSpawn(t) /\ Recorded(t))
    PROVE  Step /\ Working'
<1>1. /\ pc = "spawn" /\ t \in todo /\ RunQueue!Submit(t) /\ Recorded(t) /\ gateway = "up"
      /\ UNCHANGED <<task, needs, outcome, contract, pushed>>
      /\ \/ todo' = todo \ {t} /\ UNCHANGED <<pc, gateway, lost>>
         \/ todo' = {} /\ pc' = "idle" /\ lost' = lost + 1
  BY MoreLost DEF Spawn, CrashInSpawn, Submit, At, Dies, bounds
<1>2. task[t].state = "RUNNING" /\ \A u \in todo : task[u].state = "RUNNING"
  BY <1>1 DEF Working
<1>3. Working'
  BY <1>1, <1>2 DEF Working
<1>4. Spawned(t)
  BY <1>1, <1>2 DEF Spawned, From, InHand
<1>5. \A u \in Tasks : u # t => attempts'[u] = attempts[u]
  BY <1>1 DEF Recorded, TypeOK
<1>6. \A u \in Tasks : u # t => Untouched(u) \/ Deserted(u)
  BY <1>1, <1>2, <1>5 DEF Untouched, Deserted, Same, From, InHand
<1>7. \A u \in Tasks : ~Dropped(u) /\ ~Born(u) /\ ~Freed(u)
  BY <1>1 DEF Dropped, Born, Freed, From
<1>8. EdgesFate /\ lost' >= lost
  BY <1>1, <1>7, TaskFlowBounds DEF EdgesFate, TypeOK
<1>9. Submitted(t)
  BY <1>1, <1>4 DEF Submitted, Spawned
<1>. QED
  BY <1>1, <1>3, <1>4, <1>6, <1>8, <1>9 DEF Step, Fate, RunsFate, OutcomeFate

LEMMA SpawnFailsStep ==
    ASSUME TypeOK, Graph, Working, NEW t \in Tasks,
           \/ SpawnRaises(t)
           \/ CrashInSpawn(t) /\ UNCHANGED attempts
    PROVE  Step /\ Working'
<1>1. /\ pc = "spawn" /\ t \in todo /\ gateway = "up"
      /\ (RunQueue!Submit(t) /\ UNCHANGED contract) \/ UNCHANGED runs
      /\ UNCHANGED <<needs, attempts, outcome, pushed>>
      /\ lost' = lost + 1 /\ lost' >= lost
      /\ \/ /\ todo' = todo \ {t} /\ UNCHANGED <<pc, gateway>>
            /\ task' = [task EXCEPT ![t] = Moved(@, "READY")]
         \/ /\ todo' = {} /\ pc' = "idle" /\ UNCHANGED task
            /\ RunQueue!Submit(t)
  <2>1. CASE SpawnRaises(t)
    BY <2>1, MoreLost DEF SpawnRaises, Submit, At
  <2>2. CASE CrashInSpawn(t) /\ UNCHANGED attempts
    BY <2>2, MoreLost DEF CrashInSpawn, Submit, At, Dies
  <2>. QED
    BY <2>1, <2>2
<1>2. task[t].state = "RUNNING" /\ \A u \in todo : task[u].state = "RUNNING"
  BY <1>1 DEF Working
<1>3. Moved(task[t], "READY").state = "READY"
  BY DEF Moved, TypeOK, Rows
<1>4. /\ task'[t].state \in {"READY", "RUNNING"} /\ (task'[t].state = "RUNNING" => todo' = {})
      /\ \A u \in Tasks : u # t => task'[u] = task[u]
  BY <1>1, <1>2, <1>3 DEF TypeOK
<1>5. GivenBack(t) \/ Deserted(t)
  BY <1>1, <1>2, <1>4 DEF GivenBack, Deserted, Same, From, InHand
<1>6. \A u \in Tasks : u # t => Untouched(u) \/ Deserted(u)
  BY <1>1, <1>2, <1>4 DEF Untouched, Deserted, Same, From, InHand
<1>7. \A u \in Tasks : ~Dropped(u) /\ ~Born(u) /\ ~Freed(u)
  BY <1>2, <1>4 DEF Dropped, Born, Freed, From
<1>8. EdgesFate
  BY <1>1, <1>7 DEF EdgesFate, TypeOK
<1>9. RunsFate
  <2>1. InHand(t)
    BY <1>1 DEF InHand
  <2>. QED
    BY <1>1, <1>5, <2>1, RunsStay DEF RunsFate, Submitted
<1>10. Working'
  BY <1>1, <1>2, <1>4 DEF Working, TypeOK
<1>. QED
  BY <1>1, <1>5, <1>6, <1>8, <1>9, <1>10 DEF Step, Fate, OutcomeFate

LEMMA CrashStep ==
    ASSUME TypeOK, Working, Crash
    PROVE  Step /\ Working'
<1>1. /\ UNCHANGED <<task, needs, attempts, outcome, runs, pushed>>
      /\ todo' = {} /\ pc' = "idle" /\ lost' = lost + 1 /\ lost' >= lost
  BY MoreLost DEF Crash, Dies
<1>2. Working'
  BY <1>1 DEF Working
<1>3. \A u \in Tasks : Untouched(u) \/ Deserted(u)
  BY <1>1 DEF Untouched, Deserted, Same, From, InHand, Working
<1>4. \A u \in Tasks : ~Dropped(u) /\ ~Born(u) /\ ~Freed(u)
  BY <1>1 DEF Dropped, Born, Freed, From
<1>5. EdgesFate
  BY <1>1, <1>4 DEF EdgesFate, TypeOK
<1>. QED
  BY <1>1, <1>2, <1>3, <1>5, RunsStay DEF Step, Fate, RunsFate, OutcomeFate

(* Every step is a Step. *)
LEMMA StepNext ==
    ASSUME TypeOK, Graph, Working, [Next]_vars
    PROVE  Step /\ Working'
<1>1. CASE Request
  <2>1. ASSUME NEW t \in Tasks, DeleteTask(t) PROVE Step /\ Working'
    <3>1. /\ Deleted({t}) /\ task[t].state # "absent" /\ pc = "idle"
          /\ UNCHANGED <<pc, todo, gateway, conv, contract, lost>>
      BY <2>1 DEF DeleteTask, Edit, Idle
    <3>2. \A u \in {t} : task[u].state # "absent"
      BY <3>1
    <3>. QED
      BY <3>1, <3>2, DeletionStep
  <2>2. ASSUME NEW f \in Flows, DeleteFlow(f) PROVE Step /\ Working'
    <3>1. /\ Deleted(Of(f)) /\ \A t \in Of(f) : task[t].state # "absent"
          /\ pc = "idle" /\ UNCHANGED <<pc, todo, gateway, conv, contract, lost>>
      BY <2>2 DEF DeleteFlow, Edit, Idle, Of
    <3>. QED
      BY <3>1, DeletionStep
  <2>. QED
    BY <1>1, <2>1, <2>2, DependencyStep, MoveStep, QuietSteps DEF Request
<1>2. CASE Tick \/ TickStep \/ \E t \in Tasks : SpawnRaises(t)
  BY <1>2, QuietSteps, PromoteStep, ClaimStep, ReconcileStep, SpawnStep, SpawnFailsStep DEF TickStep
<1>3. ASSUME NEW t \in Tasks, CrashInSpawn(t) PROVE Step /\ Working'
  BY <1>3, SpawnStep, SpawnFailsStep DEF CrashInSpawn
<1>. QED
  BY <1>1, <1>2, <1>3, CreationStep, QuietSteps, CrashInReconcileStep, CrashStep DEF Next

-----------------------------------------------------------------------------
(* What a Step preserves.                                                  *)

\* The attempts of a task are runs of its conversation.
OwnRuns == \A t \in Tasks : \A i \in DOMAIN attempts[t] :
    attempts[t][i] \in DOMAIN conv /\ conv[attempts[t][i]] = t

\* A task that was never created has no attempts and no runs.
NewOnes == \A t \in Tasks : task[t].flow = 0 => attempts[t] = <<>> /\ \A r \in DOMAIN conv : conv[r] # t

Books == TypeOK /\ Graph /\ Working /\ OwnRuns /\ NewOnes

(* Runs that are known stay as they are, and those that have ended too.    *)
LEMMA RunsKept ==
    ASSUME TypeOK, RunsFate
    PROVE  \A r \in DOMAIN conv :
              /\ r \in Runs /\ r \in DOMAIN conv' /\ conv'[r] = conv[r]
              /\ status[r] \in RunQueue!Outcomes => status'[r] = status[r] /\ contract'[r] = contract[r]
<1>1. DOMAIN conv = 1 .. Len(conv) /\ DOMAIN conv \subseteq Runs
  BY TaskFlowBounds DEF TypeOK, Runs
<1>2. CASE RunsGoOn
  BY <1>1, <1>2 DEF RunsGoOn
<1>3. ASSUME NEW t \in Tasks, Submitted(t)
      PROVE  \A r \in DOMAIN conv :
                /\ r \in DOMAIN conv' /\ conv'[r] = conv[r]
                /\ status'[r] = status[r] /\ contract'[r] = contract[r]
  <2>1. /\ Len(conv') = Len(conv) + 1 /\ DOMAIN conv' = 1 .. Len(conv')
        /\ \A r \in DOMAIN conv : conv'[r] = conv[r]
        /\ status' = [r \in Runs |-> IF r = Len(conv') THEN "queued" ELSE status[r]]
        /\ Len(conv) \in Nat
    BY <1>3, SubmitTypes DEF Submitted, TypeOK, RunTypes, StatusNames
  <2>2. \A r \in DOMAIN conv : r \in DOMAIN conv' /\ r # Len(conv') /\ r \in Runs
    BY <1>1, <2>1
  <2>. QED
    BY <1>3, <2>1, <2>2 DEF Submitted
<1>. QED
  BY <1>1, <1>2, <1>3 DEF RunsFate

LEMMA AttemptsFate ==
    ASSUME Books, Step, NEW t \in Tasks
    PROVE  /\ Spawned(t) \/ attempts'[t] = attempts[t] \/ attempts'[t] = <<>>
           /\ Spawned(t) => /\ attempts'[t] = Append(attempts[t], Len(conv'))
                            /\ Len(conv') \in DOMAIN conv' /\ conv'[Len(conv')] = t
                            /\ Len(attempts'[t]) = Len(attempts[t]) + 1 /\ Latest(t)' = Len(conv')
<1>1. CASE Spawned(t)
  <2>1. /\ Len(conv') \in Runs /\ DOMAIN conv' = 1 .. Len(conv') /\ Len(conv') \in Nat
        /\ conv'[Len(conv')] = t
    BY <1>1, SubmitTypes DEF Spawned, Books, TypeOK, RunTypes, StatusNames, Runs
  <2>2. attempts'[t] = Append(attempts[t], Len(conv')) /\ attempts[t] \in Seq(Runs)
    BY <1>1 DEF Spawned, Recorded, Books, TypeOK
  <2>3. Len(attempts'[t]) = Len(attempts[t]) + 1 /\ attempts'[t][Len(attempts'[t])] = Len(conv')
    BY <2>1, <2>2
  <2>4. Len(conv') \in DOMAIN conv'
    BY <2>1, TaskFlowBounds DEF Runs
  <2>. QED
    BY <1>1, <2>1, <2>2, <2>3, <2>4 DEF Latest
<1>2. CASE ~Spawned(t)
  BY <1>2 DEF Step, Fate, Untouched, Deserted, ByHand, Dropped, Born, Freed, Held, Claimed, GivenBack,
              Judged, Same
<1>. QED
  BY <1>1, <1>2

LEMMA OwnRunsNext ==
    ASSUME Books, Step, TypeOK'
    PROVE  OwnRuns'
<1>. SUFFICES ASSUME NEW t \in Tasks, NEW i \in DOMAIN attempts'[t]
              PROVE  attempts'[t][i] \in DOMAIN conv' /\ conv'[attempts'[t][i]] = t
  BY DEF OwnRuns
<1>1. \A j \in DOMAIN attempts[t] :
        attempts[t][j] \in DOMAIN conv' /\ conv'[attempts[t][j]] = t
  BY RunsKept DEF Books, Step, OwnRuns
<1>2. CASE attempts'[t] = attempts[t] \/ attempts'[t] = <<>>
  BY <1>1, <1>2
<1>3. CASE /\ attempts'[t] = Append(attempts[t], Len(conv'))
           /\ Len(conv') \in DOMAIN conv' /\ conv'[Len(conv')] = t
  <2>1. attempts[t] \in Seq(Runs)
    BY DEF Books, TypeOK
  <2>2. i = Len(attempts[t]) + 1 \/ i \in DOMAIN attempts[t]
    BY <1>3, <2>1
  <2>3. attempts'[t][i] = IF i = Len(attempts[t]) + 1 THEN Len(conv') ELSE attempts[t][i]
    BY <1>3, <2>1
  <2>. QED
    BY <1>1, <1>3, <2>1, <2>2, <2>3
<1>. QED
  BY <1>2, <1>3, AttemptsFate

LEMMA FlowsStay ==
    ASSUME TypeOK, Graph, [Next]_vars, NEW t \in Tasks, task[t].flow # 0
    PROVE  task'[t].flow # 0
<1>1. CASE GraphKept
  BY <1>1 DEF GraphKept, KeepsFlows, Keep
<1>2. ASSUME NEW p \in Tasks, NEW c \in Tasks, AddDependency(p, c) PROVE task'[t].flow # 0
  <2>1. Keep(task')
    BY <1>2, EvaluatedRows DEF AddDependency
  <2>. QED
    BY <2>1 DEF Keep
<1>3. ASSUME NEW u \in Tasks, NEW f \in Flows, NEW P \in SUBSET Tasks, CreateTask(u, f, P)
      PROVE  task'[t].flow # 0
  BY <1>3 DEF CreateTask, NoTask, TypeOK
<1>. QED
  BY <1>1, <1>2, <1>3, StepsOfTheGraph

LEMMA NewOnesNext ==
    ASSUME Books, Step, Graph', [Next]_vars
    PROVE  NewOnes'
<1>. SUFFICES ASSUME NEW t \in Tasks, task'[t].flow = 0
              PROVE  attempts'[t] = <<>> /\ \A r \in DOMAIN conv' : conv'[r] # t
  BY DEF NewOnes
<1>1. task[t].flow = 0 /\ attempts[t] = <<>> /\ \A r \in DOMAIN conv : conv[r] # t
  BY FlowsStay DEF Books, NewOnes
<1>2. task[t].state = "absent" /\ task'[t].state = "absent" /\ ~InHand(t)
  BY <1>1 DEF Books, Graph, InHand
<1>3. attempts'[t] = <<>>
  BY <1>1, <1>2, AttemptsFate DEF Spawned
<1>4. CASE UNCHANGED conv
  BY <1>1, <1>3, <1>4
<1>5. ASSUME NEW u \in Tasks, Submitted(u) PROVE \A r \in DOMAIN conv' : conv'[r] # t
  <2>1. u # t
    BY <1>2, <1>5 DEF Submitted
  <2>2. /\ Len(conv') = Len(conv) + 1 /\ DOMAIN conv = 1 .. Len(conv) /\ DOMAIN conv' = 1 .. Len(conv')
        /\ conv'[Len(conv')] = u /\ (\A r \in DOMAIN conv : conv'[r] = conv[r]) /\ Len(conv) \in Nat
    BY <1>5, SubmitTypes DEF Submitted, Books, TypeOK, RunTypes, StatusNames
  <2>3. \A r \in DOMAIN conv' : r = Len(conv') \/ r \in DOMAIN conv
    BY <2>2
  <2>. QED
    BY <1>1, <2>1, <2>2, <2>3
<1>. QED
  BY <1>3, <1>4, <1>5 DEF Step, RunsFate, RunsGoOn

\* One parent at a time, so that it survives the removal of another.
BegunInOrder ==
    \A e \in needs :
        (/\ task[e[2]].state \in {"READY", "RUNNING", "DONE"}
         /\ pushed[e[1]] = 0 /\ pushed[e[2]] = 0)
        => task[e[1]].state = "DONE"

LEMMA PushesStay ==
    ASSUME Books, Step, NEW t \in Tasks, pushed'[t] = 0
    PROVE  pushed[t] = 0 /\ ~ByHand(t)
<1>1. pushed[t] \in Nat
  BY Counts DEF Books
<1>2. pushed'[t] = pushed[t] \/ pushed'[t] = pushed[t] + 1
  BY DEF Step, Fate, Untouched, Deserted, ByHand, Dropped, Born, Freed, Held, Claimed, GivenBack,
         Judged, Spawned, Same
<1>. QED
  BY <1>1, <1>2 DEF ByHand

LEMMA BegunInOrderNext ==
    ASSUME Books, Step, BegunInOrder, TypeOK'
    PROVE  BegunInOrder'
<1>. SUFFICES ASSUME NEW e \in needs', task'[e[2]].state \in {"READY", "RUNNING", "DONE"},
                     pushed'[e[1]] = 0, pushed'[e[2]] = 0
              PROVE  task'[e[1]].state = "DONE"
  BY DEF BegunInOrder
<1>1. e[1] \in Tasks /\ e[2] \in Tasks
  BY DEF TypeOK
<1>2. /\ pushed[e[1]] = 0 /\ ~ByHand(e[1]) /\ pushed[e[2]] = 0 /\ ~ByHand(e[2])
  BY <1>1, PushesStay
<1>3. /\ e \in needs \/ task[e[2]].flow = 0
      /\ ~Dropped(e[1])
      /\ (Freed(e[2]) \/ (Born(e[2]) /\ task'[e[2]].state = "READY")) => task'[e[1]].state = "DONE"
  BY DEF Step, EdgesFate
<1>4. CASE Freed(e[2]) \/ Born(e[2])
  BY <1>3, <1>4 DEF Born, From
<1>5. CASE ~Freed(e[2]) /\ ~Born(e[2])
  <2>1. task[e[2]].state \in {"READY", "RUNNING", "DONE"}
    BY <1>1, <1>2, <1>5
       DEF Step, Fate, Untouched, Deserted, Dropped, Held, Claimed, GivenBack, Judged, Spawned, From
  <2>2. e \in needs
    BY <1>1, <1>3, <2>1 DEF Books, Graph
  <2>3. task[e[1]].state = "DONE"
    BY <1>2, <2>1, <2>2 DEF BegunInOrder
  <2>. QED
    BY <1>1, <1>2, <1>3, <2>3
       DEF Step, Fate, Untouched, Deserted, Born, Freed, Held, Claimed, GivenBack, Judged, Spawned, From
<1>. QED
  BY <1>4, <1>5

LEMMA LastAttempt ==
    ASSUME Books, NEW t \in Tasks, attempts[t] # <<>>
    PROVE  Latest(t) \in DOMAIN conv /\ Latest(t) \in Runs /\ conv[Latest(t)] = t
<1>1. attempts[t] \in Seq(Runs)
  BY DEF Books, TypeOK
<1>2. Len(attempts[t]) \in DOMAIN attempts[t]
  BY <1>1
<1>. QED
  BY <1>1, <1>2 DEF Latest, Books, OwnRuns

LEMMA DoneIsEarnedNext ==
    ASSUME Books, Step, DoneIsEarned
    PROVE  DoneIsEarned'
<1>. SUFFICES ASSUME NEW t \in Tasks, task'[t].state = "DONE", pushed'[t] = 0
              PROVE  /\ attempts'[t] # <<>>
                     /\ status'[Latest(t)'] = "completed"
                     /\ contract'[Latest(t)'] \in {"none", "completed"}
                     /\ outcome'[Latest(t)'] = "COMPLETED"
  BY DEF DoneIsEarned
<1>1. pushed[t] = 0 /\ ~ByHand(t)
  BY PushesStay
<1>2. Untouched(t) \/ Judged(t)
  BY <1>1 DEF Step, Fate, Deserted, Dropped, Born, Freed, Held, Claimed, GivenBack, Spawned, From
<1>3. attempts'[t] = attempts[t] /\ Latest(t)' = Latest(t)
  BY <1>2 DEF Untouched, Judged, Same, Latest
<1>4. CASE Judged(t)
  <2>1. Reported(t, {"none", "completed"}) /\ Finished(t) /\ Closed(t) /\ UNCHANGED runs
    BY <1>4 DEF Judged, Succeeded
  <2>2. Latest(t) \in Runs /\ attempts[t] # <<>>
    BY <2>1, LastAttempt DEF Finished
  <2>3. Written(t) = "COMPLETED"
    BY <2>1 DEF Written, Reported
  <2>4. outcome'[Latest(t)] = "COMPLETED"
    BY <2>1, <2>2, <2>3 DEF Closed, Books, TypeOK
  <2>. QED
    BY <1>3, <2>1, <2>2, <2>4 DEF Reported, runs
<1>5. CASE Untouched(t)
  <2>1. task[t].state = "DONE"
    BY <1>5 DEF Untouched
  <2>2. /\ attempts[t] # <<>> /\ status[Latest(t)] = "completed"
        /\ contract[Latest(t)] \in {"none", "completed"}
        /\ outcome[Latest(t)] = "COMPLETED"
    BY <1>1, <2>1 DEF DoneIsEarned
  <2>3. Latest(t) \in DOMAIN conv /\ conv[Latest(t)] = t
    BY <2>2, LastAttempt
  <2>4. status'[Latest(t)] = "completed" /\ contract'[Latest(t)] = contract[Latest(t)]
    BY <2>2, <2>3, RunsKept DEF Step, Books, RunQueue!Outcomes
  <2>5. ASSUME NEW u \in Tasks, task[u].state = "RUNNING", Finished(u), Closed(u)
        PROVE  outcome'[Latest(t)] = outcome[Latest(t)]
    <3>1. u # t /\ conv[Latest(u)] = u
      BY <2>1, <2>5, LastAttempt DEF Finished
    <3>2. Latest(u) # Latest(t)
      BY <2>3, <3>1
    <3>. QED
      BY <2>5, <3>2 DEF Closed
  <2>6. outcome'[Latest(t)] = outcome[Latest(t)]
    BY <2>5 DEF Step, OutcomeFate
  <2>. QED
    BY <1>3, <2>2, <2>4, <2>6
<1>. QED
  BY <1>2, <1>4, <1>5

\* A task takes an attempt only while it may: what is ready, or in hand, has
\* one left.
AttemptsBounded ==
    \A t \in Tasks :
        /\ Len(attempts[t]) <= MaxAttempts + pushed[t]
        /\ task[t].state \in {"TODO", "READY"} \/ InHand(t)
           => Len(attempts[t]) < MaxAttempts + pushed[t]

LEMMA AttemptsBoundedNext ==
    ASSUME Books, Step, AttemptsBounded
    PROVE  AttemptsBounded'
<1>. SUFFICES ASSUME NEW t \in Tasks
              PROVE  /\ Len(attempts'[t]) <= MaxAttempts + pushed'[t]
                     /\ task'[t].state \in {"TODO", "READY"} \/ InHand(t)'
                        => Len(attempts'[t]) < MaxAttempts + pushed'[t]
  BY DEF AttemptsBounded
<1>1. /\ MaxAttempts \in Nat /\ MaxAttempts > 0 /\ pushed[t] \in Nat
      /\ Len(attempts[t]) \in Nat /\ Len(<<>>) = 0
  BY Counts, TaskFlowBounds DEF Books, TypeOK
<1>2. /\ Len(attempts[t]) <= MaxAttempts + pushed[t]
      /\ task[t].state \in {"TODO", "READY"} \/ InHand(t) => Len(attempts[t]) < MaxAttempts + pushed[t]
  BY DEF AttemptsBounded
<1>3. CASE Untouched(t) \/ Deserted(t) \/ Freed(t) \/ Held(t) \/ Claimed(t)
  BY <1>1, <1>2, <1>3 DEF Untouched, Deserted, Freed, Held, Claimed, Same, From
<1>4. CASE ByHand(t)
  BY <1>1, <1>2, <1>4 DEF ByHand
<1>5. CASE Dropped(t)
  BY <1>1, <1>5 DEF Dropped
<1>6. CASE Born(t)
  <2>1. attempts'[t] = <<>> /\ pushed'[t] = pushed[t]
    BY <1>6 DEF Born, Same, Books, NewOnes
  <2>. QED
    BY <1>1, <2>1
<1>7. CASE GivenBack(t)
  BY <1>1, <1>2, <1>7 DEF GivenBack, Same, From
<1>8. CASE Judged(t)
  BY <1>1, <1>2, <1>8 DEF Judged, Same, From, Exhausted, NextState
<1>9. CASE Spawned(t)
  <2>1. Len(attempts'[t]) = Len(attempts[t]) + 1 /\ pushed'[t] = pushed[t] /\ InHand(t) /\ ~InHand(t)'
        /\ task'[t].state = "RUNNING"
    BY <1>9, AttemptsFate DEF Spawned, From
  <2>. QED
    BY <1>1, <1>2, <2>1
<1>. QED
  BY <1>3, <1>4, <1>5, <1>6, <1>7, <1>8, <1>9 DEF Step, Fate

\* The live runs of a task beside the one that its last attempt waits for.
Extra(t) ==
    IF task[t].state = "RUNNING" /\ attempts[t] # <<>> /\ ~InHand(t)
    THEN Live(t) \ {Latest(t)} ELSE Live(t)

\* A task that is deleted may leave the run it was waiting for.
Left(t) == IF task[t].state = "absent" /\ task[t].flow # 0 THEN 1 ELSE 0

RunsCounted == \A t \in Tasks : Cardinality(Extra(t)) <= pushed[t] + lost + Left(t)

LEMMA LiveFinite ==
    ASSUME TypeOK, NEW t \in Tasks
    PROVE  /\ IsFiniteSet(Live(t)) /\ Cardinality(Live(t)) \in Nat
           /\ IsFiniteSet(Extra(t)) /\ Cardinality(Extra(t)) \in Nat
           /\ Cardinality(Live(t)) <= Cardinality(Extra(t)) + 1
           /\ Extra(t) \subseteq Live(t)
<1>1. IsFiniteSet(Runs)
  BY FS_Interval, TaskFlowBounds DEF Runs
<1>2. Live(t) \subseteq Runs /\ Extra(t) \subseteq Live(t)
  BY DEF Live, Extra
<1>3. IsFiniteSet(Live(t)) /\ IsFiniteSet(Extra(t))
  BY <1>1, <1>2, FS_Subset
<1>4. Cardinality(Live(t)) \in Nat /\ Cardinality(Extra(t)) \in Nat
  BY <1>3, FS_CardinalityType
<1>5. Cardinality(Live(t)) <= Cardinality(Extra(t)) + 1
  <2>1. Extra(t) = Live(t) \/ Extra(t) = Live(t) \ {Latest(t)}
    BY DEF Extra
  <2>2. Latest(t) \notin Live(t) => Live(t) \ {Latest(t)} = Live(t)
    OBVIOUS
  <2>3. Latest(t) \in Live(t) => Cardinality(Live(t) \ {Latest(t)}) = Cardinality(Live(t)) - 1
    BY <1>3, FS_RemoveElement
  <2>. QED
    BY <1>4, <2>1, <2>2, <2>3
<1>. QED
  BY <1>2, <1>3, <1>4, <1>5

LEMMA LiveFate ==
    ASSUME Books, Step, NEW t \in Tasks
    PROVE  \/ Live(t)' \subseteq Live(t)
           \/ Submitted(t) /\ Live(t)' \subseteq Live(t) \cup {Len(conv')}
<1>1. CASE RunsGoOn
  BY <1>1 DEF RunsGoOn, Live
<1>2. ASSUME NEW u \in Tasks, Submitted(u)
      PROVE  \/ Live(t)' \subseteq Live(t)
             \/ Submitted(t) /\ Live(t)' \subseteq Live(t) \cup {Len(conv')}
  <2>1. /\ Len(conv') = Len(conv) + 1 /\ DOMAIN conv = 1 .. Len(conv) /\ DOMAIN conv' = 1 .. Len(conv')
        /\ conv'[Len(conv')] = u /\ (\A r \in DOMAIN conv : conv'[r] = conv[r]) /\ Len(conv) \in Nat
        /\ status' = [r \in Runs |-> IF r = Len(conv') THEN "queued" ELSE status[r]]
    BY <1>2, SubmitTypes DEF Submitted, Books, TypeOK, RunTypes, StatusNames
  <2>2. \A r \in DOMAIN conv' : r = Len(conv') \/ r \in DOMAIN conv
    BY <2>1
  <2>3. \A r \in Live(t)' : r \in Live(t) \/ (r = Len(conv') /\ u = t)
    BY <2>1, <2>2 DEF Live
  <2>. QED
    BY <1>2, <2>3
<1>. QED
  BY <1>1, <1>2 DEF Step, RunsFate

(* What is left over grows by one at most, and then the count does too.    *)
LEMMA ExtraFate ==
    ASSUME Books, Step, TypeOK', [Next]_vars, NEW t \in Tasks
    PROVE  \/ Extra(t)' = {}
           \/ /\ Extra(t)' \subseteq Extra(t)
              /\ pushed'[t] + lost' + Left(t)' >= pushed[t] + lost + Left(t)
           \/ /\ Cardinality(Extra(t)') <= Cardinality(Extra(t)) + 1
              /\ pushed'[t] + lost' + Left(t)' >= pushed[t] + lost + Left(t) + 1
<1>0. /\ pushed[t] \in Nat /\ lost \in Nat /\ pushed'[t] \in Nat /\ lost' \in Nat /\ lost' >= lost
      /\ Left(t) \in {0, 1} /\ Left(t)' \in {0, 1}
  BY Counts, TaskFlowBounds DEF Books, TypeOK, Step, Left
<1>1. /\ Extra(t) \subseteq Live(t) /\ Extra(t)' \subseteq Live(t)'
      /\ Live(t)' \subseteq Live(t) \/ Submitted(t)
      /\ Live(t)' \subseteq Live(t) \cup {Len(conv')}
  BY LiveFate DEF Extra
<1>2. ASSUME Live(t)' \subseteq Live(t)
      PROVE  Cardinality(Extra(t)') <= Cardinality(Extra(t)) + 1
  <2>1. Extra(t)' \subseteq Live(t) /\ IsFiniteSet(Live(t)) /\ Cardinality(Live(t)) <= Cardinality(Extra(t)) + 1
        /\ Cardinality(Live(t)) \in Nat /\ Cardinality(Extra(t)) \in Nat
    BY <1>1, <1>2, LiveFinite DEF Books
  <2>2. Cardinality(Extra(t)') <= Cardinality(Live(t)) /\ Cardinality(Extra(t)') \in Nat
    BY <2>1, FS_Subset, FS_CardinalityType
  <2>. QED
    BY <2>1, <2>2
<1>3. ASSUME Extra(t) = Live(t)
      PROVE  Cardinality(Extra(t)') <= Cardinality(Extra(t)) + 1
  <2>1. Extra(t)' \subseteq Live(t) \cup {Len(conv')} /\ IsFiniteSet(Live(t)) /\ Cardinality(Live(t)) \in Nat
    BY <1>1, LiveFinite DEF Books
  <2>2. /\ IsFiniteSet(Live(t) \cup {Len(conv')})
        /\ Cardinality(Live(t) \cup {Len(conv')}) \in {Cardinality(Live(t)), Cardinality(Live(t)) + 1}
    BY <2>1, FS_AddElement
  <2>3. /\ Cardinality(Extra(t)') <= Cardinality(Live(t) \cup {Len(conv')})
        /\ Cardinality(Extra(t)') \in Nat
    BY <2>1, <2>2, FS_Subset, FS_CardinalityType
  <2>. QED
    BY <1>3, <2>1, <2>2, <2>3
<1>4. CASE Untouched(t)
  <2>1. Live(t)' \subseteq Live(t)
    BY <1>1, <1>4 DEF Submitted, Untouched, Deserted, GivenBack, Spawned
  <2>2. Extra(t)' \subseteq Extra(t)
    BY <1>4, <2>1 DEF Extra, Untouched, Same, Latest
  <2>3. Left(t)' >= Left(t)
    BY <1>4, FlowsStay DEF Untouched, Left, Books
  <2>. QED
    BY <1>0, <1>4, <2>2, <2>3 DEF Untouched, Same
<1>5. CASE Deserted(t)
  <2>1. Extra(t) = Live(t) /\ Left(t)' = Left(t)
    BY <1>5 DEF Deserted, From, Extra, Left
  <2>. QED
    BY <1>0, <1>3, <1>5, <2>1 DEF Deserted, Same
<1>6. CASE ByHand(t)
  <2>1. Live(t)' \subseteq Live(t) /\ Left(t)' = Left(t)
    BY <1>1, <1>6 DEF Submitted, ByHand, Left
  <2>. QED
    BY <1>0, <1>2, <1>6, <2>1 DEF ByHand
<1>7. CASE Dropped(t)
  <2>1. Live(t)' \subseteq Live(t) /\ Left(t)' = 1 /\ Left(t) = 0
    BY <1>1, <1>7 DEF Submitted, Dropped, Left
  <2>. QED
    BY <1>0, <1>2, <1>7, <2>1 DEF Dropped
<1>8. CASE Born(t)
  <2>1. Live(t)' \subseteq Live(t)
    BY <1>1, <1>8 DEF Submitted, Born, From, Spawned, Deserted, GivenBack
  <2>2. Live(t) = {}
    BY <1>8 DEF Born, Live, Books, NewOnes
  <2>. QED
    BY <1>1, <2>1, <2>2
<1>9. CASE Freed(t) \/ Held(t) \/ Claimed(t)
  <2>1. Live(t)' \subseteq Live(t) /\ Extra(t) = Live(t) /\ Left(t)' = Left(t) /\ pushed'[t] = pushed[t]
    BY <1>1, <1>9
       DEF Submitted, Freed, Held, Claimed, From, Same, Spawned, Deserted, GivenBack, Extra, Left
  <2>. QED
    BY <1>0, <1>1, <2>1
<1>10. CASE GivenBack(t)
  <2>1. Extra(t) = Live(t) /\ Left(t)' = Left(t) /\ pushed'[t] = pushed[t]
    BY <1>10 DEF GivenBack, From, Same, Extra, Left
  <2>2. CASE InHand(t)
    BY <1>0, <1>3, <1>10, <2>1, <2>2 DEF GivenBack
  <2>3. CASE ~InHand(t)
    BY <1>0, <1>1, <2>1, <2>3 DEF Submitted
  <2>. QED
    BY <2>2, <2>3
<1>11. CASE Judged(t)
  <2>1. Left(t)' = Left(t) /\ pushed'[t] = pushed[t] /\ UNCHANGED runs
    BY <1>11 DEF Judged, From, Same, Left, NextState
  <2>2. Extra(t) = Live(t) \ {Latest(t)} /\ Latest(t) \notin Live(t)
    BY <1>11 DEF Judged, From, Extra, Finished, Live, RunQueue!Outcomes
  <2>3. Live(t)' = Live(t)
    BY <2>1 DEF Live, runs
  <2>. QED
    BY <1>0, <1>1, <2>1, <2>2, <2>3
<1>12. CASE Spawned(t)
  <2>1. Extra(t) = Live(t) /\ Left(t)' = Left(t) /\ pushed'[t] = pushed[t]
    BY <1>12 DEF Spawned, From, Extra, Left
  <2>2. attempts'[t] # <<>> /\ Latest(t)' = Len(conv')
    <3>0. attempts[t] \in Seq(Runs)
      BY DEF Books, TypeOK
    <3>1. Len(attempts'[t]) = Len(attempts[t]) + 1
      BY <1>12, AttemptsFate
    <3>2. attempts'[t] # <<>>
      BY <3>0, <3>1
    <3>. QED
      BY <1>12, <3>2, AttemptsFate
  <2>3. Extra(t)' = Live(t)' \ {Len(conv')}
    BY <1>12, <2>2 DEF Spawned, From, Extra
  <2>. QED
    BY <1>0, <1>1, <2>1, <2>3
<1>. QED
  BY <1>4, <1>5, <1>6, <1>7, <1>8, <1>9, <1>10, <1>11, <1>12 DEF Step, Fate

LEMMA RunsCountedNext ==
    ASSUME Books, Step, TypeOK', [Next]_vars, RunsCounted
    PROVE  RunsCounted'
<1>. SUFFICES ASSUME NEW t \in Tasks
              PROVE  Cardinality(Extra(t)') <= pushed'[t] + lost' + Left(t)'
  BY DEF RunsCounted
<1>1. /\ pushed[t] \in Nat /\ lost \in Nat /\ pushed'[t] \in Nat /\ lost' \in Nat
      /\ Left(t) \in {0, 1} /\ Left(t)' \in {0, 1}
  BY Counts, TaskFlowBounds DEF Books, TypeOK, Left
<1>2. IsFiniteSet(Extra(t)) /\ Cardinality(Extra(t)) \in Nat
  BY LiveFinite DEF Books
<1>3. Cardinality(Extra(t)) <= pushed[t] + lost + Left(t)
  BY DEF RunsCounted
<1>4. CASE Extra(t)' = {}
  BY <1>1, <1>4, FS_EmptySet
<1>5. CASE /\ Extra(t)' \subseteq Extra(t)
           /\ pushed'[t] + lost' + Left(t)' >= pushed[t] + lost + Left(t)
  <2>1. Cardinality(Extra(t)') <= Cardinality(Extra(t)) /\ Cardinality(Extra(t)') \in Nat
    BY <1>2, <1>5, FS_Subset, FS_CardinalityType
  <2>. QED
    BY <1>1, <1>2, <1>3, <1>5, <2>1
<1>6. CASE /\ Cardinality(Extra(t)') <= Cardinality(Extra(t)) + 1
           /\ pushed'[t] + lost' + Left(t)' >= pushed[t] + lost + Left(t) + 1
  <2>1. IsFiniteSet(Extra(t)')
    <3>1. IsFiniteSet(Live(t)) /\ Extra(t)' \subseteq Live(t) \cup {Len(conv')}
      BY LiveFinite, LiveFate DEF Books, Extra
    <3>2. IsFiniteSet(Live(t) \cup {Len(conv')})
      BY <3>1, FS_AddElement
    <3>. QED
      BY <3>1, <3>2, FS_Subset
  <2>2. Cardinality(Extra(t)') \in Nat
    BY <2>1, FS_CardinalityType
  <2>. QED
    BY <1>1, <1>2, <1>3, <1>6, <2>2
<1>. QED
  BY <1>4, <1>5, <1>6, ExtraFate

-----------------------------------------------------------------------------
(* The invariant.                                                          *)

IInv == Books /\ BegunInOrder /\ DoneIsEarned /\ AttemptsBounded /\ RunsCounted

LEMMA InvInit == Init => IInv
<1>. SUFFICES ASSUME Init PROVE IInv
  OBVIOUS
<1>1. TypeOK /\ Graph
  BY TypeInit, GraphInit
<1>2. /\ needs = {} /\ pc = "idle" /\ todo = {} /\ conv = <<>> /\ lost = 0
      /\ \A t \in Tasks : attempts[t] = <<>> /\ task[t].state = "absent" /\ pushed[t] = 0
  BY DEF Init, RunQueue!Init, NoTask
<1>3. Books
  BY <1>1, <1>2 DEF Books, Working, OwnRuns, NewOnes
<1>4. \A t \in Tasks : Extra(t) = {} /\ Left(t) \in {0, 1}
  BY <1>2 DEF Extra, Live, Left
<1>5. RunsCounted
  <2>. SUFFICES ASSUME NEW t \in Tasks PROVE Cardinality(Extra(t)) <= pushed[t] + lost + Left(t)
    BY DEF RunsCounted
  <2>1. Cardinality(Extra(t)) = 0
    BY <1>4, FS_EmptySet
  <2>2. pushed[t] = 0 /\ lost = 0 /\ Left(t) \in {0, 1}
    BY <1>2, <1>4
  <2>. QED
    BY <2>1, <2>2
<1>6. AttemptsBounded
  BY <1>2, TaskFlowBounds DEF AttemptsBounded, InHand
<1>. QED
  BY <1>2, <1>3, <1>5, <1>6 DEF IInv, BegunInOrder, DoneIsEarned

LEMMA InvNext == IInv /\ [Next]_vars => IInv'
<1>. SUFFICES ASSUME IInv, [Next]_vars PROVE IInv'
  OBVIOUS
<1>1. Books /\ TypeOK /\ Graph /\ Working
  BY DEF IInv, Books
<1>2. Step /\ Working'
  BY <1>1, StepNext
<1>3. Graph'
  BY <1>1, GraphNext
<1>4. TypeOK'
  <2>1. Rest' /\ Counters'
    BY <1>1, RestIsType, RestNext, CountersNext
  <2>. QED
    BY <1>3, <2>1 DEF TypeOK, Rest, Counters, ClaimRows, OutcomeNames, StatusNames, Graph
<1>5. Books'
  BY <1>1, <1>2, <1>3, <1>4, OwnRunsNext, NewOnesNext DEF Books
<1>. QED
  BY <1>1, <1>2, <1>4, <1>5, BegunInOrderNext, DoneIsEarnedNext, AttemptsBoundedNext, RunsCountedNext
     DEF IInv

LEMMA Invariant == Spec => []IInv
BY InvInit, InvNext, PTL DEF Spec

LEMMA InvParentsFirst == IInv => ParentsFirst
<1>. SUFFICES ASSUME IInv, NEW t \in Tasks, task[t].state \in {"RUNNING", "DONE"},
                     \A u \in {t} \cup Parents(t) : pushed[u] = 0,
                     NEW p \in Parents(t)
              PROVE  task[p].state = "DONE"
  BY DEF ParentsFirst, ParentsDone
<1>1. <<p, t>> \in needs /\ pushed[p] = 0 /\ pushed[t] = 0
  BY DEF Parents
<1>2. task[<<p, t>>[1]].state = "DONE"
  BY <1>1 DEF IInv, BegunInOrder
<1>. QED
  BY <1>2

LEMMA InvRunsAccounted == IInv => RunsAccounted
<1>. SUFFICES ASSUME IInv, NEW t \in Tasks
              PROVE  /\ Cardinality(Live(t)) <= 1 + pushed[t] + lost
                     /\ Len(attempts[t]) <= MaxAttempts + pushed[t]
  BY DEF RunsAccounted
<1>1. /\ Cardinality(Extra(t)) <= pushed[t] + lost + Left(t)
      /\ Len(attempts[t]) <= MaxAttempts + pushed[t]
  BY DEF IInv, RunsCounted, AttemptsBounded
<1>2. /\ Cardinality(Live(t)) \in Nat /\ Cardinality(Extra(t)) \in Nat
      /\ Cardinality(Live(t)) <= Cardinality(Extra(t)) + 1
  BY LiveFinite DEF IInv, Books
<1>3. pushed[t] \in Nat /\ lost \in Nat
  BY Counts DEF IInv, Books
<1>4. CASE Left(t) = 0
  BY <1>1, <1>2, <1>3, <1>4
<1>5. CASE Left(t) = 1
  <2>1. Extra(t) = Live(t)
    BY <1>5 DEF Left, Extra
  <2>. QED
    BY <1>1, <1>2, <1>3, <1>5, <2>1
<1>. QED
  BY <1>4, <1>5 DEF Left

-----------------------------------------------------------------------------
(* The theorems.                                                           *)

(* detect_dag_cycle walks the edges whose parent is in the flow: as long as *)
(* every dependency joins tasks of one flow, no creation of a task, request *)
(* or step of the dispatcher makes a task its own ancestor.                 *)
THEOREM AcyclicWithinFlows == Spec /\ []WithinFlows => []Acyclic
<1>1. Graph /\ Acyclic /\ WithinFlows /\ [Next]_vars => Graph' /\ Acyclic'
  BY GraphNext
<1>. QED
  BY <1>1, GraphInit, PTL DEF Spec

(* With one flow there is nothing to cross.                                *)
THEOREM AcyclicInOneFlow ==
    ASSUME MaxFlows = 1
    PROVE  Spec => []Acyclic
<1>1. Graph => WithinFlows
  BY DEF Graph, WithinFlows, Rows
<1>2. Graph /\ Acyclic /\ [Next]_vars => Graph' /\ Acyclic'
  BY <1>1, GraphNext
<1>. QED
  BY <1>2, GraphInit, PTL DEF Spec

(* Every variable keeps its type through every request, tick, error and    *)
(* death of the gateway.                                                   *)
THEOREM TypeCorrect == Spec => []TypeOK
<1>1. IInv => TypeOK
  BY DEF IInv, Books
<1>. QED
  BY <1>1, Invariant, PTL

(* A task is worked on, or done, only when all it depends on is done, as   *)
(* long as nobody moved one of them by hand: neither the promotion of a    *)
(* flow, the claim, the reconciliation nor a removed dependency lets it    *)
(* start early.                                                            *)
THEOREM WorkWaitsForParents == Spec => []ParentsFirst
BY Invariant, InvParentsFirst, PTL

(* A task nobody moved is done only by an attempt of its own that          *)
(* completed and did not report a block or a failure, and the record of    *)
(* that attempt is never overwritten.                                      *)
THEOREM OnlyWorkMakesDone == Spec => []DoneIsEarned
<1>1. IInv => DoneIsEarned
  BY DEF IInv
<1>. QED
  BY <1>1, Invariant, PTL

(* One live run for each task, and one more for each death or error        *)
(* between submitting a run and recording it and for each move by hand;    *)
(* and no more attempts than the task may take.                            *)
THEOREM RunsAreCounted == Spec => []RunsAccounted
BY Invariant, InvRunsAccounted, PTL
=============================================================================
