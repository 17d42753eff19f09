--------------------------- MODULE RunManagerProof ---------------------------
(***************************************************************************)
(* Proofs about RunManager, for every number of runs and conversations,    *)
(* every fault and every bound.                                            *)
(*                                                                         *)
(* The argument has layers: TypeOK; WatchInv, which says what reconcile    *)
(* still owes to a running run that no coroutine watches yet; the          *)
(* refinement of RunLifecycle, which gives at most one running run per     *)
(* conversation and the finality of outcomes; WorkerInv, which says whose  *)
(* a running worker is; LogInv, which says what a log holds of a worker's  *)
(* output; HandsInv, which says what reconcile and the dispatches have in  *)
(* hand; and EarnedInv, which rests on all but the refinement and          *)
(* WorkerInv.                                                              *)
(***************************************************************************)
EXTENDS RunManager, FiniteSetTheorems, WellFoundedInduction, TLAPS

(* _finalize always picks an outcome. *)
LEMMA VerdictIsOutcome ==
    ASSUME NEW log, NEW b
    PROVE  Verdict(log, b) \in TerminalStatuses
BY DEF Verdict, TerminalStatuses

LEMMA AnswerType ==
    ASSUME NEW log
    PROVE  AnswerOf(log) \in {"none", "response", "deltas"}
BY DEF AnswerOf

-----------------------------------------------------------------------------
(* Type correctness.                                                       *)

LEMMA TypeInit == Init => TypeOK
BY BoundsAssumption, StraysAssumption
   DEF Init, TypeOK, StoreTypeOK, BackendTypeOK, ProcessTypeOK, NoDispatch, NoRecon,
       Runs, Workers, LiveStatuses, TerminalStatuses

(* What the helpers of the actions assign has the right type. *)
LEMMA SettleType ==
    ASSUME StoreTypeOK, NEW r, NEW log, NEW outcome \in TerminalStatuses,
           SettleRunning(r, log, outcome)
    PROVE  /\ status' \in [Runs -> {"absent"} \cup LiveStatuses \cup TerminalStatuses]
           /\ \A q \in Runs : status'[q] = "absent" <=> status[q] = "absent"
           /\ events' = [q \in Runs |-> events'[q]]
<1>1. CASE status[r] = "running"
  <2>1. /\ status' = [status EXCEPT ![r] = outcome]
        /\ events' = [events EXCEPT ![r] = Log(log, outcome)]
    BY <1>1 DEF SettleRunning
  <2>2. status \in [Runs -> {"absent"} \cup LiveStatuses \cup TerminalStatuses]
        /\ events = [q \in Runs |-> events[q]]
    BY DEF StoreTypeOK
  <2>3. outcome # "absent"
    BY DEF TerminalStatuses
  <2>. QED
    BY <1>1, <2>1, <2>2, <2>3
<1>2. CASE status[r] # "running"
  BY <1>2 DEF StoreTypeOK, SettleRunning
<1>. QED
  BY <1>1, <1>2

LEMMA SubmittedAreRuns ==
    ASSUME StoreTypeOK
    PROVE  /\ DOMAIN conv \subseteq Runs
           /\ \A r \in Runs : status[r] # "absent" => conv[r] \in Conversations
BY BoundsAssumption DEF StoreTypeOK, Runs

LEMMA ScheduleType ==
    ASSUME ProcessTypeOK, NEW c, Schedule(c)
    PROVE  dispatches' \in [Conversations -> Nat]
<1>1. CASE c \in Conversations
  BY <1>1 DEF ProcessTypeOK, Schedule
<1>2. CASE c \notin Conversations
  BY <1>2 DEF ProcessTypeOK, Schedule
<1>. QED
  BY <1>1, <1>2

LEMMA DownType ==
    ASSUME GatewayDown, restarts' \in Nat
    PROVE  ProcessTypeOK'
BY DEF GatewayDown, ProcessTypeOK, NoRecon, NoDispatch

LEMMA ReconcilingType ==
    ASSUME ProcessTypeOK, NEW w, Reconciling(w)
    PROVE  recon' \in [todo : SUBSET Workers, live : SUBSET Workers, listed : SUBSET Workers]
BY DEF ProcessTypeOK, Reconciling

LEMMA StopType ==
    ASSUME BackendTypeOK, NEW w, StopContainer(w)
    PROVE  container' \in [Workers -> {"absent", "running", "exited", "removed"}]
BY DEF BackendTypeOK, StopContainer

(* A stop whose inspect does not fail leaves no worker. *)
LEMMA StopEnds ==
    ASSUME BackendTypeOK, "inspect" \notin Faults, NEW w \in Workers, StopContainer(w)
    PROVE  \A q \in Workers :
              /\ container'[q] = "running" => container[q] = "running" /\ q # w
              /\ container'[q] # "absent" => container[q] # "absent"
BY DEF BackendTypeOK, StopContainer

LEMMA TypeNext == TypeOK /\ [Next]_vars => TypeOK'
<1>. SUFFICES ASSUME StoreTypeOK, BackendTypeOK, ProcessTypeOK, [Next]_vars
              PROVE  TypeOK'
  BY DEF TypeOK
<1>1. ASSUME NEW c \in Conversations, Submit(c)
      PROVE  TypeOK'
  <2>1. StoreTypeOK'
    <3>. DEFINE r == Len(conv) + 1
    <3>1. conv' = Append(conv, c) /\ r \in Runs
      BY <1>1, BoundsAssumption DEF Submit, StoreTypeOK, Runs
    <3>2. conv' \in Seq(Conversations) /\ Len(conv') = r /\ DOMAIN conv' = DOMAIN conv \cup {r}
      BY <3>1 DEF StoreTypeOK
    <3>3. /\ status' = [status EXCEPT ![r] = "queued"]
          /\ events' = [events EXCEPT ![r] = Log(@, "queued")]
          /\ UNCHANGED <<attached, answer, workerState>>
          /\ Len(conv) < MaxRuns
      BY <1>1 DEF Submit
    <3>4. Len(conv') <= MaxRuns
      BY <3>2, <3>3, BoundsAssumption DEF StoreTypeOK
    <3>5. status' \in [Runs -> {"absent"} \cup LiveStatuses \cup TerminalStatuses]
      BY <3>1, <3>3 DEF StoreTypeOK, LiveStatuses
    <3>6. \A q \in Runs : status'[q] = "absent" <=> q \notin DOMAIN conv'
      BY <3>1, <3>2, <3>3 DEF StoreTypeOK
    <3>. QED
      BY <3>1, <3>2, <3>3, <3>4, <3>5, <3>6 DEF StoreTypeOK
  <2>2. BackendTypeOK'
    BY <1>1 DEF Submit, BackendTypeOK, backend
  <2>3. ProcessTypeOK'
    BY <1>1, ScheduleType DEF Submit, ProcessTypeOK, process, coroutines
  <2>. QED
    BY <2>1, <2>2, <2>3 DEF TypeOK
<1>2. ASSUME NEW c \in Conversations, DispatchNothing(c)
      PROVE  TypeOK'
  <2>1. StoreTypeOK'
    BY <1>2 DEF DispatchNothing, StoreTypeOK, store
  <2>2. BackendTypeOK'
    BY <1>2 DEF DispatchNothing, BackendTypeOK, backend
  <2>3. ProcessTypeOK'
    BY <1>2 DEF DispatchNothing, ProcessTypeOK, process, coroutines
  <2>. QED
    BY <2>1, <2>2, <2>3 DEF TypeOK
<1>3. ASSUME NEW c \in Conversations, DispatchClaim(c)
      PROVE  TypeOK'
  <2>1. StoreTypeOK'
    BY <1>3, SubmittedAreRuns
       DEF DispatchClaim, StoreTypeOK, store, NextQueued, QueuedIn, LiveStatuses,
         TerminalStatuses
  <2>2. BackendTypeOK'
    BY <1>3 DEF DispatchClaim, BackendTypeOK, backend
  <2>3. ProcessTypeOK'
    BY <1>3, SubmittedAreRuns
       DEF DispatchClaim, ProcessTypeOK, process, coroutines, NextQueued, QueuedIn
  <2>. QED
    BY <2>1, <2>2, <2>3 DEF TypeOK
<1>4. ASSUME NEW c \in Conversations, DispatchCreate(c)
      PROVE  TypeOK'
  <2>1. StoreTypeOK'
    BY <1>4 DEF DispatchCreate, StoreTypeOK, store
  <2>2. BackendTypeOK'
    BY <1>4 DEF DispatchCreate, BackendTypeOK, backend, ProcessTypeOK, Workers
  <2>3. ProcessTypeOK'
    BY <1>4 DEF DispatchCreate, ProcessTypeOK, process, coroutines
  <2>. QED
    BY <2>1, <2>2, <2>3 DEF TypeOK
<1>5. ASSUME NEW c \in Conversations, DispatchAttach(c)
      PROVE  TypeOK'
  <2>1. StoreTypeOK'
    BY <1>5 DEF DispatchAttach, StoreTypeOK, store, ProcessTypeOK, Workers
  <2>2. BackendTypeOK'
    BY <1>5 DEF DispatchAttach, BackendTypeOK, backend
  <2>3. ProcessTypeOK'
    BY <1>5 DEF DispatchAttach, ProcessTypeOK, process, coroutines, NoDispatch
  <2>. QED
    BY <2>1, <2>2, <2>3 DEF TypeOK
<1>6. ASSUME NEW c \in Conversations, DispatchDiscard(c)
      PROVE  TypeOK'
  <2>1. StoreTypeOK'
    BY <1>6 DEF DispatchDiscard, StoreTypeOK, store, ProcessTypeOK, Workers
  <2>2. BackendTypeOK'
    <3>1. UNCHANGED out /\ StopContainer(dispatch[c].run)
      BY <1>6 DEF DispatchDiscard
    <3>. QED
      BY <3>1, StopType DEF BackendTypeOK
  <2>3. ProcessTypeOK'
    BY <1>6 DEF DispatchDiscard, ProcessTypeOK, process, coroutines, NoDispatch
  <2>. QED
    BY <2>1, <2>2, <2>3 DEF TypeOK
<1>7. ASSUME NEW c \in Conversations, DispatchRaises(c)
      PROVE  TypeOK'
  <2>1. StoreTypeOK'
    BY <1>7, SettleType DEF DispatchRaises, StoreTypeOK, store, ProcessTypeOK, TerminalStatuses
  <2>2. BackendTypeOK'
    BY <1>7 DEF DispatchRaises, BackendTypeOK, backend
  <2>3. ProcessTypeOK'
    BY <1>7, ScheduleType DEF DispatchRaises, ProcessTypeOK, process, coroutines, NoDispatch
  <2>. QED
    BY <2>1, <2>2, <2>3 DEF TypeOK
<1>8. ASSUME NEW r \in Runs, CancelQueued(r)
      PROVE  TypeOK'
  <2>1. StoreTypeOK'
    BY <1>8 DEF CancelQueued, StoreTypeOK, store, LiveStatuses, TerminalStatuses
  <2>2. BackendTypeOK'
    BY <1>8 DEF CancelQueued, BackendTypeOK, backend
  <2>3. ProcessTypeOK'
    BY <1>8, ScheduleType DEF CancelQueued, ProcessTypeOK, process, coroutines
  <2>. QED
    BY <2>1, <2>2, <2>3 DEF TypeOK
<1>9. ASSUME NEW r \in Runs, CancelStarting(r)
      PROVE  TypeOK'
  <2>1. StoreTypeOK'
    BY <1>9, SettleType DEF CancelStarting, StoreTypeOK, store, TerminalStatuses
  <2>2. BackendTypeOK'
    BY <1>9 DEF CancelStarting, BackendTypeOK, backend
  <2>3. ProcessTypeOK'
    BY <1>9, ScheduleType DEF CancelStarting, ProcessTypeOK, process, coroutines
  <2>. QED
    BY <2>1, <2>2, <2>3 DEF TypeOK
<1>10. ASSUME NEW r \in Runs, CancelRequest(r)
      PROVE  TypeOK'
  <2>1. StoreTypeOK'
    BY <1>10 DEF CancelRequest, StoreTypeOK, store
  <2>2. BackendTypeOK'
    BY <1>10 DEF CancelRequest, BackendTypeOK, backend
  <2>3. ProcessTypeOK'
    BY <1>10 DEF CancelRequest, ProcessTypeOK, process, coroutines
  <2>. QED
    BY <2>1, <2>2, <2>3 DEF TypeOK
<1>11. ASSUME NEW r \in Runs, CancelStop(r)
      PROVE  TypeOK'
  <2>1. StoreTypeOK'
    BY <1>11 DEF CancelStop, StoreTypeOK, store
  <2>2. BackendTypeOK'
    BY <1>11 DEF CancelStop, BackendTypeOK, backend, StopContainer
  <2>3. ProcessTypeOK'
    BY <1>11 DEF CancelStop, ProcessTypeOK, process, coroutines
  <2>. QED
    BY <2>1, <2>2, <2>3 DEF TypeOK
<1>12. ASSUME NEW r \in Runs, CancelSettle(r)
      PROVE  TypeOK'
  <2>1. StoreTypeOK'
    BY <1>12, SettleType DEF CancelSettle, StoreTypeOK, store, TerminalStatuses, Workers
  <2>2. BackendTypeOK'
    BY <1>12 DEF CancelSettle, BackendTypeOK, backend
  <2>3. ProcessTypeOK'
    BY <1>12, ScheduleType DEF CancelSettle, ProcessTypeOK, process, coroutines
  <2>. QED
    BY <2>1, <2>2, <2>3 DEF TypeOK
<1>13. ASSUME NEW r \in Runs, CancelRaises(r)
      PROVE  TypeOK'
  <2>1. StoreTypeOK'
    BY <1>13 DEF CancelRaises, StoreTypeOK, store
  <2>2. BackendTypeOK'
    BY <1>13 DEF CancelRaises, BackendTypeOK, backend
  <2>3. ProcessTypeOK'
    BY <1>13 DEF CancelRaises, ProcessTypeOK, process, coroutines
  <2>. QED
    BY <2>1, <2>2, <2>3 DEF TypeOK
<1>14. ASSUME NEW r \in Runs, MonitorReturn(r)
      PROVE  TypeOK'
  <2>1. StoreTypeOK'
    BY <1>14 DEF MonitorReturn, StoreTypeOK, store
  <2>2. BackendTypeOK'
    BY <1>14 DEF MonitorReturn, BackendTypeOK, backend
  <2>3. ProcessTypeOK'
    BY <1>14 DEF MonitorReturn, ProcessTypeOK, process, coroutines
  <2>. QED
    BY <2>1, <2>2, <2>3 DEF TypeOK
<1>15. ASSUME NEW r \in Runs, MonitorIngest(r)
      PROVE  TypeOK'
  <2>1. StoreTypeOK'
    BY <1>15 DEF MonitorIngest, StoreTypeOK, store
  <2>2. BackendTypeOK'
    BY <1>15 DEF MonitorIngest, BackendTypeOK, backend
  <2>3. ProcessTypeOK'
    BY <1>15 DEF MonitorIngest, ProcessTypeOK, process, coroutines
  <2>. QED
    BY <2>1, <2>2, <2>3 DEF TypeOK
<1>16. ASSUME NEW r \in Runs, MonitorAlive(r)
      PROVE  TypeOK'
  <2>1. StoreTypeOK'
    BY <1>16 DEF MonitorAlive, StoreTypeOK, store
  <2>2. BackendTypeOK'
    BY <1>16 DEF MonitorAlive, BackendTypeOK, backend
  <2>3. ProcessTypeOK'
    BY <1>16 DEF MonitorAlive, ProcessTypeOK, process, coroutines
  <2>. QED
    BY <2>1, <2>2, <2>3 DEF TypeOK
<1>17. ASSUME NEW r \in Runs, MonitorMissing(r)
      PROVE  TypeOK'
  <2>1. StoreTypeOK'
    BY <1>17, SettleType DEF MonitorMissing, StoreTypeOK, store, TerminalStatuses
  <2>2. BackendTypeOK'
    BY <1>17 DEF MonitorMissing, BackendTypeOK, backend
  <2>3. ProcessTypeOK'
    BY <1>17, ScheduleType DEF MonitorMissing, ProcessTypeOK, process, coroutines
  <2>. QED
    BY <2>1, <2>2, <2>3 DEF TypeOK
<1>18. ASSUME NEW r \in Runs, MonitorFinalize(r)
      PROVE  TypeOK'
  <2>1. StoreTypeOK'
    <3>1. PICK log : Finalize(r, log, FALSE)
      BY <1>18 DEF MonitorFinalize
    <3>. QED
      BY <1>18, <3>1, SettleType, VerdictIsOutcome, AnswerType
         DEF MonitorFinalize, StoreTypeOK, store, Finalize, Workers
  <2>2. BackendTypeOK'
    BY <1>18 DEF MonitorFinalize, BackendTypeOK, backend
  <2>3. ProcessTypeOK'
    BY <1>18, ScheduleType DEF MonitorFinalize, ProcessTypeOK, process, coroutines
  <2>. QED
    BY <2>1, <2>2, <2>3 DEF TypeOK
<1>19. ASSUME NEW r \in Runs, MonitorRaises(r)
      PROVE  TypeOK'
  <2>1. StoreTypeOK'
    BY <1>19, SettleType DEF MonitorRaises, StoreTypeOK, store, TerminalStatuses
  <2>2. BackendTypeOK'
    BY <1>19 DEF MonitorRaises, BackendTypeOK, backend
  <2>3. ProcessTypeOK'
    BY <1>19, ScheduleType DEF MonitorRaises, ProcessTypeOK, process, coroutines
  <2>. QED
    BY <2>1, <2>2, <2>3 DEF TypeOK
<1>20. ASSUME NEW r \in Runs, Exit(r)
      PROVE  TypeOK'
  <2>1. StoreTypeOK'
    BY <1>20 DEF Exit, StoreTypeOK, store
  <2>2. BackendTypeOK'
    BY <1>20 DEF Exit, BackendTypeOK, backend
  <2>3. ProcessTypeOK'
    BY <1>20 DEF Exit, ProcessTypeOK, process, coroutines
  <2>. QED
    BY <2>1, <2>2, <2>3 DEF TypeOK
<1>21. ASSUME NEW r \in Runs, Vanish(r)
      PROVE  TypeOK'
  <2>1. StoreTypeOK'
    BY <1>21 DEF Vanish, StoreTypeOK, store
  <2>2. BackendTypeOK'
    BY <1>21 DEF Vanish, BackendTypeOK, backend
  <2>3. ProcessTypeOK'
    BY <1>21 DEF Vanish, ProcessTypeOK, process, coroutines
  <2>. QED
    BY <2>1, <2>2, <2>3 DEF TypeOK
<1>22. ASSUME NEW r \in Runs, CrashInCancel(r)
      PROVE  TypeOK'
  <2>1. StoreTypeOK'
    BY <1>22 DEF CrashInCancel, StoreTypeOK, store
  <2>2. BackendTypeOK'
    BY <1>22 DEF CrashInCancel, BackendTypeOK, backend
  <2>3. ProcessTypeOK'
    BY <1>22, DownType DEF CrashInCancel, ProcessTypeOK, process, coroutines
  <2>. QED
    BY <2>1, <2>2, <2>3 DEF TypeOK
<1>23. ASSUME NEW r \in Runs, CrashInIngest(r)
      PROVE  TypeOK'
  <2>1. StoreTypeOK'
    BY <1>23 DEF CrashInIngest, StoreTypeOK, store
  <2>2. BackendTypeOK'
    BY <1>23 DEF CrashInIngest, BackendTypeOK, backend
  <2>3. ProcessTypeOK'
    BY <1>23, DownType DEF CrashInIngest, ProcessTypeOK, process, coroutines
  <2>. QED
    BY <2>1, <2>2, <2>3 DEF TypeOK
<1>24. ASSUME NEW r \in Runs, ReconcileSettled(r)
      PROVE  TypeOK'
  <2>1. StoreTypeOK'
    BY <1>24 DEF ReconcileSettled, StoreTypeOK, store, Workers
  <2>2. BackendTypeOK'
    BY <1>24 DEF ReconcileSettled, BackendTypeOK, backend, StopContainer
  <2>3. ProcessTypeOK'
    BY <1>24, ReconcilingType
       DEF ReconcileSettled, ProcessTypeOK, process, coroutines, Reconciling
  <2>. QED
    BY <2>1, <2>2, <2>3 DEF TypeOK
<1>25. ASSUME NEW r \in Runs, ReconcileMonitor(r)
      PROVE  TypeOK'
  <2>1. StoreTypeOK'
    BY <1>25 DEF ReconcileMonitor, StoreTypeOK, store, Workers
  <2>2. BackendTypeOK'
    BY <1>25 DEF ReconcileMonitor, BackendTypeOK, backend
  <2>3. ProcessTypeOK'
    BY <1>25, ReconcilingType
       DEF ReconcileMonitor, ProcessTypeOK, process, coroutines, Reconciling
  <2>. QED
    BY <2>1, <2>2, <2>3 DEF TypeOK
<1>26. ASSUME NEW r \in Runs, ReconcileFinalize(r)
      PROVE  TypeOK'
  <2>1. StoreTypeOK'
    <3>1. PICK log : Finalize(r, log, TRUE)
      BY <1>26 DEF ReconcileFinalize
    <3>. QED
      BY <1>26, <3>1, SettleType, VerdictIsOutcome, AnswerType
         DEF ReconcileFinalize, StoreTypeOK, store, Finalize, Workers
  <2>2. BackendTypeOK'
    BY <1>26 DEF ReconcileFinalize, BackendTypeOK, backend
  <2>3. ProcessTypeOK'
    BY <1>26, ReconcilingType
       DEF ReconcileFinalize, ProcessTypeOK, process, coroutines, Reconciling
  <2>. QED
    BY <2>1, <2>2, <2>3 DEF TypeOK
<1>27. ASSUME NEW r \in Runs, ReconcileRaises(r)
      PROVE  TypeOK'
  <2>1. StoreTypeOK'
    BY <1>27 DEF ReconcileRaises, StoreTypeOK, store, Workers
  <2>2. BackendTypeOK'
    BY <1>27 DEF ReconcileRaises, BackendTypeOK, backend
  <2>3. ProcessTypeOK'
    BY <1>27, DownType DEF ReconcileRaises, ProcessTypeOK, process, coroutines
  <2>. QED
    BY <2>1, <2>2, <2>3 DEF TypeOK
<1>28. ASSUME NEW r \in Runs, NEW kind \in Outputs, Emit(r, kind)
      PROVE  TypeOK'
  <2>1. StoreTypeOK'
    BY <1>28 DEF Emit, StoreTypeOK, store
  <2>2. BackendTypeOK'
    BY <1>28 DEF Emit, BackendTypeOK, backend
  <2>3. ProcessTypeOK'
    BY <1>28 DEF Emit, ProcessTypeOK, process, coroutines
  <2>. QED
    BY <2>1, <2>2, <2>3 DEF TypeOK
<1>29. ASSUME NEW w \in Strays, ReconcileStray(w)
      PROVE  TypeOK'
  <2>1. StoreTypeOK'
    BY <1>29 DEF ReconcileStray, StoreTypeOK, store, Workers
  <2>2. BackendTypeOK'
    BY <1>29 DEF ReconcileStray, BackendTypeOK, backend, Workers
  <2>3. ProcessTypeOK'
    BY <1>29, ReconcilingType
       DEF ReconcileStray, ProcessTypeOK, process, coroutines, Reconciling
  <2>. QED
    BY <2>1, <2>2, <2>3 DEF TypeOK
<1>30. ASSUME Crash
      PROVE  TypeOK'
  <2>1. StoreTypeOK'
    BY <1>30 DEF Crash, StoreTypeOK, store
  <2>2. BackendTypeOK'
    BY <1>30 DEF Crash, BackendTypeOK, backend
  <2>3. ProcessTypeOK'
    BY <1>30, DownType DEF Crash, ProcessTypeOK, process, coroutines
  <2>. QED
    BY <2>1, <2>2, <2>3 DEF TypeOK
<1>31. ASSUME Boot
      PROVE  TypeOK'
  <2>1. StoreTypeOK'
    BY <1>31 DEF Boot, StoreTypeOK, store, Workers
  <2>2. BackendTypeOK'
    BY <1>31 DEF Boot, BackendTypeOK, backend
  <2>3. ProcessTypeOK'
    <3>1. PICK listed \in Listings : TRUE /\ recon'.listed = listed
      BY <1>31 DEF Boot
    <3>. QED
      BY <1>31, <3>1 DEF Boot, Listings, ProcessTypeOK, process, coroutines
  <2>. QED
    BY <2>1, <2>2, <2>3 DEF TypeOK
<1>32. ASSUME ReconcileSweep
      PROVE  TypeOK'
  <2>1. StoreTypeOK'
    BY <1>32 DEF ReconcileSweep, StoreTypeOK, store, Unlisted, LiveStatuses, TerminalStatuses
  <2>2. BackendTypeOK'
    BY <1>32 DEF ReconcileSweep, BackendTypeOK, backend
  <2>3. ProcessTypeOK'
    BY <1>32 DEF ReconcileSweep, ProcessTypeOK, process, coroutines, NoRecon
  <2>. QED
    BY <2>1, <2>2, <2>3 DEF TypeOK
<1>33. CASE UNCHANGED vars
  BY <1>33 DEF vars, TypeOK, StoreTypeOK, BackendTypeOK, ProcessTypeOK
<1>34. ASSUME NEW w \in Strays, ReconcileStrayRaises(w)
      PROVE  TypeOK'
  <2>1. StoreTypeOK'
    BY <1>34 DEF ReconcileStrayRaises, StoreTypeOK, store
  <2>2. BackendTypeOK'
    BY <1>34 DEF ReconcileStrayRaises, BackendTypeOK, backend
  <2>3. ProcessTypeOK'
    BY <1>34, DownType DEF ReconcileStrayRaises, ProcessTypeOK, process, coroutines
  <2>. QED
    BY <2>1, <2>2, <2>3 DEF TypeOK
<1>. QED
  BY <1>1, <1>2, <1>3, <1>4, <1>5, <1>6, <1>7, <1>8, <1>9, <1>10, <1>11, <1>12, <1>13, <1>14,
     <1>15, <1>16, <1>17, <1>18, <1>19, <1>20, <1>21, <1>22, <1>23, <1>24, <1>25, <1>26, <1>27,
     <1>28, <1>29, <1>30, <1>31, <1>32, <1>33, <1>34
     DEF Next, Calls, CancelSteps, DispatchSteps, MonitorSteps, ReconcileSteps,
         ReconcileWorker

(* Every variable keeps its type in every reachable state. *)
THEOREM TypeCorrect == Spec => []TypeOK
<1>1. Init => TypeOK
  BY TypeInit
<1>2. TypeOK /\ [Next]_vars => TypeOK'
  BY TypeNext
<1>. QED
  BY <1>1, <1>2, PTL DEF Spec

-----------------------------------------------------------------------------
(* WatchInv: each action either settles a run, starts watching it, or      *)
(* leaves its watchers alone.                                              *)

LEMMA WatchInit == Init => WatchInv
BY DEF Init, WatchInv, DispatchHoldsRun, MonitoredIsAttached, RunningIsWatchedOrOwed,
       NoDispatch

(* Settling never makes a run running. *)
LEMMA SettleWatch ==
    ASSUME StoreTypeOK, NEW r, NEW log, NEW outcome \in TerminalStatuses,
           SettleRunning(r, log, outcome)
    PROVE  /\ \A q \in Runs : status'[q] = "running" => status[q] = "running" /\ q # r
           /\ \A q \in Runs : status'[q] = status[q] \/ (q = r /\ status[r] = "running")
BY DEF SettleRunning, StoreTypeOK, TerminalStatuses

LEMMA WatchNext == TypeOK /\ WatchInv /\ [Next]_vars => WatchInv'
<1>. SUFFICES ASSUME StoreTypeOK, BackendTypeOK, ProcessTypeOK, WatchInv, [Next]_vars
              PROVE  WatchInv'
  BY DEF TypeOK
<1>. USE DEF WatchInv, DispatchHoldsRun, MonitoredIsAttached, RunningIsWatchedOrOwed,
            Watched, Owed, StoreTypeOK, ProcessTypeOK
<1>1. ASSUME NEW c \in Conversations, Submit(c)
      PROVE  WatchInv'
  BY <1>1 DEF Submit, store, backend, process, coroutines
<1>2. ASSUME NEW c \in Conversations, DispatchNothing(c)
      PROVE  WatchInv'
  BY <1>2 DEF DispatchNothing, store, backend, process, coroutines
<1>3. ASSUME NEW c \in Conversations, DispatchClaim(c)
      PROVE  WatchInv'
  BY <1>3, SubmittedAreRuns
     DEF DispatchClaim, store, backend, process, coroutines, NextQueued, QueuedIn
<1>4. ASSUME NEW c \in Conversations, DispatchCreate(c)
      PROVE  WatchInv'
  BY <1>4 DEF DispatchCreate, store, backend, process, coroutines
<1>5. ASSUME NEW c \in Conversations, DispatchAttach(c)
      PROVE  WatchInv'
  BY <1>5 DEF DispatchAttach, store, backend, process, coroutines, NoDispatch
<1>6. ASSUME NEW c \in Conversations, DispatchDiscard(c)
      PROVE  WatchInv'
  BY <1>6 DEF DispatchDiscard, store, backend, process, coroutines, NoDispatch
<1>7. ASSUME NEW c \in Conversations, DispatchRaises(c)
      PROVE  WatchInv'
  <2>1. /\ SettleRunning(dispatch[c].run, events[dispatch[c].run], "failed")
        /\ dispatch[c].pc # "idle"
        /\ dispatch' = [dispatch EXCEPT ![c] = NoDispatch]
        /\ UNCHANGED <<attached, gateway, recon, monitor>>
    BY <1>7 DEF DispatchRaises
  <2>2. \A q \in Runs : status'[q] = "running" => status[q] = "running" /\ q # dispatch[c].run
    BY <2>1, SettleWatch DEF TerminalStatuses
  <2>. QED
    BY <2>1, <2>2 DEF NoDispatch
<1>8. ASSUME NEW r \in Runs, CancelQueued(r)
      PROVE  WatchInv'
  BY <1>8 DEF CancelQueued, store, backend, process, coroutines
<1>9. ASSUME NEW r \in Runs, CancelStarting(r)
      PROVE  WatchInv'
  BY <1>9, SettleWatch DEF CancelStarting, store, backend, process, coroutines, TerminalStatuses
<1>10. ASSUME NEW r \in Runs, CancelRequest(r)
      PROVE  WatchInv'
  BY <1>10 DEF CancelRequest, store, backend, process, coroutines
<1>11. ASSUME NEW r \in Runs, CancelStop(r)
      PROVE  WatchInv'
  BY <1>11 DEF CancelStop, store, backend, process, coroutines
<1>12. ASSUME NEW r \in Runs, CancelSettle(r)
      PROVE  WatchInv'
  BY <1>12, SettleWatch DEF CancelSettle, store, backend, process, coroutines, TerminalStatuses
<1>13. ASSUME NEW r \in Runs, CancelRaises(r)
      PROVE  WatchInv'
  BY <1>13 DEF CancelRaises, store, backend, process, coroutines
<1>14. ASSUME NEW r \in Runs, MonitorReturn(r)
      PROVE  WatchInv'
  BY <1>14 DEF MonitorReturn, store, backend, process, coroutines
<1>15. ASSUME NEW r \in Runs, MonitorIngest(r)
      PROVE  WatchInv'
  BY <1>15 DEF MonitorIngest, store, backend, process, coroutines
<1>16. ASSUME NEW r \in Runs, MonitorAlive(r)
      PROVE  WatchInv'
  BY <1>16 DEF MonitorAlive, store, backend, process, coroutines
<1>17. ASSUME NEW r \in Runs, MonitorMissing(r)
      PROVE  WatchInv'
  BY <1>17, SettleWatch
     DEF MonitorMissing, store, backend, process, coroutines, TerminalStatuses
<1>18. ASSUME NEW r \in Runs, MonitorFinalize(r)
      PROVE  WatchInv'
  <2>1. PICK log : /\ SettleRunning(r, log, Verdict(log, FALSE))
                   /\ monitor' = [monitor EXCEPT ![r] = "none"]
                   /\ UNCHANGED <<attached, gateway, recon, dispatch>>
    BY <1>18 DEF MonitorFinalize, Finalize, Reconciling, coroutines
  <2>2. \A q \in Runs : status'[q] = "running" => status[q] = "running" /\ q # r
    BY <2>1, SettleWatch, VerdictIsOutcome
  <2>. QED
    BY <2>1, <2>2
<1>19. ASSUME NEW r \in Runs, MonitorRaises(r)
      PROVE  WatchInv'
  BY <1>19, SettleWatch DEF MonitorRaises, store, backend, process, coroutines, TerminalStatuses
<1>20. ASSUME NEW r \in Runs, Exit(r)
      PROVE  WatchInv'
  BY <1>20 DEF Exit, store, backend, process, coroutines
<1>21. ASSUME NEW r \in Runs, Vanish(r)
      PROVE  WatchInv'
  BY <1>21 DEF Vanish, store, backend, process, coroutines
<1>22. ASSUME NEW r \in Runs, CrashInCancel(r)
      PROVE  WatchInv'
  BY <1>22 DEF CrashInCancel, store, backend, process, coroutines, GatewayDown, NoDispatch
<1>23. ASSUME NEW r \in Runs, CrashInIngest(r)
      PROVE  WatchInv'
  BY <1>23 DEF CrashInIngest, store, backend, process, coroutines, GatewayDown, NoDispatch
<1>24. ASSUME NEW r \in Runs, ReconcileSettled(r)
      PROVE  WatchInv'
  BY <1>24
     DEF ReconcileSettled, store, backend, process, coroutines, Reconciling, TerminalStatuses
<1>25. ASSUME NEW r \in Runs, ReconcileMonitor(r)
      PROVE  WatchInv'
  BY <1>25 DEF ReconcileMonitor, store, backend, process, coroutines, Reconciling
<1>26. ASSUME NEW r \in Runs, ReconcileFinalize(r)
      PROVE  WatchInv'
  <2>1. PICK log : /\ SettleRunning(r, log, Verdict(log, TRUE))
                   /\ recon' = [recon EXCEPT !.todo = @ \ {r}]
                   /\ attached' = [attached EXCEPT ![r] = TRUE]
                   /\ UNCHANGED <<gateway, dispatch, monitor>>
    BY <1>26 DEF ReconcileFinalize, Finalize, Reconciling, coroutines
  <2>2. \A q \in Runs : status'[q] = "running" => status[q] = "running" /\ q # r
    BY <2>1, SettleWatch, VerdictIsOutcome
  <2>. QED
    BY <2>1, <2>2
<1>27. ASSUME NEW r \in Runs, ReconcileRaises(r)
      PROVE  WatchInv'
  BY <1>27 DEF ReconcileRaises, store, backend, process, coroutines, GatewayDown, NoDispatch
<1>28. ASSUME NEW r \in Runs, NEW kind \in Outputs, Emit(r, kind)
      PROVE  WatchInv'
  BY <1>28 DEF Emit, store, backend, process, coroutines
<1>29. ASSUME NEW w \in Strays, ReconcileStray(w)
      PROVE  WatchInv'
  BY <1>29, StraysAssumption
     DEF ReconcileStray, store, backend, process, coroutines, Reconciling, Workers
<1>30. ASSUME Crash
      PROVE  WatchInv'
  BY <1>30 DEF Crash, store, backend, process, coroutines, GatewayDown, NoDispatch
<1>31. ASSUME Boot
      PROVE  WatchInv'
  BY <1>31 DEF Boot, Listings, store, backend, process, coroutines, TerminalStatuses
<1>32. ASSUME ReconcileSweep
      PROVE  WatchInv'
  BY <1>32 DEF ReconcileSweep, store, backend, process, coroutines, Unlisted, NoRecon
<1>33. CASE UNCHANGED vars
  BY <1>33 DEF vars
<1>34. ASSUME NEW w \in Strays, ReconcileStrayRaises(w)
      PROVE  WatchInv'
  BY <1>34 DEF ReconcileStrayRaises, store, GatewayDown, NoDispatch
<1>. QED
  BY <1>1, <1>2, <1>3, <1>4, <1>5, <1>6, <1>7, <1>8, <1>9, <1>10, <1>11, <1>12, <1>13, <1>14,
     <1>15, <1>16, <1>17, <1>18, <1>19, <1>20, <1>21, <1>22, <1>23, <1>24, <1>25, <1>26, <1>27,
     <1>28, <1>29, <1>30, <1>31, <1>32, <1>33, <1>34
     DEF Next, Calls, CancelSteps, DispatchSteps, MonitorSteps, ReconcileSteps,
         ReconcileWorker

(* A running run always has a coroutine that will settle it, from the end  *)
(* of reconcile on.                                                        *)
THEOREM RunningRunsAreWatched == Spec => []RunningIsWatched
<1>1. Init => TypeOK /\ WatchInv
  BY TypeInit, WatchInit
<1>2. TypeOK /\ WatchInv /\ [Next]_vars => TypeOK' /\ WatchInv'
  BY TypeNext, WatchNext
<1>3. WatchInv => RunningIsWatched
  BY DEF WatchInv, RunningIsWatchedOrOwed, Owed, RunningIsWatched
<1>. QED
  BY <1>1, <1>2, <1>3, PTL DEF Spec

-----------------------------------------------------------------------------
(* The refinement of RunLifecycle.                                         *)

LEMMA LifecycleInit == Init => Lifecycle!Init
BY DEF Init, Lifecycle!Init, Runs, Lifecycle!Runs

(* A transition out of running is the abstract outcome of one run, or      *)
(* nothing when the run was no longer running.                             *)
LEMMA SettleRefines ==
    ASSUME StoreTypeOK, NEW r \in Runs, NEW log, NEW outcome \in TerminalStatuses,
           SettleRunning(r, log, outcome), UNCHANGED conv
    PROVE  [Lifecycle!Next]_(Lifecycle!vars)
<1>1. CASE status[r] = "running"
  <2>. DEFINE R == {r}
              o == [q \in R |-> outcome]
  <2>1. R \in SUBSET Lifecycle!Runs /\ R # {} /\ \A q \in R : status[q] = "running"
    BY <1>1 DEF Runs, Lifecycle!Runs
  <2>2. o \in [R -> Lifecycle!Outcomes]
    BY DEF TerminalStatuses, Lifecycle!Outcomes
  <2>3. status' = [q \in Lifecycle!Runs |-> IF q \in R THEN o[q] ELSE status[q]]
    BY <1>1 DEF SettleRunning, StoreTypeOK, Runs, Lifecycle!Runs
  <2>4. Lifecycle!Settle(R)
    BY <2>1, <2>2, <2>3 DEF Lifecycle!Settle
  <2>. QED
    BY <2>1, <2>4 DEF Lifecycle!Next
<1>2. CASE status[r] # "running"
  BY <1>2 DEF SettleRunning, Lifecycle!vars
<1>. QED
  BY <1>1, <1>2

LEMMA LifecycleNext == TypeOK /\ WatchInv /\ [Next]_vars => [Lifecycle!Next]_(Lifecycle!vars)
<1>. SUFFICES ASSUME StoreTypeOK, BackendTypeOK, ProcessTypeOK, WatchInv, [Next]_vars
              PROVE  [Lifecycle!Next]_(Lifecycle!vars)
  BY DEF TypeOK
<1>1. ASSUME NEW c \in Conversations, Submit(c)
      PROVE  [Lifecycle!Next]_(Lifecycle!vars)
  BY <1>1 DEF Submit, Lifecycle!Submit, Lifecycle!Next
<1>2. ASSUME NEW c \in Conversations, DispatchClaim(c)
      PROVE  [Lifecycle!Next]_(Lifecycle!vars)
  <2>1. PICK r \in NextQueued(c) : status' = [status EXCEPT ![r] = "running"]
    BY <1>2 DEF DispatchClaim
  <2>2. r \in Runs /\ r \in DOMAIN conv /\ status[r] = "queued" /\ conv[r] = c
    BY <2>1, SubmittedAreRuns DEF NextQueued, QueuedIn
  <2>3. \A q \in DOMAIN conv : conv[q] = c => status[q] # "running"
    BY <2>1 DEF NextQueued, RunningIn
  <2>4. \A q \in DOMAIN conv : conv[q] = c /\ status[q] = "queued" => r <= q
    BY <2>1, <2>3 DEF NextQueued, QueuedIn, RunningIn
  <2>5. Lifecycle!Start(r)
    BY <1>2, <2>1, <2>2, <2>3, <2>4 DEF DispatchClaim, Lifecycle!Start
  <2>. QED
    BY <2>2, <2>5 DEF Lifecycle!Next, Runs, Lifecycle!Runs
<1>3. ASSUME NEW r \in Runs, CancelQueued(r)
      PROVE  [Lifecycle!Next]_(Lifecycle!vars)
  BY <1>3 DEF CancelQueued, Lifecycle!CancelQueued, Lifecycle!Next, Runs, Lifecycle!Runs
<1>4. ASSUME NEW c \in Conversations, DispatchRaises(c)
      PROVE  [Lifecycle!Next]_(Lifecycle!vars)
  <2>1. dispatch[c].run \in Runs
    BY <1>4 DEF DispatchRaises, WatchInv, DispatchHoldsRun
  <2>. QED
    BY <1>4, <2>1, SettleRefines DEF DispatchRaises, TerminalStatuses
<1>5. ASSUME NEW r \in Runs, CancelStarting(r)
      PROVE  [Lifecycle!Next]_(Lifecycle!vars)
  BY <1>5, SettleRefines DEF CancelStarting, TerminalStatuses
<1>6. ASSUME NEW r \in Runs, CancelSettle(r)
      PROVE  [Lifecycle!Next]_(Lifecycle!vars)
  BY <1>6, SettleRefines DEF CancelSettle, TerminalStatuses
<1>7. ASSUME NEW r \in Runs, MonitorMissing(r)
      PROVE  [Lifecycle!Next]_(Lifecycle!vars)
  BY <1>7, SettleRefines DEF MonitorMissing, TerminalStatuses
<1>8. ASSUME NEW r \in Runs, MonitorRaises(r)
      PROVE  [Lifecycle!Next]_(Lifecycle!vars)
  BY <1>8, SettleRefines DEF MonitorRaises, TerminalStatuses, Lifecycle!vars
<1>9. ASSUME NEW r \in Runs, MonitorFinalize(r)
      PROVE  [Lifecycle!Next]_(Lifecycle!vars)
  BY <1>9, SettleRefines, VerdictIsOutcome DEF MonitorFinalize, Finalize
<1>10. ASSUME NEW r \in Runs, ReconcileFinalize(r)
      PROVE  [Lifecycle!Next]_(Lifecycle!vars)
  BY <1>10, SettleRefines, VerdictIsOutcome DEF ReconcileFinalize, Finalize
<1>11. ASSUME NEW c \in Conversations, DispatchNothing(c)
      PROVE  [Lifecycle!Next]_(Lifecycle!vars)
  BY <1>11 DEF DispatchNothing, store, Lifecycle!vars
<1>12. ASSUME NEW c \in Conversations, DispatchCreate(c)
      PROVE  [Lifecycle!Next]_(Lifecycle!vars)
  BY <1>12 DEF DispatchCreate, store, Lifecycle!vars
<1>13. ASSUME NEW c \in Conversations, DispatchAttach(c)
      PROVE  [Lifecycle!Next]_(Lifecycle!vars)
  BY <1>13 DEF DispatchAttach, store, Lifecycle!vars
<1>14. ASSUME NEW c \in Conversations, DispatchDiscard(c)
      PROVE  [Lifecycle!Next]_(Lifecycle!vars)
  BY <1>14 DEF DispatchDiscard, store, Lifecycle!vars
<1>15. ASSUME NEW r \in Runs, CancelRequest(r)
      PROVE  [Lifecycle!Next]_(Lifecycle!vars)
  BY <1>15 DEF CancelRequest, store, Lifecycle!vars
<1>16. ASSUME NEW r \in Runs, CancelStop(r)
      PROVE  [Lifecycle!Next]_(Lifecycle!vars)
  BY <1>16 DEF CancelStop, store, Lifecycle!vars
<1>17. ASSUME NEW r \in Runs, CancelRaises(r)
      PROVE  [Lifecycle!Next]_(Lifecycle!vars)
  BY <1>17 DEF CancelRaises, store, Lifecycle!vars
<1>18. ASSUME NEW r \in Runs, MonitorReturn(r)
      PROVE  [Lifecycle!Next]_(Lifecycle!vars)
  BY <1>18 DEF MonitorReturn, store, Lifecycle!vars
<1>19. ASSUME NEW r \in Runs, MonitorIngest(r)
      PROVE  [Lifecycle!Next]_(Lifecycle!vars)
  BY <1>19 DEF MonitorIngest, store, Lifecycle!vars
<1>20. ASSUME NEW r \in Runs, MonitorAlive(r)
      PROVE  [Lifecycle!Next]_(Lifecycle!vars)
  BY <1>20 DEF MonitorAlive, store, Lifecycle!vars
<1>21. ASSUME NEW r \in Runs, Exit(r)
      PROVE  [Lifecycle!Next]_(Lifecycle!vars)
  BY <1>21 DEF Exit, store, Lifecycle!vars
<1>22. ASSUME NEW r \in Runs, Vanish(r)
      PROVE  [Lifecycle!Next]_(Lifecycle!vars)
  BY <1>22 DEF Vanish, store, Lifecycle!vars
<1>23. ASSUME NEW r \in Runs, CrashInCancel(r)
      PROVE  [Lifecycle!Next]_(Lifecycle!vars)
  BY <1>23 DEF CrashInCancel, store, Lifecycle!vars
<1>24. ASSUME NEW r \in Runs, CrashInIngest(r)
      PROVE  [Lifecycle!Next]_(Lifecycle!vars)
  BY <1>24 DEF CrashInIngest, store, Lifecycle!vars
<1>25. ASSUME NEW r \in Runs, ReconcileSettled(r)
      PROVE  [Lifecycle!Next]_(Lifecycle!vars)
  BY <1>25 DEF ReconcileSettled, store, Lifecycle!vars
<1>26. ASSUME NEW r \in Runs, ReconcileMonitor(r)
      PROVE  [Lifecycle!Next]_(Lifecycle!vars)
  BY <1>26 DEF ReconcileMonitor, store, Lifecycle!vars
<1>27. ASSUME NEW r \in Runs, ReconcileRaises(r)
      PROVE  [Lifecycle!Next]_(Lifecycle!vars)
  BY <1>27 DEF ReconcileRaises, store, Lifecycle!vars
<1>28. ASSUME NEW r \in Runs, NEW kind \in Outputs, Emit(r, kind)
      PROVE  [Lifecycle!Next]_(Lifecycle!vars)
  BY <1>28 DEF Emit, store, Lifecycle!vars
<1>29. ASSUME NEW w \in Strays, ReconcileStray(w)
      PROVE  [Lifecycle!Next]_(Lifecycle!vars)
  BY <1>29 DEF ReconcileStray, Lifecycle!vars
<1>30. ASSUME Crash
      PROVE  [Lifecycle!Next]_(Lifecycle!vars)
  BY <1>30 DEF Crash, store, Lifecycle!vars
<1>31. ASSUME Boot
      PROVE  [Lifecycle!Next]_(Lifecycle!vars)
  BY <1>31 DEF Boot, store, Lifecycle!vars
<1>32. ASSUME ReconcileSweep
      PROVE  [Lifecycle!Next]_(Lifecycle!vars)
  <2>. DEFINE o == [q \in Unlisted |-> "interrupted"]
  <2>1. Unlisted \in SUBSET Lifecycle!Runs /\ \A q \in Unlisted : status[q] = "running"
    BY SubmittedAreRuns DEF Unlisted, Runs, Lifecycle!Runs
  <2>2. o \in [Unlisted -> Lifecycle!Outcomes]
    BY DEF Lifecycle!Outcomes
  <2>3. /\ status' = [q \in Lifecycle!Runs |-> IF q \in Unlisted THEN o[q] ELSE status[q]]
        /\ UNCHANGED conv
    BY <1>32 DEF ReconcileSweep, Runs, Lifecycle!Runs
  <2>4. CASE Unlisted = {}
    BY <2>3, <2>4 DEF StoreTypeOK, Runs, Lifecycle!Runs, Lifecycle!vars
  <2>5. CASE Unlisted # {}
    <3>1. Lifecycle!Settle(Unlisted)
      BY <2>1, <2>2, <2>3, <2>5 DEF Lifecycle!Settle
    <3>. QED
      BY <2>1, <3>1 DEF Lifecycle!Next
  <2>. QED
    BY <2>4, <2>5
<1>33. CASE UNCHANGED vars
  BY <1>33 DEF vars, Lifecycle!vars
<1>34. ASSUME NEW w \in Strays, ReconcileStrayRaises(w)
      PROVE  [Lifecycle!Next]_(Lifecycle!vars)
  BY <1>34 DEF ReconcileStrayRaises, store, Lifecycle!vars
<1>. QED
  BY <1>1, <1>2, <1>3, <1>4, <1>5, <1>6, <1>7, <1>8, <1>9, <1>10, <1>11, <1>12, <1>13, <1>14,
     <1>15, <1>16, <1>17, <1>18, <1>19, <1>20, <1>21, <1>22, <1>23, <1>24, <1>25, <1>26, <1>27,
     <1>28, <1>29, <1>30, <1>31, <1>32, <1>33, <1>34
     DEF Next, Calls, CancelSteps, DispatchSteps, MonitorSteps, ReconcileSteps,
         ReconcileWorker

(* Every behaviour of the manager, its workers and its restarts is one of  *)
(* the abstract queue: runs start one at a time per conversation, oldest   *)
(* first, and keep their outcome.                                          *)
THEOREM RefinesLifecycle == Spec => ImplementsLifecycle
<1>1. Init => TypeOK /\ WatchInv /\ Lifecycle!Init
  BY TypeInit, WatchInit, LifecycleInit
<1>2. TypeOK /\ WatchInv /\ [Next]_vars
      => TypeOK' /\ WatchInv' /\ [Lifecycle!Next]_(Lifecycle!vars)
  BY TypeNext, WatchNext, LifecycleNext
<1>. QED
  BY <1>1, <1>2, PTL DEF Spec, ImplementsLifecycle, Lifecycle!Spec

-----------------------------------------------------------------------------
(* What the abstract steps give.                                           *)

LEMMA LifecycleOneRunning ==
    ASSUME StoreTypeOK, OneRunningRun, [Lifecycle!Next]_(Lifecycle!vars)
    PROVE  OneRunningRun'
<1>1. ASSUME NEW c \in Conversations, Lifecycle!Submit(c)
      PROVE  OneRunningRun'
  <2>. DEFINE n == Len(conv) + 1
  <2>1. n \in Runs /\ DOMAIN conv' = DOMAIN conv \cup {n}
    BY <1>1, BoundsAssumption DEF Lifecycle!Submit, StoreTypeOK, Runs
  <2>2. \A q \in DOMAIN conv : conv'[q] = conv[q] /\ status'[q] = status[q]
    BY <1>1 DEF Lifecycle!Submit, StoreTypeOK
  <2>3. status'[n] = "queued"
    BY <1>1, <2>1 DEF Lifecycle!Submit, StoreTypeOK
  <2>. QED
    BY <2>1, <2>2, <2>3 DEF OneRunningRun
<1>2. ASSUME NEW r \in Lifecycle!Runs, Lifecycle!Start(r)
      PROVE  OneRunningRun'
  BY <1>2 DEF Lifecycle!Start, OneRunningRun, StoreTypeOK
<1>3. ASSUME NEW r \in Lifecycle!Runs, Lifecycle!CancelQueued(r)
      PROVE  OneRunningRun'
  BY <1>3 DEF Lifecycle!CancelQueued, OneRunningRun, StoreTypeOK
<1>4. ASSUME NEW R \in SUBSET Lifecycle!Runs, Lifecycle!Settle(R)
      PROVE  OneRunningRun'
  BY <1>4, SubmittedAreRuns
     DEF Lifecycle!Settle, Lifecycle!Outcomes, OneRunningRun, Runs, Lifecycle!Runs
<1>5. CASE UNCHANGED Lifecycle!vars
  BY <1>5 DEF Lifecycle!vars, OneRunningRun
<1>. QED
  BY <1>1, <1>2, <1>3, <1>4, <1>5 DEF Lifecycle!Next

(* A conversation never has two running runs. *)
THEOREM OneRunningRunPerConversation == Spec => []OneRunningRun
<1>1. Init => TypeOK /\ WatchInv /\ OneRunningRun
  BY TypeInit, WatchInit DEF Init, OneRunningRun
<1>2. TypeOK /\ WatchInv /\ OneRunningRun /\ [Next]_vars
      => TypeOK' /\ WatchInv' /\ OneRunningRun'
  BY TypeNext, WatchNext, LifecycleNext, LifecycleOneRunning DEF TypeOK
<1>. QED
  BY <1>1, <1>2, PTL DEF Spec

LEMMA LifecycleFinal ==
    ASSUME StoreTypeOK, [Lifecycle!Next]_(Lifecycle!vars),
           NEW r \in Runs, status[r] \in TerminalStatuses
    PROVE  status'[r] = status[r]
<1>1. ASSUME NEW c \in Conversations, Lifecycle!Submit(c)
      PROVE  status'[r] = status[r]
  <2>1. Len(conv) + 1 \notin DOMAIN conv
    BY DEF StoreTypeOK
  <2>. QED
    BY <1>1, <2>1 DEF Lifecycle!Submit, StoreTypeOK, TerminalStatuses
<1>2. ASSUME NEW q \in Lifecycle!Runs, Lifecycle!Start(q) \/ Lifecycle!CancelQueued(q)
      PROVE  status'[r] = status[r]
  BY <1>2 DEF Lifecycle!Start, Lifecycle!CancelQueued, StoreTypeOK, TerminalStatuses
<1>3. ASSUME NEW R \in SUBSET Lifecycle!Runs, Lifecycle!Settle(R)
      PROVE  status'[r] = status[r]
  BY <1>3 DEF Lifecycle!Settle, TerminalStatuses, Runs, Lifecycle!Runs
<1>4. CASE UNCHANGED Lifecycle!vars
  BY <1>4 DEF Lifecycle!vars
<1>. QED
  BY <1>1, <1>2, <1>3, <1>4 DEF Lifecycle!Next

(* No step of any coroutine, crash or restart replaces an outcome. *)
THEOREM OutcomesAreFinal == Spec => OutcomeIsFinal
<1>1. Init => TypeOK /\ WatchInv
  BY TypeInit, WatchInit
<1>2. TypeOK /\ WatchInv /\ [Next]_vars
      => /\ TypeOK' /\ WatchInv'
         /\ \A r \in Runs : status[r] \in TerminalStatuses => status'[r] = status[r]
  BY TypeNext, WatchNext, LifecycleNext, LifecycleFinal DEF TypeOK
<1>. QED
  BY <1>1, <1>2, PTL DEF Spec, OutcomeIsFinal

-----------------------------------------------------------------------------
(* One live worker.  A worker that runs while the gateway serves belongs   *)
(* to a running run or to the dispatch that is about to stop it; while     *)
(* reconcile is on its way, to a run it has taken over or has yet to       *)
(* visit.  reconcile judges by the list of workers it made first, so this  *)
(* needs that no dispatch starts a worker behind its back: with two        *)
(* conversations one can, and a conversation may then have two workers.    *)

ReconcileIsAlone ==
    gateway = "reconciling" => \A c \in Conversations : dispatch[c].pc = "idle"

(* No fault that makes the gateway settle a run and leave it its worker: a *)
(* start that fails late, a failing podman logs, stop or inspect, output   *)
(* that cannot be ingested.                                                *)
WorkersAreStopped ==
    /\ Faults \cap {"lost start", "logs", "stop", "inspect"} = {}
    /\ "foreign" \notin Outputs

AtRest == gateway = "down" =>
    /\ \A c \in Conversations : dispatch[c].pc = "idle" /\ dispatches[c] = 0
    /\ \A r \in Runs : monitor[r] = "none" /\ canceller[r] = "none"

Begun(r) == status[r] \notin {"absent", "queued"}

BegunFirst == \A r \in Runs : attached[r] \/ container[r] # "absent" => Begun(r)

(* The dispatch that holds a conversation's lock starts its only running   *)
(* run, or one that was cancelled meanwhile.                               *)
Holds(c) == dispatch[c].pc # "idle" =>
    /\ dispatch[c].run \in DOMAIN conv /\ conv[dispatch[c].run] = c
    /\ Begun(dispatch[c].run) /\ ~attached[dispatch[c].run]
    /\ dispatch[c].pc = "starting" => container[dispatch[c].run] # "running"
    /\ \A q \in DOMAIN conv : conv[q] = c /\ q # dispatch[c].run => status[q] # "running"

Holding == \A c \in Conversations : Holds(c)

Cancelling ==
    \A r \in Runs : /\ canceller[r] # "none" => attached[r]
                    /\ canceller[r] = "drain" => container[r] # "running"

(* The dispatch that finds its run settled when start() returns.           *)
Discarded(r) == \E c \in Conversations : dispatch[c] = [pc |-> "created", run |-> r]

Owner(r) ==
    /\ gateway = "serving" => status[r] = "running" \/ Discarded(r)
    /\ gateway = "reconciling" =>
          /\ r \in recon.live /\ r \in recon.listed
          /\ r \in recon.todo \/ (status[r] = "running" /\ attached[r])

Owned == \A r \in Runs : container[r] = "running" => Owner(r)

(* No run runs beside the worker of another run of its conversation.       *)
NothingBeside ==
    \A q, r \in DOMAIN conv :
        conv[q] = conv[r] /\ container[q] = "running" /\ status[r] = "running" => q = r

WorkerInv ==
    /\ AtRest /\ BegunFirst /\ Holding /\ Cancelling /\ Owned
    /\ NothingBeside /\ OneRunningRun /\ OneLiveWorker

LEMMA WorkerInit == Init => WorkerInv
<1>. SUFFICES ASSUME Init PROVE WorkerInv
  OBVIOUS
<1>1. \A r \in Runs : container[r] = "absent" /\ ~attached[r]
  BY StraysAssumption DEF Init, Workers
<1>2. DOMAIN conv = {} /\ gateway = "down"
  BY DEF Init
<1>3. AtRest /\ Holding /\ Cancelling
  BY DEF Init, AtRest, Holding, Holds, Cancelling, NoDispatch
<1>. QED
  BY <1>1, <1>2, <1>3
     DEF WorkerInv, BegunFirst, Owned, NothingBeside, OneRunningRun, OneLiveWorker

(* Most steps only settle runs without a worker of their own, or stop      *)
(* workers.                                                                *)
Settling(r) ==
    \/ status'[r] = status[r]
    \/ /\ status[r] \in {"queued", "running"} /\ status'[r] \in TerminalStatuses
       /\ container[r] = "running" =>
             gateway = "serving" /\ Discarded(r)

LEMMA Quietens ==
    ASSUME TypeOK, WorkerInv,
           UNCHANGED <<conv, attached, gateway, recon, dispatch>>,
           AtRest',
           \A r \in Runs : /\ container'[r] = "running" => container[r] = "running"
                           /\ container'[r] # "absent" => container[r] # "absent"
                           /\ Settling(r)
                           /\ canceller'[r] # "none" => attached[r]
                           /\ canceller'[r] = "drain" => container'[r] # "running"
    PROVE  WorkerInv'
<1>. USE DEF TypeOK, StoreTypeOK, ProcessTypeOK, BackendTypeOK
<1>1. \A r \in Runs : status'[r] = "running" => status[r] = "running"
  BY DEF Settling, TerminalStatuses
<1>2. \A r \in Runs : Begun(r) => Begun(r)'
  BY DEF Settling, TerminalStatuses, Begun
<1>3. DOMAIN conv \subseteq Runs
  BY SubmittedAreRuns
<1>4. BegunFirst'
  BY <1>2 DEF WorkerInv, BegunFirst
<1>5. Holding'
  <2>1. ASSUME NEW c \in Conversations PROVE Holds(c)'
    <3>. SUFFICES ASSUME dispatch[c].pc # "idle" PROVE Holds(c)'
      BY DEF Holds
    <3>1. Holds(c) /\ dispatch[c].run \in Runs
      BY <1>3 DEF WorkerInv, Holding, Holds
    <3>2. Begun(dispatch[c].run)'
      BY <1>2, <3>1 DEF Holds, Begun
    <3>3. \A q \in DOMAIN conv : conv[q] = c /\ q # dispatch[c].run => status'[q] # "running"
      BY <1>1, <1>3, <3>1 DEF Holds
    <3>. QED
      BY <3>1, <3>2, <3>3 DEF Holds, Begun
  <2>. QED
    BY <2>1 DEF Holding
<1>6. Cancelling'
  BY DEF Cancelling
<1>7. Owned'
  <2>. SUFFICES ASSUME NEW r \in Runs, container'[r] = "running" PROVE Owner(r)'
    BY DEF Owned
  <2>1. Owner(r)
    BY DEF WorkerInv, Owned
  <2>. QED
    BY <2>1 DEF Owner, Settling, Discarded
<1>8. NothingBeside' /\ OneRunningRun' /\ OneLiveWorker'
  BY <1>1, <1>3 DEF WorkerInv, NothingBeside, OneRunningRun, OneLiveWorker
<1>. QED
  BY <1>4, <1>5, <1>6, <1>7, <1>8 DEF WorkerInv

(* transition_run settles a run that has no running worker.                *)
LEMMA SettleEnds ==
    ASSUME StoreTypeOK, NEW r, NEW log, NEW outcome \in TerminalStatuses,
           SettleRunning(r, log, outcome), r \in Runs => container[r] # "running"
    PROVE  \A q \in Runs : Settling(q)
BY DEF SettleRunning, StoreTypeOK, Settling

(* Without these faults ingestion never raises.                            *)
LEMMA OutputsBind ==
    ASSUME BackendTypeOK, WorkersAreStopped PROVE \A r \in Runs : ~Raises(Logs(r))
<1>. SUFFICES ASSUME NEW r \in Runs PROVE ~Raises(Logs(r))
  OBVIOUS
<1>1. out[r] \in Seq(Outputs)
  BY DEF BackendTypeOK
<1>2. ASSUME NEW i \in DOMAIN out[r] PROVE out[r][i] # "foreign"
  <2>1. out[r][i] \in Outputs
    BY <1>1
  <2>. QED
    BY <2>1 DEF WorkersAreStopped
<1>. QED
  BY <1>2 DEF Raises, Logs

LEMMA NothingFails ==
    ASSUME BackendTypeOK, WorkersAreStopped, NEW r \in Runs, NEW log
    PROVE  FailedIngest(r, log) = {}
BY OutputsBind DEF FailedIngest, WorkersAreStopped

(* Calls, cancellations, monitors and the workers themselves.              *)
LEMMA QuietSteps ==
    ASSUME TypeOK, WatchInv, WorkerInv, ReconcileIsAlone, WorkersAreStopped,
           NEW r \in Runs,
           \/ CancelQueued(r) \/ CancelStarting(r) \/ CancelRequest(r) \/ CancelSteps(r)
           \/ MonitorSteps(r) \/ Exit(r) \/ Vanish(r) \/ \E kind \in Outputs : Emit(r, kind)
    PROVE  WorkerInv'
<1>. USE DEF TypeOK, StoreTypeOK, ProcessTypeOK, BackendTypeOK, AtRest, Cancelling,
            store, backend, process, coroutines
<1>0. AtRest /\ Cancelling /\ BegunFirst
  BY DEF WorkerInv
<1>1. ASSUME CancelQueued(r) PROVE WorkerInv'
  <2>1. AtRest' /\ Cancelling' /\ \A q \in Runs : Settling(q)
    BY <1>0, <1>1 DEF CancelQueued, Settling, TerminalStatuses, BegunFirst, Begun
  <2>. QED
    BY <1>1, <2>1, Quietens DEF CancelQueued
<1>2. ASSUME CancelStarting(r) PROVE WorkerInv'
  <2>1. AtRest' /\ Cancelling'
    BY <1>0, <1>2 DEF CancelStarting
  <2>2. PICK c \in Conversations : dispatch[c].pc # "idle" /\ dispatch[c].run = r
    BY <1>2 DEF CancelStarting, WatchInv, RunningIsWatchedOrOwed, Watched, Owed
  <2>3. container[r] = "running" => dispatch[c] = [pc |-> "created", run |-> r]
    BY <2>2 DEF WorkerInv, Holding, Holds
  <2>4. \A q \in Runs : Settling(q)
    BY <1>2, <2>3 DEF CancelStarting, Discarded, SettleRunning, Settling, TerminalStatuses
  <2>. QED
    BY <1>2, <2>1, <2>4, Quietens DEF CancelStarting
<1>3. ASSUME CancelRequest(r) PROVE WorkerInv'
  <2>1. AtRest' /\ Cancelling' /\ \A q \in Runs : Settling(q)
    BY <1>0, <1>3 DEF CancelRequest, Settling, TerminalStatuses
  <2>. QED
    BY <1>3, <2>1, Quietens DEF CancelRequest
<1>4. ASSUME CancelStop(r) PROVE WorkerInv'
  <2>1. \A q \in Runs : /\ container'[q] = "running" => container[q] = "running" /\ q # r
                        /\ container'[q] # "absent" => container[q] # "absent"
    BY <1>4, StopEnds DEF CancelStop, WorkersAreStopped, Workers
  <2>2. AtRest' /\ \A q \in Runs : Settling(q)
    BY <1>0, <1>4 DEF CancelStop, Settling, TerminalStatuses
  <2>3. /\ canceller' = [canceller EXCEPT ![r] = "drain"] /\ canceller[r] = "stop"
        /\ UNCHANGED attached
    BY <1>4 DEF CancelStop
  <2>4. Cancelling'
    BY <1>0, <2>1, <2>3
  <2>. QED
    BY <1>4, <2>1, <2>2, <2>4, Quietens DEF CancelStop
<1>5. ASSUME CancelSettle(r) PROVE WorkerInv'
  <2>1. AtRest' /\ Cancelling'
    BY <1>0, <1>5 DEF CancelSettle
  <2>2. \A q \in Runs : Settling(q)
    BY <1>0, <1>5, SettleEnds, VerdictIsOutcome DEF CancelSettle, TerminalStatuses
  <2>. QED
    BY <1>5, <2>1, <2>2, Quietens DEF CancelSettle
<1>6. ASSUME CancelRaises(r) PROVE WorkerInv'
  BY <1>6, NothingFails DEF CancelRaises, WorkersAreStopped
<1>7. ASSUME MonitorReturn(r) PROVE WorkerInv'
  <2>1. AtRest' /\ Cancelling' /\ \A q \in Runs : Settling(q)
    BY <1>0, <1>7 DEF MonitorReturn, Settling, TerminalStatuses
  <2>. QED
    BY <1>7, <2>1, Quietens DEF MonitorReturn
<1>8. ASSUME MonitorIngest(r) PROVE WorkerInv'
  <2>1. AtRest' /\ Cancelling' /\ \A q \in Runs : Settling(q)
    BY <1>0, <1>8 DEF MonitorIngest, Settling, TerminalStatuses
  <2>. QED
    BY <1>8, <2>1, Quietens DEF MonitorIngest
<1>9. ASSUME MonitorAlive(r) PROVE WorkerInv'
  <2>1. AtRest' /\ Cancelling' /\ \A q \in Runs : Settling(q)
    BY <1>0, <1>9 DEF MonitorAlive, Settling, TerminalStatuses
  <2>. QED
    BY <1>9, <2>1, Quietens DEF MonitorAlive
<1>10. ASSUME MonitorMissing(r) PROVE WorkerInv'
  <2>1. AtRest' /\ Cancelling'
    BY <1>0, <1>10 DEF MonitorMissing
  <2>2. \A q \in Runs : Settling(q)
    BY <1>0, <1>10, SettleEnds DEF MonitorMissing, TerminalStatuses, WorkersAreStopped
  <2>. QED
    BY <1>10, <2>1, <2>2, Quietens DEF MonitorMissing
<1>11. ASSUME MonitorFinalize(r) PROVE WorkerInv'
  <2>1. AtRest' /\ Cancelling'
    BY <1>0, <1>11 DEF MonitorFinalize, Finalize
  <2>2. PICK log : SettleRunning(r, log, Verdict(log, FALSE)) /\ container[r] # "running"
    BY <1>11 DEF MonitorFinalize, Finalize
  <2>3. \A q \in Runs : Settling(q)
    BY <2>2, SettleEnds, VerdictIsOutcome
  <2>. QED
    BY <1>11, <2>1, <2>3, Quietens DEF MonitorFinalize
<1>12. ASSUME MonitorRaises(r) PROVE WorkerInv'
  BY <1>12, NothingFails DEF MonitorRaises, WorkersAreStopped
<1>13. ASSUME Exit(r) PROVE WorkerInv'
  <2>1. AtRest' /\ Cancelling' /\ \A q \in Runs : Settling(q)
    BY <1>0, <1>13 DEF Exit, Settling, TerminalStatuses
  <2>. QED
    BY <1>13, <2>1, Quietens DEF Exit
<1>14. ASSUME Vanish(r) PROVE WorkerInv'
  <2>1. AtRest' /\ Cancelling' /\ \A q \in Runs : Settling(q)
    BY <1>0, <1>14 DEF Vanish, Settling, TerminalStatuses
  <2>. QED
    BY <1>14, <2>1, Quietens DEF Vanish
<1>15. ASSUME NEW kind \in Outputs, Emit(r, kind) PROVE WorkerInv'
  <2>1. AtRest' /\ Cancelling' /\ \A q \in Runs : Settling(q)
    BY <1>0, <1>15 DEF Emit, Settling, TerminalStatuses
  <2>. QED
    BY <1>15, <2>1, Quietens DEF Emit
<1>. QED
  BY <1>1, <1>2, <1>3, <1>4, <1>5, <1>6, <1>7, <1>8, <1>9, <1>10, <1>11, <1>12, <1>13,
      <1>14, <1>15
     DEF CancelSteps, MonitorSteps

(* A dispatch, which holds its conversation's lock.                        *)
LEMMA DispatchKeeps ==
    ASSUME TypeOK, WatchInv, WorkerInv, ReconcileIsAlone, ReconcileIsAlone', OneRunningRun',
           WorkersAreStopped, NEW c \in Conversations, Submit(c) \/ DispatchSteps(c)
    PROVE  WorkerInv'
<1>0. /\ AtRest /\ BegunFirst /\ Holding /\ Cancelling /\ Owned /\ NothingBeside
      /\ OneRunningRun /\ OneLiveWorker
  BY DEF WorkerInv
<1>a. DOMAIN conv \subseteq Runs /\ \A r \in Runs : r \in Workers
  BY SubmittedAreRuns DEF Workers, TypeOK
<1>t. /\ status \in [Runs -> {"absent"} \cup LiveStatuses \cup TerminalStatuses]
      /\ attached \in [Runs -> BOOLEAN]
      /\ container \in [Workers -> {"absent", "running", "exited", "removed"}]
      /\ gateway \in {"down", "reconciling", "serving"}
      /\ dispatches \in [Conversations -> Nat]
      /\ dispatch \in [Conversations ->
                          [pc : {"idle", "starting", "created"}, run : Runs \cup {0}]]
      /\ monitor \in [Runs -> {"none", "poll", "inspect"}]
      /\ canceller \in [Runs -> {"none", "stop", "drain"}]
  BY DEF TypeOK, StoreTypeOK, BackendTypeOK, ProcessTypeOK
<1>b. dispatch[c].pc # "idle" => gateway = "serving"
  BY <1>t, <1>0 DEF AtRest, ReconcileIsAlone
<1>c. ASSUME NEW q \in DOMAIN conv, conv[q] = c, container[q] = "running", gateway = "serving"
      PROVE  status[q] = "running" \/ dispatch[c] = [pc |-> "created", run |-> q]
  <2>1. CASE status[q] # "running"
    <3>1. PICK e \in Conversations : dispatch[e] = [pc |-> "created", run |-> q]
      BY <1>t, <2>1, <1>0, <1>a, <1>c DEF Owned, Owner, Discarded
    <3>2. Holds(e)
      BY <1>t, <1>0 DEF Holding
    <3>3. conv[q] = e
      BY <1>t, <3>1, <3>2 DEF Holds
    <3>. QED
      BY <1>t, <3>1, <3>3, <1>c
  <2>. QED
    BY <1>t, <2>1
<1>1. ASSUME Submit(c) PROVE WorkerInv'
  <2>. DEFINE n == Len(conv) + 1
  <2>1. /\ n \in Runs /\ DOMAIN conv' = DOMAIN conv \cup {n} /\ n \notin DOMAIN conv
        /\ \A q \in DOMAIN conv : conv'[q] = conv[q]
    BY <1>1, BoundsAssumption DEF Submit, Runs, TypeOK, StoreTypeOK
  <2>2. /\ status[n] = "absent"
        /\ \A q \in Runs : status'[q] = IF q = n THEN "queued" ELSE status[q]
    BY <1>1, <2>1 DEF Submit, TypeOK, StoreTypeOK
  <2>3. UNCHANGED <<attached, container, gateway, recon, dispatch, canceller, monitor>>
    BY <1>t, <1>1 DEF Submit, backend
  <2>. HIDE DEF n
  <2>4. AtRest' /\ Cancelling'
    BY <1>t, <1>0, <1>1, <2>3 DEF Submit, AtRest, Cancelling
  <2>5. BegunFirst' /\ Owned'
    BY <1>t, <1>0, <2>2, <2>3 DEF BegunFirst, Begun, Owned, Owner, Discarded
  <2>6. ASSUME NEW e \in Conversations PROVE Holds(e)'
    <3>1. Holds(e) /\ dispatch'[e] = dispatch[e]
      BY <1>t, <1>0, <2>3 DEF Holding
    <3>. QED
      BY <1>t, <3>1, <1>a, <2>1, <2>2, <2>3 DEF Holds, Begun
  <2>7. NothingBeside' /\ OneLiveWorker'
    BY <1>t, <1>0, <1>a, <2>1, <2>2, <2>3
       DEF NothingBeside, OneLiveWorker, BegunFirst, Begun
  <2>. QED
    BY <1>t, <2>4, <2>5, <2>6, <2>7 DEF WorkerInv, Holding
<1>2. ASSUME DispatchNothing(c) PROVE WorkerInv'
  <2>1. AtRest' /\ Cancelling' /\ \A q \in Runs : Settling(q)
    BY <1>t, <1>0, <1>2 DEF DispatchNothing, store, backend, AtRest, Cancelling, Settling
  <2>. QED
    BY <1>t, <1>2, <2>1, Quietens DEF DispatchNothing, store, backend, Cancelling
<1>3. ASSUME DispatchClaim(c) PROVE WorkerInv'
  <2>1. PICK r \in NextQueued(c) :
           /\ status' = [status EXCEPT ![r] = "running"]
           /\ dispatch' = [dispatch EXCEPT ![c] = [pc |-> "starting", run |-> r]]
    BY <1>t, <1>3 DEF DispatchClaim
  <2>2. /\ r \in DOMAIN conv /\ conv[r] = c /\ status[r] = "queued"
        /\ \A q \in DOMAIN conv : conv[q] = c => status[q] # "running"
    BY <1>t DEF NextQueued, QueuedIn, RunningIn
  <2>3. UNCHANGED <<conv, attached, container, gateway, recon, canceller, monitor>>
    BY <1>t, <1>3 DEF DispatchClaim, backend
  <2>4. dispatch[c].pc = "idle" /\ gateway = "serving"
    BY <1>t, <1>3, <1>0, <2>1, <2>3 DEF DispatchClaim, AtRest, ReconcileIsAlone
  <2>5. \A q \in DOMAIN conv : conv[q] = c => container[q] # "running"
    BY <1>t, <1>c, <2>2, <2>4
  <2>6. r \in Runs /\ container[r] # "running" /\ ~attached[r]
    BY <1>t, <1>0, <1>a, <2>2 DEF BegunFirst, Begun
  <2>7. AtRest' /\ Cancelling' /\ BegunFirst'
    BY <1>t, <1>0, <2>1, <2>3, <2>4, <2>6 DEF AtRest, Cancelling, BegunFirst, Begun
  <2>8. Holding'
    <3>1. Holds(c)'
      BY <1>t, <1>a, <2>1, <2>2, <2>3, <2>4, <2>6 DEF Holds, Begun
    <3>2. ASSUME NEW e \in Conversations, e # c PROVE Holds(e)'
      <4>1. Holds(e) /\ dispatch'[e] = dispatch[e]
        BY <1>t, <1>0, <2>1, <3>2 DEF Holding
      <4>2. \A q \in DOMAIN conv : conv[q] = e => status'[q] = status[q]
        BY <1>t, <1>a, <2>1, <2>2, <3>2
      <4>3. CASE dispatch[e].pc = "idle"
        BY <4>1, <4>3 DEF Holds
      <4>4. CASE dispatch[e].pc # "idle"
        <5>1. status'[dispatch[e].run] = status[dispatch[e].run]
          BY <4>1, <4>2, <4>4 DEF Holds
        <5>. QED
          BY <1>t, <4>1, <4>2, <5>1, <2>3 DEF Holds, Begun
      <4>. QED
        BY <4>3, <4>4
    <3>. QED
      BY <1>t, <3>1, <3>2 DEF Holding
  <2>9. Owned'
    <3>1. ASSUME NEW q \in Runs, container[q] = "running"
          PROVE  status'[q] = "running" \/ Discarded(q)'
      <4>1. CASE status[q] = "running"
        BY <4>1, <1>t, <2>1, <2>6
      <4>2. CASE status[q] # "running"
        <5>1. PICK e \in Conversations : dispatch[e] = [pc |-> "created", run |-> q]
          BY <4>2, <3>1, <1>0, <2>4 DEF Owned, Owner, Discarded
        <5>2. e # c
          BY <5>1, <2>4
        <5>. QED
          BY <1>t, <5>1, <5>2, <2>1 DEF Discarded
      <4>. QED
        BY <4>1, <4>2
    <3>. QED
      BY <3>1, <2>3, <2>4 DEF Owned, Owner, Discarded
  <2>10. NothingBeside' /\ OneLiveWorker'
    BY <1>t, <1>0, <1>a, <2>1, <2>2, <2>3, <2>5 DEF NothingBeside, OneLiveWorker
  <2>. QED
    BY <1>t, <2>7, <2>8, <2>9, <2>10 DEF WorkerInv
<1>4. ASSUME DispatchCreate(c) PROVE WorkerInv'
  <2>. DEFINE r == dispatch[c].run
  <2>1. /\ r \in DOMAIN conv /\ r \in Runs /\ conv[r] = c /\ Begun(r) /\ ~attached[r]
        /\ \A q \in DOMAIN conv : conv[q] = c /\ q # r => status[q] # "running"
    BY <1>t, <1>0, <1>4, <1>a DEF Holding, Holds, DispatchCreate
  <2>2. gateway = "serving"
    BY <1>t, <1>4, <1>b DEF DispatchCreate
  <2>3. /\ container' = [container EXCEPT ![r] = "running"]
        /\ dispatch' = [dispatch EXCEPT ![c] = [pc |-> "created", run |-> r]]
        /\ UNCHANGED <<conv, status, attached, gateway, recon, dispatches, canceller, monitor>>
    <3>1. [dispatch[c] EXCEPT !.pc = "created"] = [pc |-> "created", run |-> r]
      BY <1>t
    <3>2. dispatch' = [dispatch EXCEPT ![c] = [dispatch[c] EXCEPT !.pc = "created"]]
      BY <1>t, <1>4 DEF DispatchCreate
    <3>. QED
      BY <1>t, <1>4, <3>1, <3>2 DEF DispatchCreate, store
  <2>4. \A q \in DOMAIN conv : conv[q] = c /\ q # r => container[q] # "running"
    BY <1>t, <1>c, <2>1, <2>2
  <2>. HIDE DEF r
  <2>5. AtRest' /\ Cancelling' /\ BegunFirst'
    BY <1>t, <1>0, <2>1, <2>2, <2>3 DEF AtRest, Cancelling, BegunFirst, Begun
  <2>6. Holding'
    <3>1. Holds(c)'
      BY <1>t, <1>0, <1>a, <2>1, <2>3 DEF Holding, Holds, Begun
    <3>2. ASSUME NEW e \in Conversations, e # c PROVE Holds(e)'
      <4>1. Holds(e) /\ dispatch'[e] = dispatch[e]
        BY <1>t, <1>0, <2>3, <3>2 DEF Holding
      <4>. QED
        BY <1>t, <4>1, <1>a, <2>1, <2>3, <3>2 DEF Holds, Begun
    <3>. QED
      BY <1>t, <3>1, <3>2 DEF Holding
  <2>7. Owned'
    <3>1. ASSUME NEW q \in Runs, container'[q] = "running"
          PROVE  status[q] = "running" \/ Discarded(q)'
      <4>1. CASE q = r
        BY <4>1, <1>t, <2>3 DEF Discarded
      <4>2. CASE q # r /\ status[q] # "running"
        <5>1. PICK e \in Conversations : dispatch[e] = [pc |-> "created", run |-> q]
          BY <4>2, <3>1, <1>t, <1>0, <1>a, <2>1, <2>2, <2>3 DEF Owned, Owner, Discarded
        <5>2. e # c
          BY <5>1, <4>2 DEF r
        <5>. QED
          BY <1>t, <5>1, <5>2, <2>3 DEF Discarded
      <4>. QED
        BY <4>1, <4>2
    <3>. QED
      BY <3>1, <2>2, <2>3 DEF Owned, Owner, Discarded
  <2>8. OneRunningRun' /\ NothingBeside' /\ OneLiveWorker'
    BY <1>t, <1>0, <1>a, <2>1, <2>3, <2>4 DEF NothingBeside, OneLiveWorker, OneRunningRun
  <2>. QED
    BY <1>t, <2>5, <2>6, <2>7, <2>8 DEF WorkerInv
<1>5. ASSUME DispatchAttach(c) PROVE WorkerInv'
  <2>. DEFINE r == dispatch[c].run
  <2>1. r \in DOMAIN conv /\ r \in Runs /\ conv[r] = c /\ Begun(r) /\ ~attached[r]
    BY <1>t, <1>0, <1>5, <1>a DEF Holding, Holds, DispatchAttach
  <2>2. gateway = "serving"
    BY <1>t, <1>5, <1>b DEF DispatchAttach
  <2>3. /\ status[r] = "running" /\ attached' = [attached EXCEPT ![r] = TRUE]
        /\ dispatch' = [dispatch EXCEPT ![c] = NoDispatch]
        /\ UNCHANGED <<conv, status, container, gateway, recon, dispatches, canceller>>
    BY <1>t, <1>5 DEF DispatchAttach, backend
  <2>. HIDE DEF r
  <2>4. AtRest' /\ Cancelling' /\ BegunFirst'
    BY <1>t, <1>0, <2>1, <2>2, <2>3 DEF AtRest, Cancelling, BegunFirst, Begun
  <2>5. Holding'
    <3>1. Holds(c)'
      BY <1>t, <1>0, <1>a, <2>1, <2>3 DEF Holding, Holds, Begun, NoDispatch
    <3>2. ASSUME NEW e \in Conversations, e # c PROVE Holds(e)'
      <4>1. Holds(e) /\ dispatch'[e] = dispatch[e]
        BY <1>t, <1>0, <2>3, <3>2 DEF Holding
      <4>. QED
        BY <1>t, <4>1, <1>a, <2>1, <2>3, <3>2 DEF Holds, Begun
    <3>. QED
      BY <1>t, <3>1, <3>2 DEF Holding
  <2>6. Owned'
    <3>1. ASSUME NEW q \in Runs, container[q] = "running"
          PROVE  status[q] = "running" \/ Discarded(q)'
      <4>1. CASE status[q] = "running"
        BY <1>t, <4>1
      <4>2. CASE status[q] # "running"
        <5>1. PICK e \in Conversations : dispatch[e] = [pc |-> "created", run |-> q]
          BY <1>t, <4>2, <3>1, <1>0, <2>2 DEF Owned, Owner, Discarded
        <5>2. e # c
          BY <1>t, <5>1, <4>2, <2>3 DEF r
        <5>. QED
          BY <1>t, <5>1, <5>2, <2>3 DEF Discarded
      <4>. QED
        BY <1>t, <4>1, <4>2
    <3>. QED
      BY <1>t, <3>1, <2>2, <2>3 DEF Owned, Owner, Discarded
  <2>7. OneRunningRun' /\ NothingBeside' /\ OneLiveWorker'
    BY <1>t, <1>0, <2>3 DEF NothingBeside, OneLiveWorker, OneRunningRun
  <2>. QED
    BY <1>t, <2>4, <2>5, <2>6, <2>7 DEF WorkerInv
<1>6. ASSUME DispatchDiscard(c) \/ DispatchRaises(c) PROVE WorkerInv'
  <2>. DEFINE r == dispatch[c].run
  <2>1. r \in DOMAIN conv /\ r \in Runs /\ conv[r] = c /\ Begun(r) /\ ~attached[r]
    BY <1>t, <1>0, <1>6, <1>a DEF Holding, Holds, DispatchDiscard, DispatchRaises
  <2>2. gateway = "serving"
    BY <1>t, <1>6, <1>b DEF DispatchDiscard, DispatchRaises
  <2>3. /\ dispatch' = [dispatch EXCEPT ![c] = NoDispatch]
        /\ UNCHANGED <<conv, attached, gateway, recon, canceller, monitor>>
        /\ \A q \in Runs : container'[q] = "running" => container[q] = "running" /\ q # r
        /\ \A q \in Runs : container'[q] # "absent" => container[q] # "absent"
        /\ \A q \in Runs : status'[q] = status[q] \/ (q = r /\ status'[q] \in TerminalStatuses)
    <3>1. CASE DispatchDiscard(c)
      <4>1. BackendTypeOK /\ r \in Workers /\ StopContainer(r) /\ "inspect" \notin Faults
        BY <3>1, <2>1 DEF DispatchDiscard, TypeOK, Workers, WorkersAreStopped
      <4>2. \A q \in Runs : /\ container'[q] = "running" => container[q] = "running" /\ q # r
                            /\ container'[q] # "absent" => container[q] # "absent"
        BY <4>1, StopEnds DEF Workers
      <4>. QED
        BY <3>1, <4>2 DEF DispatchDiscard
    <3>2. CASE DispatchRaises(c)
      <4>1. dispatch[c].pc = "starting"
        BY <1>t, <3>2 DEF DispatchRaises, WorkersAreStopped
      <4>2. container[r] # "running"
        BY <1>t, <4>1, <1>0 DEF Holding, Holds
      <4>. QED
        BY <1>t, <3>2, <4>2, <2>1
           DEF DispatchRaises, SettleRunning, backend, TerminalStatuses
    <3>. QED
      BY <1>t, <1>6, <3>1, <3>2
  <2>. HIDE DEF r
  <2>4. AtRest' /\ Cancelling' /\ BegunFirst'
    BY <1>t, <1>0, <2>1, <2>2, <2>3
       DEF AtRest, Cancelling, BegunFirst, Begun, TerminalStatuses
  <2>5. Holding'
    <3>1. Holds(c)'
      BY <1>t, <2>3 DEF Holds, NoDispatch
    <3>2. ASSUME NEW e \in Conversations, e # c PROVE Holds(e)'
      <4>1. Holds(e) /\ dispatch'[e] = dispatch[e]
        BY <1>t, <1>0, <2>3, <3>2 DEF Holding
      <4>2. \A q \in DOMAIN conv : conv[q] = e => status'[q] = status[q]
        BY <1>t, <1>a, <2>1, <2>3, <3>2
      <4>. QED
        BY <1>t, <4>1, <4>2, <1>a, <2>1, <2>3 DEF Holds, Begun
    <3>. QED
      BY <1>t, <3>1, <3>2 DEF Holding
  <2>6. Owned'
    <3>1. ASSUME NEW q \in Runs, container'[q] = "running"
          PROVE  status'[q] = "running" \/ Discarded(q)'
      <4>1. container[q] = "running" /\ q # r /\ status'[q] = status[q]
        BY <1>t, <3>1, <2>3
      <4>2. CASE status[q] = "running"
        BY <1>t, <4>1, <4>2
      <4>3. CASE status[q] # "running"
        <5>1. PICK e \in Conversations : dispatch[e] = [pc |-> "created", run |-> q]
          BY <1>t, <4>1, <4>3, <1>0, <2>2 DEF Owned, Owner, Discarded
        <5>2. e # c
          BY <1>t, <5>1, <4>1 DEF r
        <5>. QED
          BY <1>t, <5>1, <5>2, <2>3 DEF Discarded
      <4>. QED
        BY <1>t, <4>2, <4>3
    <3>. QED
      BY <1>t, <3>1, <2>2, <2>3 DEF Owned, Owner, Discarded
  <2>7. OneRunningRun' /\ NothingBeside' /\ OneLiveWorker'
    BY <1>t, <1>0, <1>a, <2>3
       DEF NothingBeside, OneLiveWorker, OneRunningRun, TerminalStatuses
  <2>. QED
    BY <1>t, <2>4, <2>5, <2>6, <2>7 DEF WorkerInv
<1>. QED
  BY <1>t, <1>1, <1>2, <1>3, <1>4, <1>5, <1>6 DEF DispatchSteps

(* reconcile visits each worker it has listed.                             *)
LEMMA ReconcileKeeps ==
    ASSUME TypeOK, WatchInv, WorkerInv, ReconcileIsAlone, ReconcileIsAlone', OneRunningRun',
           WorkersAreStopped, ReconcileSteps
    PROVE  WorkerInv'
<1>0. /\ AtRest /\ BegunFirst /\ Cancelling /\ Owned /\ NothingBeside
      /\ OneRunningRun /\ OneLiveWorker
  BY DEF WorkerInv
<1>a. DOMAIN conv \subseteq Runs /\ (\A r \in Runs : r \in Workers) /\ Strays \cap Runs = {}
  BY SubmittedAreRuns, StraysAssumption DEF Workers, TypeOK
<1>t. /\ status \in [Runs -> {"absent"} \cup LiveStatuses \cup TerminalStatuses]
      /\ attached \in [Runs -> BOOLEAN]
      /\ container \in [Workers -> {"absent", "running", "exited", "removed"}]
      /\ recon \in [todo : SUBSET Workers, live : SUBSET Workers, listed : SUBSET Workers]
  BY DEF TypeOK, StoreTypeOK, BackendTypeOK, ProcessTypeOK
<1>g. gateway = "reconciling"
  BY DEF ReconcileSteps, ReconcileWorker, ReconcileStray, ReconcileSettled,
      ReconcileMonitor,
         ReconcileFinalize, ReconcileRaises, ReconcileStrayRaises, ReconcileSweep,
         Reconciling
<1>i. \A c \in Conversations : dispatch[c].pc = "idle"
  BY <1>g DEF ReconcileIsAlone
<1>r. \A w : Reconciling(w) => /\ recon'.todo = recon.todo \ {w}
                               /\ recon'.live = recon.live /\ recon'.listed = recon.listed
  BY <1>t DEF Reconciling
<1>1. ASSUME NEW w \in Strays, ReconcileStray(w) PROVE WorkerInv'
  <2>1. /\ UNCHANGED <<conv, status, attached, gateway, dispatches, dispatch, monitor,
                       canceller>>
        /\ \A r \in Runs : container'[r] = container[r]
        /\ \A r \in Runs : r \in recon'.todo <=> r \in recon.todo
        /\ recon'.live = recon.live /\ recon'.listed = recon.listed
    BY <1>1, <1>a, <1>t, <1>r DEF ReconcileStray, coroutines
  <2>. QED
    BY <1>0, <1>a, <1>g, <1>i, <2>1
       DEF WorkerInv, AtRest, BegunFirst, Begun, Holding, Holds, Cancelling, Owned, Owner,
         NothingBeside, OneLiveWorker, OneRunningRun
<1>2. ASSUME NEW r \in Runs, ReconcileSettled(r) PROVE WorkerInv'
  <2>1. /\ UNCHANGED <<conv, status, attached, gateway, dispatches, dispatch, monitor,
                       canceller>>
        /\ \A q \in Runs : container'[q] = "running" => container[q] = "running" /\ q # r
        /\ \A q \in Runs : container'[q] # "absent" => container[q] # "absent"
        /\ recon'.todo = recon.todo \ {r}
        /\ recon'.live = recon.live /\ recon'.listed = recon.listed
    BY <1>2, <1>a, <1>t, <1>r DEF ReconcileSettled, StopContainer, coroutines,
                                  WorkersAreStopped
  <2>. QED
    BY <1>0, <1>a, <1>g, <1>i, <2>1
       DEF WorkerInv, AtRest, BegunFirst, Begun, Holding, Holds, Cancelling, Owned, Owner,
         NothingBeside, OneLiveWorker, OneRunningRun
<1>3. ASSUME NEW r \in Runs, ReconcileMonitor(r) PROVE WorkerInv'
  <2>1. /\ UNCHANGED <<conv, status, container, gateway, dispatches, dispatch, canceller>>
        /\ status[r] = "running" /\ attached' = [attached EXCEPT ![r] = TRUE]
        /\ recon'.todo = recon.todo \ {r}
        /\ recon'.live = recon.live /\ recon'.listed = recon.listed
    BY <1>3, <1>r DEF ReconcileMonitor, backend
  <2>. QED
    BY <1>0, <1>a, <1>t, <1>g, <1>i, <2>1
       DEF WorkerInv, AtRest, BegunFirst, Begun, Holding, Holds, Cancelling, Owned, Owner,
         NothingBeside, OneLiveWorker, OneRunningRun
<1>4. ASSUME NEW r \in Runs, ReconcileFinalize(r) PROVE WorkerInv'
  <2>1. PICK log :
          /\ UNCHANGED <<conv, container, gateway, dispatches, dispatch, monitor, canceller>>
          /\ r \notin recon.live /\ status[r] = "running"
          /\ attached' = [attached EXCEPT ![r] = TRUE]
          /\ recon'.todo = recon.todo \ {r}
          /\ recon'.live = recon.live /\ recon'.listed = recon.listed
          /\ SettleRunning(r, log, Verdict(log, TRUE))
    BY <1>4, <1>r DEF ReconcileFinalize, Finalize, coroutines, backend
  <2>2. /\ status' = [status EXCEPT ![r] = Verdict(log, TRUE)]
        /\ Verdict(log, TRUE) \in TerminalStatuses
    BY <2>1, VerdictIsOutcome DEF SettleRunning
  <2>3. container[r] # "running"
    BY <1>0, <1>g, <2>1 DEF Owned, Owner, Discarded
  <2>4. \A q \in Runs : /\ status'[q] = "running" => status[q] = "running"
                        /\ q # r => status'[q] = status[q]
                        /\ q = r => status'[q] \in TerminalStatuses
    BY <1>t, <2>2 DEF TerminalStatuses
  <2>. HIDE DEF Reattached
  <2>5. AtRest' /\ Holding' /\ Cancelling'
    BY <1>0, <1>t, <1>g, <1>i, <2>1 DEF AtRest, Holding, Holds, Cancelling
  <2>6. BegunFirst' /\ Owned'
    BY <1>0, <1>t, <1>g, <2>1, <2>3, <2>4
       DEF BegunFirst, Begun, Owned, Owner, TerminalStatuses
  <2>7. NothingBeside' /\ OneLiveWorker'
    BY <1>0, <1>a, <2>1, <2>4 DEF NothingBeside, OneLiveWorker
  <2>. QED
    BY <2>5, <2>6, <2>7 DEF WorkerInv
<1>5. ASSUME NEW r \in Runs, ReconcileRaises(r) PROVE WorkerInv'
  BY <1>5, NothingFails DEF ReconcileRaises, WorkersAreStopped, TypeOK
<1>6. ASSUME ReconcileSweep PROVE WorkerInv'
  <2>1. /\ UNCHANGED <<conv, attached, container, dispatch, monitor, canceller>>
        /\ gateway' = "serving" /\ recon.todo = {}
        /\ status' = [r \in Runs |-> IF r \in Unlisted THEN "interrupted" ELSE status[r]]
    BY <1>6 DEF ReconcileSweep, backend
  <2>2. \A r \in Runs : container[r] = "running" =>
           status[r] = "running" /\ attached[r] /\ r \in recon.listed
    BY <1>0, <1>g, <2>1 DEF Owned, Owner, Discarded
  <2>3. \A r \in Runs :
           /\ status'[r] = status[r] \/ (status[r] = "running" /\ status'[r] = "interrupted")
           /\ container[r] = "running" => status'[r] = status[r]
    BY <2>1, <2>2 DEF Unlisted
  <2>4. AtRest' /\ Holding' /\ Cancelling'
    BY <1>0, <1>i, <2>1 DEF AtRest, Holding, Holds, Cancelling
  <2>5. BegunFirst' /\ Owned'
    BY <1>0, <2>1, <2>2, <2>3 DEF BegunFirst, Begun, Owned, Owner
  <2>6. NothingBeside' /\ OneLiveWorker'
    BY <1>0, <1>a, <2>1, <2>3 DEF NothingBeside, OneLiveWorker
  <2>. QED
    BY <2>4, <2>5, <2>6 DEF WorkerInv
<1>7. ASSUME NEW w \in Strays, ReconcileStrayRaises(w) PROVE WorkerInv'
  BY <1>7 DEF ReconcileStrayRaises, WorkersAreStopped
<1>. QED
  BY <1>1, <1>2, <1>3, <1>4, <1>5, <1>6, <1>7 DEF ReconcileSteps, ReconcileWorker

(* Without a failing inspect reconcile is told of every container. *)
LEMMA ListsAll ==
    ASSUME WorkersAreStopped
    PROVE  Listings = {{w \in Workers : container[w] \in {"running", "exited"}}}
BY DEF Listings, WorkersAreStopped

(* A crash lets go of everything but the containers, and a start lists     *)
(* them.                                                                   *)
LEMMA DownAndUp ==
    ASSUME TypeOK, WorkerInv, OneRunningRun', WorkersAreStopped,
           \/ Crash \/ Boot
           \/ \E r \in Runs : CrashInCancel(r) \/ CrashInIngest(r)
    PROVE  WorkerInv'
<1>0. /\ AtRest /\ BegunFirst /\ Cancelling /\ Owned /\ NothingBeside
      /\ OneRunningRun /\ OneLiveWorker
  BY DEF WorkerInv
<1>a. \A r \in Runs : r \in Workers
  BY DEF Workers
<1>1. ASSUME Boot PROVE WorkerInv'
  <2>1. /\ UNCHANGED <<conv, status, attached, container, dispatches, dispatch, monitor,
                       canceller>>
        /\ gateway = "down" /\ gateway' = "reconciling"
        /\ \A r \in Runs : container[r] = "running" =>
              r \in recon'.live /\ r \in recon'.listed /\ r \in recon'.todo
    BY <1>1, <1>a, ListsAll DEF Boot, backend, coroutines
  <2>. QED
    BY <1>0, <2>1
       DEF WorkerInv, AtRest, BegunFirst, Begun, Holding, Holds, Cancelling, Owned, Owner,
         NothingBeside, OneLiveWorker, OneRunningRun
<1>2. ASSUME GatewayDown, UNCHANGED <<conv, status, attached, container>> PROVE WorkerInv'
  <2>1. /\ gateway' = "down"
        /\ \A c \in Conversations : dispatch'[c].pc = "idle" /\ dispatches'[c] = 0
        /\ \A r \in Runs : monitor'[r] = "none" /\ canceller'[r] = "none"
    BY <1>2 DEF GatewayDown, NoDispatch
  <2>. QED
    BY <1>0, <1>2, <2>1
       DEF WorkerInv, AtRest, BegunFirst, Begun, Holding, Holds, Cancelling, Owned, Owner,
         NothingBeside, OneLiveWorker, OneRunningRun
<1>. QED
  BY <1>1, <1>2 DEF Crash, CrashInCancel, CrashInIngest, store, backend

LEMMA WorkerNext ==
    /\ TypeOK /\ WatchInv /\ WorkerInv /\ ReconcileIsAlone /\ WorkersAreStopped /\ [Next]_vars
    /\ OneRunningRun' /\ ReconcileIsAlone'
    => WorkerInv'
<1>1. CASE UNCHANGED vars
  BY <1>1
     DEF vars, WorkerInv, AtRest, BegunFirst, Begun, Holding, Holds, Cancelling, Owned,
         Owner, Discarded,
       NothingBeside, OneLiveWorker, OneRunningRun
<1>2. ASSUME TypeOK, WatchInv, WorkerInv, ReconcileIsAlone, WorkersAreStopped, Next,
             OneRunningRun', ReconcileIsAlone'
      PROVE  WorkerInv'
  BY <1>2, DispatchKeeps, QuietSteps, ReconcileKeeps, DownAndUp DEF Next, Calls
<1>. QED
  BY <1>1, <1>2

(* Two workers never share a conversation, however dispatches, monitors,   *)
(* cancellations and crashes interleave, provided that reconcile has the   *)
(* gateway to itself and that no fault leaves a settled run its worker.    *)
THEOREM OneWorkerAtATime ==
    ASSUME WorkersAreStopped PROVE Spec /\ []ReconcileIsAlone => []OneLiveWorker
<1>1. Init => TypeOK /\ WatchInv /\ WorkerInv
  BY TypeInit, WatchInit, WorkerInit
<1>2. TypeOK /\ WatchInv /\ WorkerInv /\ ReconcileIsAlone /\ [Next]_vars /\ ReconcileIsAlone'
      => TypeOK' /\ WatchInv' /\ WorkerInv'
  <2>1. WorkerInv => OneRunningRun
    BY DEF WorkerInv
  <2>. QED
    BY <2>1, TypeNext, WatchNext, LifecycleNext, LifecycleOneRunning, WorkerNext DEF TypeOK
<1>3. WorkerInv => OneLiveWorker
  BY DEF WorkerInv
<1>. QED
  BY <1>1, <1>2, <1>3, PTL DEF Spec

-----------------------------------------------------------------------------
(* With one conversation reconcile has the gateway to itself: it has one   *)
(* run at most to take over, and the containers of others are gone before  *)
(* the first run is submitted.                                             *)

StraysFirst ==
    \A w \in Strays : /\ container[w] \in {"running", "removed"}
                      /\ container[w] = "running" =>
                            /\ conv = <<>> /\ gateway # "serving"
                            /\ gateway = "reconciling" => w \in recon.todo

NothingElse ==
    gateway = "reconciling" =>
        /\ \A c \in Conversations : dispatch[c].pc = "idle" /\ dispatches[c] = 0
        /\ \A r \in Runs : canceller[r] = "none" /\ (recon.todo # {} => monitor[r] = "none")
        /\ \A w \in recon.todo \cap Strays : container[w] = "running"
        /\ \A q, r \in recon.todo \cap Runs : status[r] = "running" => q = r

Alone == StraysFirst /\ NothingElse

LEMMA AloneInit == Init => Alone
BY DEF Init, Alone, StraysFirst, NothingElse, Workers

(* Which actions a reconciling gateway leaves enabled.                     *)
LEMMA AloneNext ==
    ASSUME TypeOK, WorkerInv, Alone, WorkersAreStopped, [Next]_vars,
           NEW c0, Conversations = {c0}
    PROVE  Alone'
<1>0. AtRest /\ BegunFirst /\ NothingBeside /\ OneRunningRun
  BY DEF WorkerInv
<1>a. /\ DOMAIN conv \subseteq Runs /\ (\A r \in Runs : r \in Workers)
      /\ \A w \in Strays : w \in Workers /\ w \notin Runs
      /\ \A r \in DOMAIN conv : conv[r] = c0
  BY SubmittedAreRuns, StraysAssumption DEF Workers, TypeOK, StoreTypeOK
<1>t. /\ status \in [Runs -> {"absent"} \cup LiveStatuses \cup TerminalStatuses]
      /\ \A r \in Runs : status[r] = "absent" <=> r \notin DOMAIN conv
      /\ container \in [Workers -> {"absent", "running", "exited", "removed"}]
      /\ gateway \in {"down", "reconciling", "serving"}
      /\ dispatches \in [Conversations -> Nat]
      /\ dispatch \in [Conversations ->
                          [pc : {"idle", "starting", "created"}, run : Runs \cup {0}]]
      /\ monitor \in [Runs -> {"none", "poll", "inspect"}]
      /\ canceller \in [Runs -> {"none", "stop", "drain"}]
      /\ recon \in [todo : SUBSET Workers, live : SUBSET Workers, listed : SUBSET Workers]
  BY DEF TypeOK, StoreTypeOK, BackendTypeOK, ProcessTypeOK
<1>s. StraysFirst /\ NothingElse
  BY DEF Alone
<1>1. ASSUME Boot PROVE Alone'
  <2>1. /\ UNCHANGED <<conv, status, container, dispatches, dispatch, monitor, canceller>>
        /\ gateway = "down" /\ gateway' = "reconciling"
        /\ \A w \in Workers : container[w] = "running" => w \in recon'.todo
        /\ \A w \in recon'.todo : container[w] \in {"running", "exited"}
        /\ \A r \in recon'.todo \cap Runs :
              container[r] = "running" \/ status[r] \notin TerminalStatuses
    BY <1>1, <1>a, ListsAll DEF Boot, backend, coroutines
  <2>2. \A r \in recon'.todo \cap Runs :
           r \in DOMAIN conv /\ (container[r] = "running" \/ status[r] = "running")
    BY <1>0, <1>t, <2>1 DEF BegunFirst, Begun, LiveStatuses
  <2>3. \A q, r \in recon'.todo \cap Runs : status[r] = "running" => q = r
    BY <1>0, <1>a, <2>2 DEF NothingBeside, OneRunningRun
  <2>. QED
    BY <1>0, <1>a, <1>s, <2>1, <2>3 DEF Alone, StraysFirst, NothingElse, AtRest
<1>2. ASSUME GatewayDown, UNCHANGED <<conv, container>> PROVE Alone'
  BY <1>2, <1>s DEF GatewayDown, Alone, StraysFirst, NothingElse
<1>3. ASSUME NEW r \in Runs, Exit(r) \/ Vanish(r) \/ \E kind \in Outputs : Emit(r, kind)
      PROVE  Alone'
  <2>1. /\ UNCHANGED <<conv, status, gateway, recon, dispatches, dispatch, monitor, canceller>>
        /\ \A w \in Strays : container'[w] = container[w]
    BY <1>3, <1>a, <1>t DEF Exit, Vanish, Emit, store, process
  <2>. QED
    BY <1>s, <2>1 DEF Alone, StraysFirst, NothingElse
<1>4. ASSUME gateway = "serving", gateway' = "serving",
             \A w \in Strays : container'[w] = container[w]
      PROVE  Alone'
  BY <1>4, <1>s DEF Alone, StraysFirst, NothingElse
<1>5. ASSUME gateway = "reconciling", ReconcileSteps PROVE Alone'
  <2>1. ASSUME NEW w, Reconciling(w) PROVE recon'.todo = recon.todo \ {w} /\ w \in recon.todo
    BY <1>t, <2>1 DEF Reconciling
  <2>2. ASSUME NEW w \in Strays, ReconcileStray(w) PROVE Alone'
    <3>1. /\ UNCHANGED <<conv, status, gateway, dispatches, dispatch, monitor, canceller>>
          /\ container' = [container EXCEPT ![w] = "removed"]
          /\ recon'.todo = recon.todo \ {w} /\ w \in recon.todo
      BY <2>1, <2>2 DEF ReconcileStray, coroutines
    <3>. QED
      BY <1>5, <1>a, <1>t, <1>s, <3>1 DEF Alone, StraysFirst, NothingElse
  <2>3. ASSUME NEW r \in Runs, ReconcileSettled(r) PROVE Alone'
    <3>1. /\ UNCHANGED <<conv, status, gateway, dispatches, dispatch, monitor, canceller>>
          /\ \A w \in Strays : container'[w] = container[w]
          /\ recon'.todo = recon.todo \ {r} /\ r \in recon.todo
      BY <1>a, <1>t, <2>1, <2>3 DEF ReconcileSettled, StopContainer, coroutines
    <3>. QED
      BY <1>5, <1>a, <1>s, <3>1 DEF Alone, StraysFirst, NothingElse
  <2>4. ASSUME NEW r \in Runs, ReconcileMonitor(r) \/ ReconcileFinalize(r) PROVE Alone'
    <3>1. /\ UNCHANGED <<conv, gateway, container, dispatches, dispatch, canceller>>
          /\ status[r] = "running" /\ recon'.todo = recon.todo \ {r} /\ r \in recon.todo
      BY <2>1, <2>4 DEF ReconcileMonitor, ReconcileFinalize, backend, coroutines
    <3>2. conv # <<>>
      BY <3>1, <1>t
    <3>3. recon'.todo = {}
      <4>1. ASSUME NEW w \in recon.todo PROVE w = r
        <5>1. CASE w \in Strays
          BY <1>5, <1>s, <3>2, <4>1, <5>1 DEF StraysFirst, NothingElse
        <5>2. CASE w \in Runs
          BY <1>5, <1>s, <3>1, <4>1, <5>2 DEF NothingElse
        <5>. QED
          BY <1>t, <5>1, <5>2 DEF Workers
      <4>. QED
        BY <3>1, <4>1
    <3>4. \A w \in Strays : container[w] # "running"
      BY <1>s, <3>2 DEF StraysFirst
    <3>. QED
      BY <1>5, <1>s, <3>1, <3>3, <3>4 DEF Alone, StraysFirst, NothingElse
  <2>5. ASSUME NEW r \in Runs, ReconcileRaises(r) PROVE Alone'
    BY <2>5, NothingFails DEF ReconcileRaises, WorkersAreStopped, TypeOK
  <2>6. ASSUME ReconcileSweep PROVE Alone'
    BY <1>5, <1>s, <2>6 DEF ReconcileSweep, backend, Alone, StraysFirst, NothingElse
  <2>7. ASSUME NEW w \in Strays, ReconcileStrayRaises(w) PROVE Alone'
    BY <1>2, <2>7 DEF ReconcileStrayRaises, store, backend
  <2>. QED
    BY <1>5, <2>2, <2>3, <2>4, <2>5, <2>6, <2>7 DEF ReconcileSteps, ReconcileWorker
<1>6. ASSUME NEW c \in Conversations, Submit(c) \/ DispatchSteps(c) PROVE Alone'
  <2>1. gateway = "serving"
    <3>1. CASE Submit(c)
      BY <3>1 DEF Submit
    <3>2. CASE DispatchSteps(c)
      <4>1. dispatches[c] # 0 \/ dispatch[c].pc # "idle"
        <5>1. CASE DispatchNothing(c) \/ DispatchClaim(c)
          BY <5>1 DEF DispatchNothing, DispatchClaim
        <5>2. CASE DispatchCreate(c) \/ DispatchAttach(c) \/ DispatchDiscard(c) \/ DispatchRaises(c)
          BY <5>2 DEF DispatchCreate, DispatchAttach, DispatchDiscard, DispatchRaises
        <5>. QED
          BY <3>2, <5>1, <5>2 DEF DispatchSteps
      <4>. QED
        BY <4>1, <1>0, <1>t, <1>s DEF AtRest, NothingElse
    <3>. QED
      BY <1>6, <3>1, <3>2
  <2>2. gateway' = gateway
    BY <1>6
       DEF Submit, DispatchSteps, DispatchNothing, DispatchClaim, DispatchCreate,
           DispatchAttach,
          DispatchDiscard, DispatchRaises
  <2>3. \A w \in Strays : container'[w] = container[w]
    <3>1. dispatch[c].pc # "idle" => dispatch[c].run \in Runs
      BY <1>a DEF WorkerInv, Holding, Holds
    <3>. QED
      BY <1>6, <1>a, <1>t, <3>1
         DEF Submit, DispatchSteps, DispatchNothing, DispatchClaim, DispatchCreate,
            DispatchAttach, DispatchDiscard, DispatchRaises, StopContainer, backend
  <2>. QED
    BY <1>4, <2>1, <2>2, <2>3
<1>7. ASSUME NEW r \in Runs, Calls(r) \/ CancelSteps(r) \/ MonitorSteps(r) PROVE Alone'
  <2>1. gateway = "serving"
    <3>1. CASE Calls(r)
      BY <3>1 DEF Calls, CancelQueued, CancelStarting, CancelRequest
    <3>2. CASE CancelSteps(r)
      BY <3>2, <1>0, <1>t, <1>s
         DEF AtRest, NothingElse, CancelSteps, CancelStop, CancelSettle, CancelRaises
    <3>3. CASE MonitorSteps(r)
      <4>1. monitor[r] # "none" /\ LoopIsFree
        BY <3>3
           DEF MonitorSteps, MonitorReturn, MonitorIngest, MonitorAlive, MonitorMissing,
               MonitorFinalize, MonitorRaises
      <4>. QED
        BY <4>1, <1>0, <1>t, <1>s DEF AtRest, NothingElse, LoopIsFree
    <3>. QED
      BY <1>7, <3>1, <3>2, <3>3
  <2>2. gateway' = gateway
    BY <1>7
       DEF Calls, CancelQueued, CancelStarting, CancelRequest, CancelSteps, CancelStop,
           CancelSettle, CancelRaises,
          MonitorSteps, MonitorReturn, MonitorIngest, MonitorAlive, MonitorMissing,
              MonitorFinalize, MonitorRaises
  <2>3. \A w \in Strays : container'[w] = container[w]
    BY <1>7, <1>a, <1>t
       DEF Calls, CancelQueued, CancelStarting, CancelRequest, CancelSteps, CancelStop,
           CancelSettle, CancelRaises,
          MonitorSteps, MonitorReturn, MonitorIngest, MonitorAlive, MonitorMissing,
              MonitorFinalize, MonitorRaises,
          StopContainer, backend, store
  <2>. QED
    BY <1>4, <2>1, <2>2, <2>3
<1>8. ASSUME ReconcileSteps PROVE Alone'
  <2>1. gateway = "reconciling"
    BY <1>8
       DEF ReconcileSteps, ReconcileWorker, ReconcileStray, ReconcileSettled,
           ReconcileMonitor,
         ReconcileFinalize, ReconcileRaises, ReconcileStrayRaises, ReconcileSweep,
         Reconciling
  <2>. QED
    BY <1>5, <1>8, <2>1
<1>9. CASE UNCHANGED vars
  BY <1>9, <1>s DEF vars, Alone, StraysFirst, NothingElse
<1>10. ASSUME NEW r \in Runs, CrashInCancel(r) \/ CrashInIngest(r) PROVE Alone'
  BY <1>2, <1>10 DEF CrashInCancel, CrashInIngest, backend
<1>11. ASSUME Crash PROVE Alone'
  BY <1>2, <1>11 DEF Crash, store, backend
<1>. QED
  BY <1>1, <1>3, <1>6, <1>7, <1>8, <1>9, <1>10, <1>11 DEF Next

(* In a single conversation, with any number of runs, restarts and         *)
(* containers of others, two workers never run at a time.                  *)
THEOREM OneWorkerInOneConversation ==
    ASSUME WorkersAreStopped, NEW c0, Conversations = {c0} PROVE Spec => []OneLiveWorker
<1>1. Init => TypeOK /\ WatchInv /\ WorkerInv /\ Alone
  BY TypeInit, WatchInit, WorkerInit, AloneInit
<1>2. TypeOK /\ WatchInv /\ WorkerInv /\ Alone /\ [Next]_vars
      => TypeOK' /\ WatchInv' /\ WorkerInv' /\ Alone'
  <2>1. WorkerInv => OneRunningRun
    BY DEF WorkerInv
  <2>2. (Alone => ReconcileIsAlone) /\ (Alone' => ReconcileIsAlone')
    BY DEF Alone, NothingElse, ReconcileIsAlone
  <2>. QED
    BY <2>1, <2>2, TypeNext, WatchNext, LifecycleNext, LifecycleOneRunning, WorkerNext,
        AloneNext
       DEF TypeOK
<1>3. WorkerInv => OneLiveWorker
  BY DEF WorkerInv
<1>. QED
  BY <1>1, <1>2, <1>3, PTL DEF Spec

-----------------------------------------------------------------------------
(* No worker is left behind.  Owned says this of the workers of runs; a    *)
(* container of others runs until reconcile has visited it, and the        *)
(* gateway serves only after that.                                         *)

StraysVisited ==
    \A w \in Strays : container[w] = "running" =>
        /\ gateway # "serving"
        /\ gateway = "reconciling" => w \in recon.todo

LEMMA VisitedNext ==
    ASSUME "inspect" \notin Faults
    PROVE  TypeOK /\ WatchInv /\ StraysVisited /\ [Next]_vars => StraysVisited'
<1>. SUFFICES ASSUME TypeOK, WatchInv, StraysVisited, [Next]_vars PROVE StraysVisited'
  OBVIOUS
<1>t. /\ container \in [Workers -> {"absent", "running", "exited", "removed"}]
      /\ recon \in [todo : SUBSET Workers, live : SUBSET Workers, listed : SUBSET Workers]
      /\ \A w \in Strays : w \in Workers /\ w \notin Runs
      /\ \A c \in Conversations : dispatch[c].pc # "idle" => dispatch[c].run \in Runs
  BY SubmittedAreRuns, StraysAssumption
     DEF TypeOK, BackendTypeOK, ProcessTypeOK, Workers, WatchInv, DispatchHoldsRun
<1>1. ASSUME gateway' = gateway,
             \A w \in Strays : container'[w] = "running" =>
                container[w] = "running" /\ (w \in recon.todo => w \in recon'.todo)
      PROVE  StraysVisited'
  BY <1>1 DEF StraysVisited
<1>2. ASSUME GatewayDown PROVE StraysVisited'
  BY <1>2 DEF GatewayDown, StraysVisited
<1>3. CASE Boot
  BY <1>3, <1>t DEF Boot, Listings, backend, StraysVisited
<1>4. CASE ReconcileSteps
  <2>1. ASSUME NEW w, Reconciling(w) PROVE recon'.todo = recon.todo \ {w}
    BY <1>t, <2>1 DEF Reconciling
  <2>2. ASSUME NEW w \in Strays, ReconcileStray(w) PROVE StraysVisited'
    <3>1. /\ recon'.todo = recon.todo \ {w} /\ UNCHANGED gateway
          /\ container' = [container EXCEPT ![w] = "removed"]
      BY <2>1, <2>2 DEF ReconcileStray
    <3>. QED
      BY <1>1, <1>t, <3>1
  <2>3. ASSUME NEW r \in Runs, ReconcileWorker(r) PROVE StraysVisited'
    <3>1. recon'.todo = recon.todo \ {r} /\ UNCHANGED gateway
      BY <2>1, <2>3 DEF ReconcileWorker, ReconcileSettled, ReconcileMonitor, ReconcileFinalize
    <3>2. \A w \in Strays : container'[w] = container[w]
      BY <1>t, <2>3 DEF ReconcileWorker, ReconcileSettled, ReconcileMonitor, ReconcileFinalize,
                        StopContainer, backend
    <3>. QED
      BY <1>1, <1>t, <3>1, <3>2
  <2>4. ASSUME NEW r \in Runs, ReconcileRaises(r) PROVE StraysVisited'
    BY <1>2, <2>4 DEF ReconcileRaises
  <2>5. CASE ReconcileSweep
    BY <2>5 DEF ReconcileSweep, backend, StraysVisited
  <2>6. ASSUME NEW w \in Strays, ReconcileStrayRaises(w) PROVE StraysVisited'
    BY <1>2, <2>6 DEF ReconcileStrayRaises
  <2>. QED
    BY <1>4, <2>2, <2>3, <2>4, <2>5, <2>6 DEF ReconcileSteps
<1>5. ASSUME NEW c \in Conversations, Submit(c) \/ DispatchSteps(c) PROVE StraysVisited'
  <2>1. UNCHANGED <<gateway, recon>>
    BY <1>5 DEF Submit, DispatchSteps, DispatchNothing, DispatchClaim, DispatchCreate,
                DispatchAttach, DispatchDiscard, DispatchRaises
  <2>2. \A w \in Strays : container'[w] = container[w]
    BY <1>5, <1>t DEF Submit, DispatchSteps, DispatchNothing, DispatchClaim, DispatchCreate,
                      DispatchAttach, DispatchDiscard, DispatchRaises, StopContainer, backend
  <2>. QED
    BY <1>1, <2>1, <2>2
<1>6. ASSUME NEW r \in Runs, Calls(r) \/ CancelSteps(r) \/ MonitorSteps(r) PROVE StraysVisited'
  <2>1. UNCHANGED <<gateway, recon>>
    BY <1>6 DEF Calls, CancelQueued, CancelStarting, CancelRequest, CancelSteps, CancelStop,
                CancelSettle, CancelRaises, MonitorSteps, MonitorReturn, MonitorIngest,
                MonitorAlive, MonitorMissing, MonitorFinalize, MonitorRaises
  <2>2. \A w \in Strays : container'[w] = container[w]
    BY <1>6, <1>t DEF Calls, CancelQueued, CancelStarting, CancelRequest, CancelSteps,
                CancelStop, CancelSettle, CancelRaises, MonitorSteps, MonitorReturn,
                MonitorIngest, MonitorAlive, MonitorMissing, MonitorFinalize, MonitorRaises,
                StopContainer, backend, store
  <2>. QED
    BY <1>1, <2>1, <2>2
<1>7. ASSUME NEW r \in Runs, Exit(r) \/ Vanish(r) \/ \E kind \in Outputs : Emit(r, kind)
      PROVE  StraysVisited'
  <2>1. UNCHANGED <<gateway, recon>> /\ \A w \in Strays : container'[w] = container[w]
    BY <1>7, <1>t DEF Exit, Vanish, Emit, process
  <2>. QED
    BY <1>1, <2>1
<1>8. ASSUME NEW r \in Runs, CrashInCancel(r) \/ CrashInIngest(r) PROVE StraysVisited'
  BY <1>2, <1>8 DEF CrashInCancel, CrashInIngest
<1>9. CASE Crash
  BY <1>2, <1>9 DEF Crash
<1>10. CASE UNCHANGED vars
  BY <1>1, <1>10 DEF vars
<1>. QED
  BY <1>3, <1>4, <1>5, <1>6, <1>7, <1>8, <1>9, <1>10 DEF Next

(* While the gateway serves, every worker that runs belongs to a running   *)
(* run or to the dispatch that will stop it: _finalize, cancel, a late     *)
(* start and reconcile leave none behind, under the conditions of          *)
(* OneWorkerAtATime.                                                       *)
THEOREM NoWorkerLeaks ==
    ASSUME WorkersAreStopped PROVE Spec /\ []ReconcileIsAlone => []NoLeakedWorker
<1>1. Init => TypeOK /\ WatchInv /\ WorkerInv /\ StraysVisited
  <2>1. Init => StraysVisited
    BY DEF Init, StraysVisited
  <2>. QED
    BY <2>1, TypeInit, WatchInit, WorkerInit
<1>2. TypeOK /\ WatchInv /\ WorkerInv /\ StraysVisited
         /\ ReconcileIsAlone /\ [Next]_vars /\ ReconcileIsAlone'
      => TypeOK' /\ WatchInv' /\ WorkerInv' /\ StraysVisited'
  <2>1. WorkerInv => OneRunningRun
    BY DEF WorkerInv
  <2>. QED
    BY <2>1, TypeNext, WatchNext, LifecycleNext, LifecycleOneRunning, WorkerNext, VisitedNext
       DEF TypeOK, WorkersAreStopped
<1>3. WorkerInv /\ StraysVisited => NoLeakedWorker
  BY DEF WorkerInv, Owned, Owner, Discarded, StraysVisited, NoLeakedWorker
<1>. QED
  BY <1>1, <1>2, <1>3, PTL DEF Spec

(* A nonempty set of numbers has a least element, a bounded one a greatest. *)
LEMMA LeastOf ==
    ASSUME NEW S \in SUBSET Nat, S # {}
    PROVE  \E i \in S : \A j \in S : i <= j
<1>1. PICK i \in S : \A j \in S : ~(<<j, i>> \in OpToRel(<, Nat))
  BY WFMin, NatLessThanWellFounded
<1>2. ASSUME NEW j \in S PROVE i <= j
  <2>1. ~(j < i)
    BY <1>1 DEF OpToRel
  <2>. QED
    BY <2>1
<1>. QED
  BY <1>2

LEMMA GreatestOf ==
    ASSUME NEW n \in Nat, NEW S \in SUBSET (1 .. n), S # {}
    PROVE  \E i \in S : \A j \in S : j <= i
<1>. DEFINE T == {n - i : i \in S}
<1>1. T \in SUBSET Nat /\ T # {}
  <2>1. \A i \in S : n - i \in Nat
    OBVIOUS
  <2>. QED
    BY <2>1
<1>2. PICK k \in T : \A l \in T : k <= l
  BY <1>1, LeastOf
<1>3. PICK i \in S : k = n - i
  BY <1>2
<1>4. ASSUME NEW j \in S PROVE j <= i
  BY <1>2, <1>3
<1>. QED
  BY <1>4

-----------------------------------------------------------------------------
(* What a log holds.                                                       *)

SourcesBefore(log, p) == {log[q].src : q \in 1 .. p - 1} \ {0}

(* A log that tells a worker's output: what it holds of it is a prefix, in *)
(* the output's order; the rest was written by the gateway.                *)
Told(log, o) ==
    /\ log \in Seq(Event)
    /\ \A p \in DOMAIN log :
          IF log[p].src = 0
          THEN log[p].kind \in GatewayKinds
          ELSE /\ log[p].src \in DOMAIN o /\ log[p].kind = o[log[p].src]
               /\ SourcesBefore(log, p) = 1 .. log[p].src - 1
    /\ \E a \in 0 .. Len(o) : Sources(log) = 1 .. a

LogInv == \A r \in Runs : Told(events[r], out[r])

(* A log that goes on without an outcome. *)
GoesOn(log, more) ==
    /\ \A p \in DOMAIN log : p \in DOMAIN more /\ more[p] = log[p]
    /\ \A p \in DOMAIN more : p \in DOMAIN log \/ more[p].kind \notin TerminalStatuses

(* An _ingest call goes through a prefix of the output: all of it, or up   *)
(* to the first envelope that raises.                                      *)
LEMMA HandledIsPrefix ==
    ASSUME NEW o \in Seq(OutputKinds)
    PROVE  \E h \in 0 .. Len(o) : Handled(o) = 1 .. h
<1>. DEFINE bad == {i \in DOMAIN o : o[i] = "foreign"}
<1>1. CASE bad = {}
  BY <1>1 DEF Handled
<1>2. CASE bad # {}
  <2>a. bad \in SUBSET Nat
    OBVIOUS
  <2>1. PICK i \in bad : \A j \in bad : i <= j
    BY <1>2, <2>a, LeastOf
  <2>2. i \in 1 .. Len(o) /\ o[i] = "foreign"
    BY <2>1
  <2>3. Handled(o) = 1 .. i
    <3>1. ASSUME NEW k \in 1 .. i PROVE k \in Handled(o)
      BY <2>1, <2>2, <3>1 DEF Handled
    <3>2. ASSUME NEW k \in Handled(o) PROVE k \in 1 .. i
      BY <2>2, <3>2 DEF Handled
    <3>. QED
      BY <3>1, <3>2
  <2>. QED
    BY <2>2, <2>3
<1>. QED
  BY <1>1, <1>2

(* The gateway's own events leave the output told. *)
LEMMA GatewayTells ==
    ASSUME NEW log, NEW o \in Seq(OutputKinds), Told(log, o), NEW kind \in GatewayKinds
    PROVE  Told(Log(log, kind), o) /\ Sources(Log(log, kind)) = Sources(log)
<1>. DEFINE new == Log(log, kind)
<1>1. /\ log \in Seq(Event) /\ new \in Seq(Event) /\ Len(new) = Len(log) + 1
      /\ \A p \in DOMAIN log : p \in DOMAIN new /\ new[p] = log[p]
      /\ \A p \in DOMAIN new : p \in DOMAIN log \/ p = Len(log) + 1
      /\ new[Len(log) + 1] = [kind |-> kind, src |-> 0]
  BY DEF Told, Log, Event
<1>. HIDE DEF new
<1>2. Sources(new) = Sources(log)
  BY <1>1 DEF Sources
<1>3. ASSUME NEW p \in DOMAIN log PROVE SourcesBefore(new, p) = SourcesBefore(log, p)
  BY <1>1 DEF SourcesBefore
<1>. QED
  BY <1>1, <1>2, <1>3 DEF Told, new

(* The two parts of a concatenation. *)
LEMMA Joined ==
    ASSUME NEW s \in Seq(Event), NEW t \in Seq(Event), NEW u, u = s \o t
    PROVE  /\ u \in Seq(Event) /\ Len(u) = Len(s) + Len(t)
           /\ \A p \in DOMAIN s : p \in DOMAIN u /\ u[p] = s[p]
           /\ \A n \in 1 .. Len(t) : Len(s) + n \in DOMAIN u /\ u[Len(s) + n] = t[n]
           /\ \A p \in DOMAIN u : p \in DOMAIN s \/ p - Len(s) \in 1 .. Len(t)
OBVIOUS

(* Ingesting what could be read of an output, in whole or in part, tells   *)
(* it: the envelopes the log lacks follow, each once and in order.         *)
LEMMA IngestTells ==
    ASSUME NEW log, NEW o \in Seq(OutputKinds), Told(log, o),
           NEW read \in Seq(OutputKinds), Len(read) <= Len(o),
           \A i \in 1 .. Len(read) : read[i] = o[i]
    PROVE  /\ Told(Ingest(log, read), o)
           /\ Sources(Ingest(log, read)) = Sources(log) \cup Handled(read)
           /\ Kinds(Ingest(log, read)) \subseteq Kinds(log) \cup OutputKinds
           /\ GoesOn(log, Ingest(log, read))
<1>1. PICK a \in 0 .. Len(o) : Sources(log) = 1 .. a
  BY DEF Told
<1>2. PICK h \in 0 .. Len(read) : Handled(read) = 1 .. h
  BY HandledIsPrefix
<1>3. PICK m \in Nat : /\ m = IF h > a THEN h - a ELSE 0
                     /\ Fresh(log, read) = a + 1 .. a + m
  <2>1. Fresh(log, read) = (1 .. h) \ (1 .. a)
    BY <1>1, <1>2 DEF Fresh
  <2>2. CASE h > a
    <3>1. h - a \in Nat /\ a + (h - a) = h /\ (1 .. h) \ (1 .. a) = a + 1 .. h
      BY <2>2
    <3>. QED
      BY <2>1, <2>2, <3>1
  <2>3. CASE ~(h > a)
    <3>1. (1 .. h) \ (1 .. a) = a + 1 .. a + 0
      BY <2>3
    <3>. QED
      BY <2>1, <2>3, <3>1
  <2>. QED
    BY <2>2, <2>3
<1>m. /\ a \in Nat /\ m \in Nat /\ a + m <= Len(o)
      /\ m > 0 => a + m = h
  BY <1>3
<1>4. ASSUME NEW i \in a .. a + m PROVE Cardinality(a + 1 .. i) = i - a
  <2>1. a + 1 \in Int /\ i \in Int
    BY <1>m
  <2>2. Cardinality(a + 1 .. i) = IF a + 1 > i THEN 0 ELSE i - (a + 1) + 1
    BY ONLY <2>1, FS_Interval
  <2>. QED
    BY <1>m, <2>1, <2>2
<1>5. ASSUME NEW n \in 1 .. m PROVE Nth(a + 1 .. a + m, n) = a + n
  <2>. DEFINE upto(i) == {j \in a + 1 .. a + m : j <= i}
  <2>1. ASSUME NEW i \in a + 1 .. a + m PROVE Cardinality(upto(i)) = i - a
    <3>1. upto(i) = a + 1 .. i
      BY <1>m
    <3>2. i \in a .. a + m
      BY <1>m
    <3>. HIDE DEF upto
    <3>. QED
      BY <1>4, <3>1, <3>2
  <2>2. a + n \in a + 1 .. a + m
    BY <1>m
  <2>3. Cardinality(upto(a + n)) = n
    BY <1>m, <2>1, <2>2
  <2>4. \A i \in a + 1 .. a + m : Cardinality(upto(i)) = n => i = a + n
    BY <1>m, <2>1
  <2>. QED
    BY <2>2, <2>3, <2>4 DEF Nth
<1>. DEFINE f == [n \in 1 .. m |-> [kind |-> read[a + n], src |-> a + n]]
            new == log \o f
<1>6. Ingest(log, read) = new
  <2>1. [n \in 1 .. m |-> LET i == Nth(a + 1 .. a + m, n)
                          IN [kind |-> read[i], src |-> i]] = f
    BY <1>5
  <2>2. Cardinality(a + 1 .. a + m) = m
    BY <1>m, <1>4
  <2>. HIDE DEF f
  <2>. QED
    BY <1>3, <2>1, <2>2 DEF Ingest, new
<1>7. ASSUME NEW n \in 1 .. m
      PROVE  /\ a + n \in DOMAIN o /\ read[a + n] = o[a + n]
             /\ f[n] = [kind |-> o[a + n], src |-> a + n]
  <2>1. a + n \in 1 .. Len(read)
    BY <1>m
  <2>2. a + n \in DOMAIN o /\ read[a + n] = o[a + n]
    BY <2>1
  <2>. QED
    BY <2>2
<1>8. f \in Seq(Event) /\ Len(f) = m
  <2>1. ASSUME NEW n \in 1 .. m PROVE f[n] \in Event
    <3>1. o[a + n] \in OutputKinds /\ a + n \in Nat
      BY <1>m, <1>7
    <3>2. [kind |-> o[a + n], src |-> a + n] \in Event
      BY <3>1 DEF Event
    <3>. QED
      BY ONLY <1>7, <3>2
  <2>2. f \in [1 .. m -> Event]
    BY <2>1
  <2>. HIDE DEF f
  <2>. QED
    BY <2>2
<1>. HIDE DEF f
<1>9. /\ log \in Seq(Event) /\ new \in Seq(Event) /\ Len(new) = Len(log) + m
      /\ \A p \in DOMAIN log : p \in DOMAIN new /\ new[p] = log[p]
      /\ \A n \in 1 .. m : /\ Len(log) + n \in DOMAIN new
                           /\ new[Len(log) + n] = f[n]
      /\ \A p \in DOMAIN new : p \in DOMAIN log \/ p - Len(log) \in 1 .. m
  <2>1. log \in Seq(Event)
    BY DEF Told
  <2>2. new = log \o f
    OBVIOUS
  <2>. HIDE DEF new
  <2>. QED
    <3>1. f \in Seq(Event) /\ log \in Seq(Event)
      BY <1>8, <2>1
    <3>2. new \in Seq(Event) /\ Len(new) = Len(log) + Len(f)
      BY <3>1, <2>2, Joined
    <3>3. \A p \in DOMAIN log : p \in DOMAIN new /\ new[p] = log[p]
      BY <3>1, <2>2, Joined
    <3>4. \A n \in 1 .. Len(f) : Len(log) + n \in DOMAIN new /\ new[Len(log) + n] = f[n]
      BY <3>1, <2>2, Joined
    <3>5. \A p \in DOMAIN new : p \in DOMAIN log \/ p - Len(log) \in 1 .. Len(f)
      BY <3>1, <2>2, Joined
    <3>. QED
      BY <1>8, <3>1, <3>2, <3>3, <3>4, <3>5
<1>. HIDE DEF new
<1>9a. \A n \in 1 .. m : /\ new[Len(log) + n].kind = o[a + n]
                        /\ new[Len(log) + n].src = a + n
  <2>1. ASSUME NEW n \in 1 .. m
        PROVE  new[Len(log) + n] = [kind |-> o[a + n], src |-> a + n]
    BY ONLY <1>7, <1>9, n \in 1 .. m
  <2>2. ASSUME NEW n \in 1 .. m
        PROVE  new[Len(log) + n].kind = o[a + n] /\ new[Len(log) + n].src = a + n
    <3>1. new[Len(log) + n] = [kind |-> o[a + n], src |-> a + n]
      BY <2>1, <2>2
    <3>. QED
      BY ONLY <3>1
  <2>. QED
    BY <2>2
<1>9b. ASSUME NEW p \in DOMAIN new, p \notin DOMAIN log
       PROVE  \E n \in 1 .. m : p = Len(log) + n
  <2>1. p - Len(log) \in 1 .. m /\ p = Len(log) + (p - Len(log))
    BY <1>9, <1>9b
  <2>. QED
    BY <2>1
<1>10. Sources(new) = 1 .. a + m
  <2>1. ASSUME NEW s \in Sources(new) PROVE s \in 1 .. a + m
    <3>1. PICK p \in DOMAIN new : new[p].src = s /\ s # 0
      BY DEF Sources
    <3>2. CASE p \in DOMAIN log
      <4>1. log[p].src = s
        BY <1>9, <3>1, <3>2
      <4>2. s \in Sources(log)
        BY <3>1, <3>2, <4>1 DEF Sources
      <4>. QED
        BY <1>1, <1>m, <4>2
    <3>3. CASE \E n \in 1 .. m : p = Len(log) + n
      <4>1. PICK n \in 1 .. m : p = Len(log) + n
        BY <3>3
      <4>2. new[p].src = a + n
        BY <1>9a, <4>1
      <4>. QED
        BY <1>m, <3>1, <4>1, <4>2
    <3>. QED
      BY <1>9b, <3>2, <3>3
  <2>2. ASSUME NEW s \in 1 .. a PROVE s \in Sources(new)
    <3>1. PICK p \in DOMAIN log : log[p].src = s /\ s # 0
      BY <1>1 DEF Sources
    <3>. QED
      BY <1>9, <3>1 DEF Sources
  <2>3. ASSUME NEW s \in a + 1 .. a + m PROVE s \in Sources(new)
    <3>1. s - a \in 1 .. m /\ a + (s - a) = s
      BY <1>3
    <3>2. new[Len(log) + (s - a)].src = s /\ Len(log) + (s - a) \in DOMAIN new
      BY <1>9, <1>9a, <3>1
    <3>. QED
      BY <3>1, <3>2 DEF Sources
  <2>4. 1 .. a + m = (1 .. a) \cup (a + 1 .. a + m)
    BY <1>m
  <2>. QED
    BY <2>1, <2>2, <2>3, <2>4
<1>11. ASSUME NEW p \in DOMAIN log PROVE SourcesBefore(new, p) = SourcesBefore(log, p)
  BY <1>9 DEF SourcesBefore
<1>12. ASSUME NEW n \in 1 .. m PROVE SourcesBefore(new, Len(log) + n) = 1 .. a + n - 1
  <2>1. ASSUME NEW s \in SourcesBefore(new, Len(log) + n) PROVE s \in 1 .. a + n - 1
    <3>1. PICK q \in 1 .. Len(log) + n - 1 : new[q].src = s /\ s # 0
      BY DEF SourcesBefore
    <3>2. CASE q \in DOMAIN log
      <4>1. log[q].src = s
        BY <1>9, <3>1, <3>2
      <4>2. s \in Sources(log)
        BY <3>1, <3>2, <4>1 DEF Sources
      <4>. QED
        BY <1>1, <1>m, <4>2
    <3>3. CASE q \notin DOMAIN log
      <4>1. q - Len(log) \in 1 .. m /\ q = Len(log) + (q - Len(log)) /\ q - Len(log) <= n - 1
        <5>1. Len(log) \in Nat /\ DOMAIN log = 1 .. Len(log)
          BY <1>9
        <5>. QED
          BY ONLY <1>m, <3>3, <5>1, n \in 1 .. m, q \in 1 .. Len(log) + n - 1
      <4>2. new[q].src = a + (q - Len(log))
        BY <1>9a, <4>1
      <4>. QED
        BY <1>3, <3>1, <4>1, <4>2
    <3>. QED
      BY <3>2, <3>3
  <2>2. ASSUME NEW s \in 1 .. a PROVE s \in SourcesBefore(new, Len(log) + n)
    <3>1. PICK p \in DOMAIN log : log[p].src = s /\ s # 0
      BY <1>1 DEF Sources
    <3>2. p \in 1 .. Len(log) + n - 1
      BY <1>9, <3>1
    <3>. QED
      BY <1>9, <3>1, <3>2 DEF SourcesBefore
  <2>3. ASSUME NEW s \in a + 1 .. a + n - 1 PROVE s \in SourcesBefore(new, Len(log) + n)
    <3>1. s - a \in 1 .. m /\ a + (s - a) = s
      BY <1>3
    <3>2. new[Len(log) + (s - a)].src = s
      BY <1>9a, <3>1
    <3>3. Len(log) + (s - a) \in 1 .. Len(log) + n - 1
      BY <1>9, <3>1
    <3>. QED
      BY <3>1, <3>2, <3>3 DEF SourcesBefore
  <2>4. 1 .. a + n - 1 = (1 .. a) \cup (a + 1 .. a + n - 1)
    BY <1>m
  <2>. QED
    BY <2>1, <2>2, <2>3, <2>4
<1>13. Told(new, o)
  <2>1. ASSUME NEW p \in DOMAIN new
        PROVE  IF new[p].src = 0
               THEN new[p].kind \in GatewayKinds
               ELSE /\ new[p].src \in DOMAIN o /\ new[p].kind = o[new[p].src]
                    /\ SourcesBefore(new, p) = 1 .. new[p].src - 1
    <3>1. CASE p \in DOMAIN log
      BY <1>9, <1>11, <3>1 DEF Told
    <3>2. CASE \E n \in 1 .. m : p = Len(log) + n
      <4>1. PICK n \in 1 .. m : p = Len(log) + n
        BY <3>2
      <4>2. new[p].src = a + n /\ new[p].kind = o[a + n] /\ a + n # 0
        BY <1>m, <1>9a, <4>1
      <4>3. SourcesBefore(new, p) = 1 .. a + n - 1
        BY <1>12, <4>1
      <4>4. a + n \in DOMAIN o
        BY <1>7
      <4>. QED
        BY ONLY <4>2, <4>3, <4>4
    <3>. QED
      BY <1>9b, <3>1, <3>2
  <2>. QED
    BY <1>3, <1>9, <1>10, <2>1 DEF Told
<1>14. Kinds(new) \subseteq Kinds(log) \cup OutputKinds
  <2>1. ASSUME NEW p \in DOMAIN new PROVE new[p].kind \in Kinds(log) \cup OutputKinds
    <3>1. CASE p \in DOMAIN log
      BY <1>9, <3>1 DEF Kinds
    <3>2. CASE p \notin DOMAIN log
      <4>1. PICK n \in 1 .. m : p = Len(log) + n
        BY <1>9b, <3>2
      <4>2. new[p].kind = o[a + n] /\ a + n \in DOMAIN o
        BY <1>7, <1>9a, <4>1
      <4>. QED
        BY <4>2
    <3>. QED
      BY <3>1, <3>2
  <2>. QED
    BY <2>1 DEF Kinds
<1>15. GoesOn(log, new)
  <2>1. ASSUME NEW p \in DOMAIN new, p \notin DOMAIN log PROVE new[p].kind \notin TerminalStatuses
    <3>1. PICK n \in 1 .. m : p = Len(log) + n
      BY <1>9b, <2>1
    <3>2. new[p].kind = o[a + n] /\ a + n \in DOMAIN o
      BY <1>7, <1>9a, <3>1
    <3>3. new[p].kind \in OutputKinds
      BY <3>2
    <3>. QED
      BY <3>3 DEF OutputKinds, TerminalStatuses
  <2>. QED
    BY <1>9, <2>1 DEF GoesOn
<1>. QED
  <2>1. 1 .. a + m = (1 .. a) \cup (1 .. h)
    BY <1>3, <1>m
  <2>. QED
    BY <1>1, <1>2, <1>6, <1>10, <1>13, <1>14, <1>15, <2>1

(* A worker that writes on leaves its log told. *)
LEMMA OutputGrows ==
    ASSUME NEW log, NEW o \in Seq(OutputKinds), Told(log, o), NEW kind \in OutputKinds
    PROVE  Told(log, Append(o, kind))
<1>. DEFINE more == Append(o, kind)
<1>1. /\ more \in Seq(OutputKinds) /\ Len(more) = Len(o) + 1
      /\ \A i \in DOMAIN o : i \in DOMAIN more /\ more[i] = o[i]
  OBVIOUS
<1>. HIDE DEF more
<1>. QED
  BY <1>1 DEF Told

(* podman logs shows the output, or nothing once the container is gone. *)
LEMMA LogsType ==
    ASSUME TypeOK, NEW r \in Runs
    PROVE  /\ out[r] \in Seq(OutputKinds) /\ Logs(r) \in Seq(OutputKinds)
           /\ Len(Logs(r)) <= Len(out[r])
           /\ \A i \in 1 .. Len(Logs(r)) : Logs(r)[i] = out[r][i]
<1>1. out[r] \in Seq(Outputs)
  BY DEF TypeOK, BackendTypeOK
<1>2. out[r] \in Seq(OutputKinds)
  <2>1. \A i \in 1 .. Len(out[r]) : out[r][i] \in OutputKinds
    BY <1>1, OutputsAssumption
  <2>2. out[r] \in [1 .. Len(out[r]) -> OutputKinds] /\ Len(out[r]) \in Nat
    BY <1>1, <2>1
  <2>. QED
    BY <2>2
<1>. QED
  BY <1>2 DEF Logs

LEMMA ReadTells ==
    ASSUME TypeOK, NEW r \in Runs, NEW log, Told(log, out[r])
    PROVE  Told(Ingest(log, Logs(r)), out[r])
BY LogsType, IngestTells

(* One log changes, or none. *)
LEMMA LogChanges ==
    ASSUME TypeOK, LogInv, NEW r \in Runs, NEW log, Told(log, out[r]), UNCHANGED out,
           events' = [events EXCEPT ![r] = log]
    PROVE  LogInv'
<1>1. events = [q \in Runs |-> events[q]]
  BY DEF TypeOK, StoreTypeOK
<1>2. \A q \in Runs : events'[q] = IF q = r THEN log ELSE events[q]
  BY <1>1
<1>. QED
  BY <1>2 DEF LogInv

LEMMA GatewayLogs ==
    ASSUME TypeOK, LogInv, NEW r \in Runs, NEW log, Told(log, out[r]), UNCHANGED out,
           NEW kind \in GatewayKinds, events' = [events EXCEPT ![r] = Log(log, kind)]
    PROVE  LogInv'
BY LogsType, GatewayTells, LogChanges

LEMMA SettleLogs ==
    ASSUME TypeOK, LogInv, NEW r \in Runs, NEW log, Told(log, out[r]), UNCHANGED out,
           NEW outcome \in TerminalStatuses, SettleRunning(r, log, outcome)
    PROVE  LogInv'
<1>1. CASE status[r] = "running"
  <2>1. outcome \in GatewayKinds /\ events' = [events EXCEPT ![r] = Log(log, outcome)]
    BY <1>1 DEF SettleRunning, GatewayKinds
  <2>. QED
    BY <2>1, GatewayLogs
<1>2. CASE status[r] # "running"
  <2>1. events' = [events EXCEPT ![r] = log]
    BY <1>2 DEF SettleRunning
  <2>. QED
    BY <2>1, LogChanges
<1>. QED
  BY <1>1, <1>2

(* What is left behind by an _ingest call that raises is told too. *)
LEMMA FailureTells ==
    ASSUME TypeOK, NEW r \in Runs, NEW log, Told(log, out[r]),
           NEW left \in FailedIngest(r, log)
    PROVE  Told(left, out[r])
BY ReadTells DEF FailedIngest

LEMMA ReattachedTells ==
    ASSUME TypeOK, LogInv, NEW r \in Runs
    PROVE  Told(Reattached(r), out[r])
<1>1. "worker.attached" \in GatewayKinds
  BY DEF GatewayKinds
<1>. QED
  BY <1>1, LogsType, GatewayTells DEF Reattached, LogInv

LEMMA LogInit == Init => LogInv
<1>. SUFFICES ASSUME Init, NEW r \in Runs PROVE Told(events[r], out[r])
  BY DEF LogInv
<1>1. events[r] = <<>> /\ out[r] = <<>>
  BY DEF Init
<1>2. <<>> \in Seq(Event) /\ Len(<<>>) = 0 /\ DOMAIN <<>> = {} /\ Sources(<<>>) = 1 .. 0
  BY DEF Sources
<1>3. 0 \in 0 .. Len(<<>>)
  BY <1>2
<1>. QED
  BY <1>1, <1>2, <1>3 DEF Told

LEMMA LogNext == TypeOK /\ WatchInv /\ LogInv /\ [Next]_vars => LogInv'
<1>. SUFFICES ASSUME TypeOK, WatchInv, LogInv, [Next]_vars PROVE LogInv'
  OBVIOUS
<1>g. {"queued", "running", "worker.attached", "run.cancel_requested",
       "backend.monitor_error", "cancelled", "interrupted"} \subseteq GatewayKinds
  BY DEF GatewayKinds, LiveStatuses, TerminalStatuses
<1>t. {"failed", "cancelled", "interrupted"} \subseteq TerminalStatuses
  BY DEF TerminalStatuses
<1>q. ASSUME UNCHANGED <<events, out>> PROVE LogInv'
  BY <1>q DEF LogInv
<1>l. \A r \in Runs : Told(events[r], out[r]) /\ out[r] \in Seq(OutputKinds)
  BY LogsType DEF LogInv
<1>i. ASSUME NEW r \in Runs, NEW log \in Ingested(r, events[r]) PROVE Told(log, out[r])
  BY <1>i, <1>l, ReadTells DEF Ingested
<1>j. ASSUME NEW r \in Runs, NEW log \in Ingested(r, Reattached(r)) PROVE Told(log, out[r])
  BY <1>j, ReattachedTells, ReadTells DEF Ingested
<1>1. ASSUME NEW c \in Conversations, Submit(c) PROVE LogInv'
  <2>1. Len(conv) + 1 \in Runs
    BY <1>1, BoundsAssumption DEF Submit, Runs, TypeOK, StoreTypeOK
  <2>2. /\ events' = [events EXCEPT ![Len(conv) + 1] = Log(@, "queued")] /\ UNCHANGED out
    BY <1>1 DEF Submit, backend
  <2>. QED
    BY <1>g, <1>l, <2>1, <2>2, GatewayLogs
<1>2. ASSUME NEW c \in Conversations, DispatchSteps(c) PROVE LogInv'
  <2>h. dispatch[c].pc # "idle" => dispatch[c].run \in Runs
    BY DEF WatchInv, DispatchHoldsRun
  <2>1. CASE DispatchNothing(c) \/ DispatchCreate(c) \/ DispatchDiscard(c)
    BY <1>q, <2>1 DEF DispatchNothing, DispatchCreate, DispatchDiscard, store, backend
  <2>2. CASE DispatchClaim(c)
    <3>1. PICK r \in NextQueued(c) : events' = [events EXCEPT ![r] = Log(@, "running")]
      BY <2>2 DEF DispatchClaim
    <3>2. r \in Runs
      BY SubmittedAreRuns DEF NextQueued, QueuedIn, TypeOK
    <3>. QED
      BY <1>g, <1>l, <2>2, <3>1, <3>2, GatewayLogs DEF DispatchClaim, backend
  <2>3. CASE DispatchAttach(c)
    BY <1>g, <1>l, <2>h, <2>3, GatewayLogs DEF DispatchAttach, backend
  <2>4. CASE DispatchRaises(c)
    BY <1>l, <1>t, <2>h, <2>4, SettleLogs DEF DispatchRaises, backend
  <2>. QED
    BY <1>2, <2>1, <2>2, <2>3, <2>4 DEF DispatchSteps
<1>3. ASSUME NEW r \in Runs, Calls(r) PROVE LogInv'
  <2>1. CASE CancelQueued(r)
    BY <1>g, <1>l, <2>1, GatewayTells, GatewayLogs
       DEF CancelQueued, backend
  <2>2. CASE CancelStarting(r)
    BY <1>g, <1>l, <1>t, <2>2, GatewayTells, SettleLogs DEF CancelStarting, backend
  <2>3. CASE CancelRequest(r)
    BY <1>g, <1>l, <2>3, GatewayLogs DEF CancelRequest, backend
  <2>. QED
    BY <1>3, <2>1, <2>2, <2>3 DEF Calls
<1>4. ASSUME NEW r \in Runs, CancelSteps(r) PROVE LogInv'
  <2>1. CASE CancelStop(r)
    BY <1>q, <2>1 DEF CancelStop, store
  <2>2. CASE CancelSettle(r)
    BY <1>i, <1>t, <2>2, SettleLogs DEF CancelSettle, backend
  <2>3. CASE CancelRaises(r)
    BY <1>l, <1>q, <2>3, FailureTells, LogChanges DEF CancelRaises, backend
  <2>. QED
    BY <1>4, <2>1, <2>2, <2>3 DEF CancelSteps
<1>5. ASSUME NEW r \in Runs, MonitorSteps(r) PROVE LogInv'
  <2>1. CASE MonitorReturn(r) \/ MonitorAlive(r)
    BY <1>q, <2>1 DEF MonitorReturn, MonitorAlive, store, backend
  <2>2. CASE MonitorIngest(r)
    BY <1>i, <2>2, LogChanges DEF MonitorIngest, backend
  <2>3. CASE MonitorMissing(r)
    BY <1>l, <1>t, <2>3, SettleLogs DEF MonitorMissing, backend
  <2>4. CASE MonitorFinalize(r)
    BY <1>i, <2>4, SettleLogs, VerdictIsOutcome DEF MonitorFinalize, Finalize, backend
  <2>5. CASE MonitorRaises(r)
    <3>1. PICK log \in FailedIngest(r, events[r]) :
            IF status[r] = "running"
            THEN SettleRunning(r, Log(log, "backend.monitor_error"), "failed")
            ELSE events' = [events EXCEPT ![r] = log]
      BY <2>5 DEF MonitorRaises
    <3>2. Told(log, out[r]) /\ Told(Log(log, "backend.monitor_error"), out[r])
      BY <1>g, <1>l, FailureTells, GatewayTells
    <3>. QED
      BY <1>t, <2>5, <3>1, <3>2, LogChanges, SettleLogs DEF MonitorRaises, backend
  <2>. QED
    BY <1>5, <2>1, <2>2, <2>3, <2>4, <2>5 DEF MonitorSteps
<1>6. ASSUME NEW r \in Runs, NEW kind \in Outputs, Emit(r, kind) PROVE LogInv'
  <2>1. \A q \in Runs : out'[q] = IF q = r THEN Append(out[r], kind) ELSE out[q]
    BY <1>6 DEF Emit, TypeOK, BackendTypeOK
  <2>2. Told(events[r], Append(out[r], kind))
    BY <1>l, OutputGrows, OutputsAssumption
  <2>. QED
    BY <1>6, <2>1, <2>2 DEF Emit, store, LogInv
<1>7. ASSUME NEW r \in Runs, Exit(r) \/ Vanish(r) PROVE LogInv'
  BY <1>7, <1>q DEF Exit, Vanish, store
<1>8. ASSUME NEW r \in Runs, CrashInCancel(r) PROVE LogInv'
  BY <1>8, <1>g, <1>l, GatewayLogs DEF CrashInCancel, backend
<1>9. ASSUME NEW r \in Runs, CrashInIngest(r) PROVE LogInv'
  <2>1. PICK n \in DOMAIN Logs(r) :
          events' = [events EXCEPT ![r] = Ingest(events[r], SubSeq(Logs(r), 1, n))]
    BY <1>9 DEF CrashInIngest, TypeOK, StoreTypeOK
  <2>. DEFINE read == SubSeq(Logs(r), 1, n)
  <2>2. /\ Logs(r) \in Seq(OutputKinds) /\ Len(Logs(r)) <= Len(out[r])
        /\ \A i \in 1 .. Len(Logs(r)) : Logs(r)[i] = out[r][i]
    BY LogsType
  <2>. HIDE DEF Logs
  <2>3. /\ read \in Seq(OutputKinds) /\ Len(read) <= Len(out[r])
        /\ \A i \in 1 .. Len(read) : read[i] = out[r][i]
    BY <2>1, <2>2
  <2>. HIDE DEF read
  <2>4. Told(Ingest(events[r], read), out[r])
    BY <1>l, <2>3, IngestTells
  <2>. QED
    BY <1>9, <2>1, <2>4, LogChanges DEF read, CrashInIngest, backend
<1>10. ASSUME \/ Crash \/ Boot
              \/ \E w \in Strays : ReconcileStray(w) \/ ReconcileStrayRaises(w)
       PROVE  LogInv'
  BY <1>10, <1>q DEF Crash, Boot, ReconcileStray, ReconcileStrayRaises, store, backend
<1>11. ASSUME NEW r \in Runs, ReconcileWorker(r) PROVE LogInv'
  <2>1. CASE ReconcileSettled(r)
    BY <1>q, <2>1 DEF ReconcileSettled
  <2>2. CASE ReconcileMonitor(r)
    BY <1>j, <2>2, LogChanges DEF ReconcileMonitor, backend
  <2>3. CASE ReconcileFinalize(r)
    BY <1>j, <2>3, SettleLogs, VerdictIsOutcome DEF ReconcileFinalize, Finalize, backend
  <2>. QED
    BY <1>11, <2>1, <2>2, <2>3 DEF ReconcileWorker
<1>12. ASSUME NEW r \in Runs, ReconcileRaises(r) PROVE LogInv'
  BY <1>12, <1>q, ReattachedTells, FailureTells, LogChanges DEF ReconcileRaises, backend
<1>13. ASSUME ReconcileSweep PROVE LogInv'
  <2>1. ASSUME NEW r \in Runs PROVE Told(events[r], out[r]) /\ Told(Log(events[r], "interrupted"), out[r])
    BY <1>g, <1>l, GatewayTells
  <2>. QED
    BY <1>13, <2>1 DEF ReconcileSweep, LogInv, backend
<1>14. CASE UNCHANGED vars
  BY <1>14, <1>q DEF vars
<1>. QED
  BY <1>1, <1>2, <1>3, <1>4, <1>5, <1>6, <1>7, <1>8, <1>9, <1>10, <1>11, <1>12, <1>13, <1>14
     DEF Next, ReconcileSteps

(* Worker output is persisted exactly once and in order, whatever polls,   *)
(* cancels, crashes in the middle of an _ingest and replays after a        *)
(* restart read it again.                                                  *)
THEOREM IngestedOnce == Spec => []IngestedExactlyOnce
<1>1. Init => TypeOK /\ WatchInv /\ LogInv
  BY TypeInit, WatchInit, LogInit
<1>2. TypeOK /\ WatchInv /\ LogInv /\ [Next]_vars => TypeOK' /\ WatchInv' /\ LogInv'
  BY TypeNext, WatchNext, LogNext
<1>3. LogInv => IngestedExactlyOnce
  BY DEF LogInv, Told, SourcesBefore, IngestedExactlyOnce
<1>. QED
  BY <1>1, <1>2, <1>3, PTL DEF Spec

-----------------------------------------------------------------------------
(* A log tells one outcome, that of its run.                               *)

Outcomes(log) == {i \in DOMAIN log : log[i].kind \in TerminalStatuses}

Tells(log, s) ==
    IF s \in TerminalStatuses
    THEN \E i \in Outcomes(log) : Outcomes(log) = {i} /\ log[i].kind = s
    ELSE Outcomes(log) = {}

OutcomeInv == \A r \in Runs : Tells(events[r], status[r])

(* What is not an outcome may be added at any time. *)
LEMMA StillTells ==
    ASSUME NEW log, NEW more, GoesOn(log, more), NEW s, Tells(log, s)
    PROVE  Tells(more, s)
<1>1. Outcomes(more) = Outcomes(log) /\ \A i \in Outcomes(log) : more[i] = log[i]
  BY DEF GoesOn, Outcomes
<1>. QED
  BY <1>1 DEF Tells

(* The gateway's own events add one entry. *)
LEMMA OneMore ==
    ASSUME NEW log \in Seq(Event), NEW kind \in GatewayKinds
    PROVE  LET more == Log(log, kind) IN
           /\ more \in Seq(Event)
           /\ \A p \in DOMAIN log : p \in DOMAIN more /\ more[p] = log[p]
           /\ \A p \in DOMAIN more : p \in DOMAIN log \/ p = Len(log) + 1
           /\ Len(log) + 1 \in DOMAIN more /\ more[Len(log) + 1].kind = kind
           /\ Len(log) + 1 \notin DOMAIN log
<1>. DEFINE e == [kind |-> kind, src |-> 0]
<1>1. e \in Event /\ e.kind = kind
  BY DEF Event
<1>. HIDE DEF e
<1>2. Log(log, kind) = Append(log, e)
  BY DEF Log, e
<1>. QED
  BY <1>1, <1>2

LEMMA LogGoesOn ==
    ASSUME NEW log \in Seq(Event), NEW kind \in GatewayKinds \ TerminalStatuses
    PROVE  Log(log, kind) \in Seq(Event) /\ GoesOn(log, Log(log, kind))
BY OneMore DEF GoesOn

LEMMA TellsOutcome ==
    ASSUME NEW log \in Seq(Event), NEW s, s \notin TerminalStatuses, Tells(log, s),
           NEW outcome \in TerminalStatuses
    PROVE  Tells(Log(log, outcome), outcome)
<1>. DEFINE more == Log(log, outcome)
<1>1. outcome \in GatewayKinds
  BY DEF GatewayKinds
<1>2. /\ \A p \in DOMAIN log : p \in DOMAIN more /\ more[p] = log[p]
      /\ \A p \in DOMAIN more : p \in DOMAIN log \/ p = Len(log) + 1
      /\ Len(log) + 1 \in DOMAIN more /\ more[Len(log) + 1].kind = outcome
  BY <1>1, OneMore
<1>. HIDE DEF more
<1>3. Outcomes(log) = {}
  BY DEF Tells
<1>4. Outcomes(more) = {Len(log) + 1}
  BY <1>2, <1>3 DEF Outcomes
<1>. QED
  BY <1>2, <1>4 DEF Tells, more

LEMMA FailureGoesOn ==
    ASSUME TypeOK, NEW r \in Runs, NEW log, Told(log, out[r]), NEW left \in FailedIngest(r, log)
    PROVE  GoesOn(log, left)
<1>1. GoesOn(log, Ingest(log, Logs(r)))
  BY LogsType, IngestTells
<1>2. GoesOn(log, log)
  BY DEF GoesOn
<1>. QED
  BY <1>1, <1>2 DEF FailedIngest

LEMMA ReattachedGoesOn ==
    ASSUME TypeOK, LogInv, OutcomeInv, NEW r \in Runs
    PROVE  Told(Reattached(r), out[r]) /\ Tells(Reattached(r), status[r])
<1>1. "worker.attached" \in GatewayKinds \ TerminalStatuses /\ events[r] \in Seq(Event)
  BY DEF GatewayKinds, TerminalStatuses, LogInv, Told
<1>2. Tells(Log(events[r], "worker.attached"), status[r])
  BY <1>1, LogGoesOn, StillTells DEF OutcomeInv
<1>. QED
  BY <1>2, ReattachedTells DEF Reattached, OutcomeInv

(* One log goes on, its run's status may change from one that is no        *)
(* outcome to another.                                                     *)
LEMMA OutcomeKept ==
    ASSUME TypeOK, OutcomeInv, NEW r \in Runs, NEW log, Tells(log, status[r]),
           events' = [events EXCEPT ![r] = log], UNCHANGED status
    PROVE  OutcomeInv'
<1>1. \A q \in Runs : events'[q] = IF q = r THEN log ELSE events[q]
  BY DEF TypeOK, StoreTypeOK
<1>. QED
  BY <1>1 DEF OutcomeInv

LEMMA OutcomeMoves ==
    ASSUME TypeOK, OutcomeInv, NEW r \in Runs, NEW log, NEW s, Tells(log, s),
           events' = [events EXCEPT ![r] = log], status' = [status EXCEPT ![r] = s]
    PROVE  OutcomeInv'
<1>1. \A q \in Runs : /\ events'[q] = IF q = r THEN log ELSE events[q]
                      /\ status'[q] = IF q = r THEN s ELSE status[q]
  BY DEF TypeOK, StoreTypeOK
<1>. QED
  BY <1>1 DEF OutcomeInv

LEMMA OutcomeSettles ==
    ASSUME TypeOK, OutcomeInv, NEW r \in Runs, NEW log \in Seq(Event), Tells(log, status[r]),
           NEW outcome \in TerminalStatuses, SettleRunning(r, log, outcome)
    PROVE  OutcomeInv'
<1>1. CASE status[r] = "running"
  <2>1. Tells(Log(log, outcome), outcome)
    BY <1>1, TellsOutcome DEF TerminalStatuses
  <2>. QED
    BY <1>1, <2>1, OutcomeMoves DEF SettleRunning
<1>2. CASE status[r] # "running"
  BY <1>2, OutcomeKept DEF SettleRunning
<1>. QED
  BY <1>1, <1>2

LEMMA OutcomeInit == Init => OutcomeInv
<1>. SUFFICES ASSUME Init, NEW r \in Runs PROVE Tells(events[r], status[r])
  BY DEF OutcomeInv
<1>1. events[r] = <<>> /\ status[r] = "absent"
  BY DEF Init
<1>. QED
  BY <1>1 DEF Tells, Outcomes, TerminalStatuses

LEMMA OutcomeNext == TypeOK /\ WatchInv /\ LogInv /\ OutcomeInv /\ [Next]_vars => OutcomeInv'
<1>. SUFFICES ASSUME TypeOK, WatchInv, LogInv, OutcomeInv, [Next]_vars PROVE OutcomeInv'
  OBVIOUS
<1>g. {"queued", "running", "worker.attached", "run.cancel_requested",
       "backend.monitor_error"} \subseteq GatewayKinds \ TerminalStatuses
  BY DEF GatewayKinds, LiveStatuses, TerminalStatuses
<1>t. {"failed", "cancelled", "interrupted"} \subseteq TerminalStatuses
  BY DEF TerminalStatuses
<1>q. ASSUME UNCHANGED <<events, status>> PROVE OutcomeInv'
  BY <1>q DEF OutcomeInv
<1>l. \A r \in Runs : events[r] \in Seq(Event) /\ Told(events[r], out[r])
                      /\ Tells(events[r], status[r])
  BY DEF LogInv, OutcomeInv, Told
<1>m. ASSUME NEW r \in Runs, NEW log \in Seq(Event), Tells(log, status[r]),
             NEW kind \in GatewayKinds \ TerminalStatuses
      PROVE  Log(log, kind) \in Seq(Event) /\ Tells(Log(log, kind), status[r])
  BY <1>m, LogGoesOn, StillTells
<1>r. ASSUME NEW r \in Runs, NEW log, Told(log, out[r]), Tells(log, status[r])
      PROVE  /\ Ingest(log, Logs(r)) \in Seq(Event) /\ Tells(Ingest(log, Logs(r)), status[r])
             /\ \A left \in FailedIngest(r, log) :
                    left \in Seq(Event) /\ Tells(left, status[r])
  <2>1. Told(Ingest(log, Logs(r)), out[r]) /\ GoesOn(log, Ingest(log, Logs(r)))
    BY <1>r, LogsType, IngestTells
  <2>2. ASSUME NEW left \in FailedIngest(r, log) PROVE Told(left, out[r]) /\ GoesOn(log, left)
    BY <1>r, <2>2, FailureTells, FailureGoesOn
  <2>. QED
    BY <1>r, <2>1, <2>2, StillTells DEF Told
<1>i. ASSUME NEW r \in Runs, NEW log \in Ingested(r, events[r])
      PROVE  log \in Seq(Event) /\ Tells(log, status[r])
  BY <1>i, <1>l, <1>r DEF Ingested
<1>j. ASSUME NEW r \in Runs, NEW log \in Ingested(r, Reattached(r))
      PROVE  log \in Seq(Event) /\ Tells(log, status[r])
  BY <1>j, <1>r, ReattachedGoesOn DEF Ingested
<1>1. ASSUME NEW c \in Conversations, Submit(c) PROVE OutcomeInv'
  <2>. DEFINE r == Len(conv) + 1
  <2>1. r \in Runs /\ r \notin DOMAIN conv
    BY <1>1, BoundsAssumption DEF Submit, Runs, TypeOK, StoreTypeOK
  <2>2. /\ events' = [events EXCEPT ![r] = Log(@, "queued")]
        /\ status' = [status EXCEPT ![r] = "queued"]
    BY <1>1 DEF Submit
  <2>3. status[r] = "absent"
    BY <2>1 DEF TypeOK, StoreTypeOK
  <2>. HIDE DEF r
  <2>4. Tells(Log(events[r], "queued"), "queued")
    <3>1. Tells(Log(events[r], "queued"), status[r])
      BY <1>g, <1>l, <1>m, <2>1
    <3>. QED
      BY <2>3, <3>1 DEF Tells, TerminalStatuses
  <2>. QED
    BY <2>1, <2>2, <2>4, OutcomeMoves
<1>2. ASSUME NEW c \in Conversations, DispatchSteps(c) PROVE OutcomeInv'
  <2>h. dispatch[c].pc # "idle" => dispatch[c].run \in Runs
    BY DEF WatchInv, DispatchHoldsRun
  <2>1. CASE DispatchNothing(c) \/ DispatchCreate(c) \/ DispatchDiscard(c)
    BY <1>q, <2>1 DEF DispatchNothing, DispatchCreate, DispatchDiscard, store, backend
  <2>2. CASE DispatchClaim(c)
    <3>1. PICK r \in NextQueued(c) : /\ events' = [events EXCEPT ![r] = Log(@, "running")]
                                    /\ status' = [status EXCEPT ![r] = "running"]
      BY <2>2 DEF DispatchClaim
    <3>2. r \in Runs /\ status[r] = "queued"
      BY SubmittedAreRuns DEF NextQueued, QueuedIn, TypeOK
    <3>3. Tells(Log(events[r], "running"), "running")
      <4>1. Tells(Log(events[r], "running"), status[r])
        BY <1>g, <1>l, <1>m, <3>2
      <4>. QED
        BY <3>2, <4>1 DEF Tells, TerminalStatuses
    <3>. QED
      BY <3>1, <3>2, <3>3, OutcomeMoves
  <2>3. CASE DispatchAttach(c)
    BY <1>g, <1>l, <1>m, <2>h, <2>3, OutcomeKept DEF DispatchAttach
  <2>4. CASE DispatchRaises(c)
    BY <1>l, <1>t, <2>h, <2>4, OutcomeSettles DEF DispatchRaises
  <2>. QED
    BY <1>2, <2>1, <2>2, <2>3, <2>4 DEF DispatchSteps
<1>3. ASSUME NEW r \in Runs, Calls(r) PROVE OutcomeInv'
  <2>1. /\ Log(events[r], "run.cancel_requested") \in Seq(Event)
        /\ Tells(Log(events[r], "run.cancel_requested"), status[r])
    BY <1>g, <1>l, <1>m
  <2>2. CASE CancelQueued(r)
    <3>1. Tells(Log(Log(events[r], "run.cancel_requested"), "cancelled"), "cancelled")
      BY <1>t, <2>1, <2>2, TellsOutcome DEF CancelQueued, TerminalStatuses
    <3>. QED
      BY <2>2, <3>1, OutcomeMoves DEF CancelQueued
  <2>3. CASE CancelStarting(r)
    BY <1>t, <2>1, <2>3, OutcomeSettles DEF CancelStarting
  <2>4. CASE CancelRequest(r)
    BY <2>1, <2>4, OutcomeKept DEF CancelRequest
  <2>. QED
    BY <1>3, <2>2, <2>3, <2>4 DEF Calls
<1>4. ASSUME NEW r \in Runs, CancelSteps(r) PROVE OutcomeInv'
  <2>1. CASE CancelStop(r)
    BY <1>q, <2>1 DEF CancelStop, store
  <2>2. CASE CancelSettle(r)
    BY <1>i, <1>t, <2>2, OutcomeSettles DEF CancelSettle
  <2>3. CASE CancelRaises(r)
    BY <1>l, <1>q, <1>r, <2>3, OutcomeKept DEF CancelRaises
  <2>. QED
    BY <1>4, <2>1, <2>2, <2>3 DEF CancelSteps
<1>5. ASSUME NEW r \in Runs, MonitorSteps(r) PROVE OutcomeInv'
  <2>1. CASE MonitorReturn(r) \/ MonitorAlive(r)
    BY <1>q, <2>1 DEF MonitorReturn, MonitorAlive, store, backend
  <2>2. CASE MonitorIngest(r)
    BY <1>i, <2>2, OutcomeKept DEF MonitorIngest
  <2>3. CASE MonitorMissing(r)
    BY <1>l, <1>t, <2>3, OutcomeSettles DEF MonitorMissing
  <2>4. CASE MonitorFinalize(r)
    BY <1>i, <2>4, OutcomeSettles, VerdictIsOutcome DEF MonitorFinalize, Finalize
  <2>5. CASE MonitorRaises(r)
    <3>1. PICK log \in FailedIngest(r, events[r]) :
            IF status[r] = "running"
            THEN SettleRunning(r, Log(log, "backend.monitor_error"), "failed")
            ELSE events' = [events EXCEPT ![r] = log] /\ UNCHANGED status
      BY <2>5 DEF MonitorRaises
    <3>2. log \in Seq(Event) /\ Tells(log, status[r])
      BY <1>l, <1>r
    <3>3. /\ Log(log, "backend.monitor_error") \in Seq(Event)
          /\ Tells(Log(log, "backend.monitor_error"), status[r])
      BY <1>g, <1>m, <3>2
    <3>. QED
      BY <1>t, <3>1, <3>2, <3>3, OutcomeKept, OutcomeSettles
  <2>. QED
    BY <1>5, <2>1, <2>2, <2>3, <2>4, <2>5 DEF MonitorSteps
<1>6. ASSUME NEW r \in Runs, \/ \E kind \in Outputs : Emit(r, kind)
                             \/ Exit(r) \/ Vanish(r)
      PROVE  OutcomeInv'
  BY <1>6, <1>q DEF Emit, Exit, Vanish, store
<1>8. ASSUME NEW r \in Runs, CrashInCancel(r) PROVE OutcomeInv'
  BY <1>8, <1>g, <1>l, <1>m, OutcomeKept DEF CrashInCancel
<1>9. ASSUME NEW r \in Runs, CrashInIngest(r) PROVE OutcomeInv'
  <2>1. PICK n \in DOMAIN Logs(r) :
          events' = [events EXCEPT ![r] = Ingest(events[r], SubSeq(Logs(r), 1, n))]
    BY <1>9 DEF CrashInIngest, TypeOK, StoreTypeOK
  <2>. DEFINE read == SubSeq(Logs(r), 1, n)
  <2>2. /\ Logs(r) \in Seq(OutputKinds) /\ Len(Logs(r)) <= Len(out[r])
        /\ out[r] \in Seq(OutputKinds)
        /\ \A i \in 1 .. Len(Logs(r)) : Logs(r)[i] = out[r][i]
    BY LogsType
  <2>. HIDE DEF Logs
  <2>3. /\ read \in Seq(OutputKinds) /\ Len(read) <= Len(out[r])
        /\ \A i \in 1 .. Len(read) : read[i] = out[r][i]
    BY <2>1, <2>2
  <2>. HIDE DEF read
  <2>4. GoesOn(events[r], Ingest(events[r], read))
    BY <1>l, <2>2, <2>3, IngestTells
  <2>5. Tells(Ingest(events[r], read), status[r])
    BY <1>l, <2>4, StillTells
  <2>. QED
    BY <1>9, <2>1, <2>5, OutcomeKept DEF read, CrashInIngest
<1>10. ASSUME \/ Crash \/ Boot
              \/ \E w \in Strays : ReconcileStray(w) \/ ReconcileStrayRaises(w)
       PROVE  OutcomeInv'
  BY <1>10, <1>q DEF Crash, Boot, ReconcileStray, ReconcileStrayRaises, store, backend
<1>11. ASSUME NEW r \in Runs, ReconcileWorker(r) PROVE OutcomeInv'
  <2>1. CASE ReconcileSettled(r)
    BY <1>q, <2>1 DEF ReconcileSettled
  <2>2. CASE ReconcileMonitor(r)
    BY <1>j, <2>2, OutcomeKept DEF ReconcileMonitor
  <2>3. CASE ReconcileFinalize(r)
    BY <1>j, <2>3, OutcomeSettles, VerdictIsOutcome DEF ReconcileFinalize, Finalize
  <2>. QED
    BY <1>11, <2>1, <2>2, <2>3 DEF ReconcileWorker
<1>12. ASSUME NEW r \in Runs, ReconcileRaises(r) PROVE OutcomeInv'
  <2>1. \A left \in FailedIngest(r, Reattached(r)) : Tells(left, status[r])
    BY <1>r, ReattachedGoesOn
  <2>. QED
    BY <1>12, <1>q, <2>1, OutcomeKept DEF ReconcileRaises
<1>13. ASSUME ReconcileSweep PROVE OutcomeInv'
  <2>1. ASSUME NEW r \in Runs, status[r] = "running"
        PROVE  Tells(Log(events[r], "interrupted"), "interrupted")
    BY <1>l, <1>t, <2>1, TellsOutcome DEF TerminalStatuses
  <2>2. \A r \in Unlisted : status[r] = "running"
    BY DEF Unlisted
  <2>. QED
    BY <1>13, <1>l, <2>1, <2>2 DEF ReconcileSweep, OutcomeInv
<1>14. CASE UNCHANGED vars
  BY <1>14, <1>q DEF vars, store
<1>. QED
  BY <1>1, <1>2, <1>3, <1>4, <1>5, <1>6, <1>8, <1>9, <1>10, <1>11, <1>12, <1>13, <1>14
     DEF Next, ReconcileSteps

(* A run's log holds no outcome before the run has one and exactly that    *)
(* one afterwards, whoever settles it: the monitor, cancel, a dispatch     *)
(* that fails, or reconcile after a crash between any two of their steps.  *)
THEOREM LogsTellTheOutcome == Spec => []OneOutcomeEvent
<1>1. Init => TypeOK /\ WatchInv /\ LogInv /\ OutcomeInv
  BY TypeInit, WatchInit, LogInit, OutcomeInit
<1>2. TypeOK /\ WatchInv /\ LogInv /\ OutcomeInv /\ [Next]_vars
      => TypeOK' /\ WatchInv' /\ LogInv' /\ OutcomeInv'
  BY TypeNext, WatchNext, LogNext, OutcomeNext
<1>3. OutcomeInv => OneOutcomeEvent
  BY DEF OutcomeInv, Tells, Outcomes, OneOutcomeEvent
<1>. QED
  BY <1>1, <1>2, <1>3, PTL DEF Spec

-----------------------------------------------------------------------------
(* A completed run has earned it.                                          *)

(* What reconcile and the dispatches have in hand: a dispatch prepares a   *)
(* run of its conversation that reconcile does not visit, and a worker     *)
(* that was not live when reconcile listed it has exited for good.         *)
Prepares(c) == dispatch[c].pc # "idle" =>
    /\ dispatch[c].run \in DOMAIN conv /\ conv[dispatch[c].run] = c
    /\ Begun(dispatch[c].run) /\ ~attached[dispatch[c].run]
    /\ dispatch[c].run \notin recon.todo

Visited(r) == r \in recon.todo =>
    Begun(r) /\ (r \notin recon.live => container[r] = "exited")

HandsInv ==
    /\ AtRest /\ BegunFirst
    /\ \A c \in Conversations : Prepares(c)
    /\ \A r \in Runs : Visited(r) /\ container[r] # "removed"

Earned(r) == status[r] = "completed" =>
    /\ attached[r] /\ container[r] = "exited"
    /\ 1 .. Len(out[r]) \subseteq Sources(events[r])
    /\ "run.cancel_requested" \notin Kinds(events[r])
    /\ \E i \in DOMAIN out[r] : out[r][i] \in {"agent.completed", "agent.empty"}

EarnedInv == \A r \in Runs : Earned(r)

LEMMA HandsInit == Init => HandsInv /\ EarnedInv
<1>. SUFFICES ASSUME Init PROVE HandsInv /\ EarnedInv
  OBVIOUS
<1>1. \A r \in Runs : container[r] = "absent" /\ ~attached[r] /\ status[r] = "absent"
  BY StraysAssumption DEF Init, Workers
<1>2. recon.todo = {} /\ \A c \in Conversations : dispatch[c].pc = "idle"
  BY DEF Init, NoRecon, NoDispatch
<1>3. AtRest
  BY DEF Init, AtRest, NoDispatch
<1>. QED
  BY <1>1, <1>2, <1>3 DEF HandsInv, BegunFirst, Prepares, Visited, EarnedInv, Earned

(* Nothing of the process is left to run while the gateway is down. *)
LEMMA AtRestNext == TypeOK /\ AtRest /\ [Next]_vars => AtRest'
<1>. SUFFICES ASSUME TypeOK, AtRest, [Next]_vars PROVE AtRest'
  OBVIOUS
<1>u. ASSUME gateway # "down", UNCHANGED gateway PROVE AtRest'
  BY <1>u DEF AtRest
<1>p. ASSUME UNCHANGED process PROVE AtRest'
  BY <1>p DEF AtRest, process
<1>g. ASSUME GatewayDown PROVE AtRest'
  BY <1>g DEF AtRest, GatewayDown, NoDispatch
<1>1. ASSUME NEW c \in Conversations, Submit(c) PROVE AtRest'
  BY <1>1, <1>u DEF Submit
<1>2. ASSUME NEW c \in Conversations, DispatchSteps(c) PROVE AtRest'
  <2>1. UNCHANGED gateway /\ (dispatches[c] > 0 \/ dispatch[c].pc # "idle")
    BY <1>2 DEF DispatchSteps, DispatchNothing, DispatchClaim, DispatchCreate, DispatchAttach,
         DispatchDiscard, DispatchRaises
  <2>. QED
    BY <1>u, <2>1 DEF AtRest
<1>3. ASSUME NEW r \in Runs, Calls(r) PROVE AtRest'
  BY <1>3, <1>u DEF Calls, CancelQueued, CancelStarting, CancelRequest
<1>4. ASSUME NEW r \in Runs, CancelSteps(r) PROVE AtRest'
  <2>1. UNCHANGED gateway /\ canceller[r] # "none"
    BY <1>4 DEF CancelSteps, CancelStop, CancelSettle, CancelRaises
  <2>. QED
    BY <1>u, <2>1 DEF AtRest
<1>5. ASSUME NEW r \in Runs, MonitorSteps(r) PROVE AtRest'
  <2>1. UNCHANGED gateway /\ monitor[r] # "none"
    BY <1>5 DEF MonitorSteps, MonitorReturn, MonitorIngest, MonitorAlive, MonitorMissing,
         MonitorFinalize, MonitorRaises
  <2>. QED
    BY <1>u, <2>1 DEF AtRest
<1>6. ASSUME NEW r \in Runs,
             Exit(r) \/ Vanish(r) \/ \E kind \in Outputs : Emit(r, kind)
      PROVE  AtRest'
  BY <1>6, <1>p DEF Exit, Vanish, Emit
<1>7. ASSUME NEW r \in Runs, CrashInCancel(r) \/ CrashInIngest(r) PROVE AtRest'
  BY <1>7, <1>g DEF CrashInCancel, CrashInIngest
<1>8. ASSUME Crash PROVE AtRest'
  BY <1>8, <1>g DEF Crash
<1>9. ASSUME Boot PROVE AtRest'
  BY <1>9 DEF Boot, AtRest
<1>10. ASSUME ReconcileSteps PROVE AtRest'
  <2>1. CASE \E w \in Strays : ReconcileStray(w)
    BY <1>u, <2>1 DEF ReconcileStray, Reconciling
  <2>2. CASE \E r \in Runs : ReconcileWorker(r)
    BY <1>u, <2>2
       DEF ReconcileWorker, ReconcileSettled, ReconcileMonitor, ReconcileFinalize, Reconciling
  <2>3. CASE \E r \in Runs : ReconcileRaises(r)
    BY <1>g, <2>3 DEF ReconcileRaises
  <2>4. CASE ReconcileSweep
    BY <2>4 DEF ReconcileSweep, AtRest
  <2>5. CASE \E w \in Strays : ReconcileStrayRaises(w)
    BY <1>g, <2>5 DEF ReconcileStrayRaises
  <2>. QED
    BY <1>10, <2>1, <2>2, <2>3, <2>4, <2>5 DEF ReconcileSteps
<1>11. CASE UNCHANGED vars
  BY <1>11, <1>p DEF vars, process
<1>. QED
  BY <1>1, <1>2, <1>3, <1>4, <1>5, <1>6, <1>7, <1>8, <1>9, <1>10, <1>11 DEF Next

(* Most steps only settle runs or stop workers. *)
LEMMA HandsKept ==
    ASSUME TypeOK, HandsInv, AtRest', UNCHANGED <<conv, attached, recon, dispatch>>,
           \A r \in Runs : /\ Begun(r) => Begun(r)'
                           /\ container'[r] # "removed"
                           /\ container'[r] # "absent" => container[r] # "absent"
                           /\ container[r] = "exited" => container'[r] = "exited"
    PROVE  HandsInv'
<1>1. DOMAIN conv \subseteq Runs
  BY SubmittedAreRuns DEF TypeOK
<1>2. BegunFirst'
  BY DEF HandsInv, BegunFirst
<1>3. ASSUME NEW c \in Conversations PROVE Prepares(c)'
  <2>1. Prepares(c)
    BY DEF HandsInv
  <2>. QED
    BY <1>1, <2>1 DEF Prepares
<1>4. ASSUME NEW r \in Runs PROVE Visited(r)'
  BY <1>4 DEF HandsInv, Visited
<1>. QED
  BY <1>2, <1>3, <1>4 DEF HandsInv

(* A dispatch lets go of its run. *)
LEMMA HandsOff ==
    ASSUME TypeOK, HandsInv, AtRest', NEW c \in Conversations,
           UNCHANGED <<conv, recon>>, dispatch[c].pc # "idle",
           dispatch' = [dispatch EXCEPT ![c] = NoDispatch],
           \A r \in Runs : /\ Begun(r) => Begun(r)'
                           /\ r # dispatch[c].run => attached'[r] = attached[r]
                           /\ container'[r] # "removed"
                           /\ container'[r] # "absent" => container[r] # "absent"
                           /\ container[r] = "exited" => container'[r] = "exited"
    PROVE  HandsInv'
<1>1. DOMAIN conv \subseteq Runs
  BY SubmittedAreRuns DEF TypeOK
<1>2. Prepares(c) /\ dispatch[c].run \in Runs
  BY <1>1 DEF HandsInv, Prepares
<1>3. BegunFirst'
  BY <1>2 DEF HandsInv, BegunFirst, Prepares
<1>4. ASSUME NEW e \in Conversations PROVE Prepares(e)'
  <2>1. dispatch'[e] = IF e = c THEN NoDispatch ELSE dispatch[e]
    BY DEF TypeOK, ProcessTypeOK
  <2>2. Prepares(e)
    BY DEF HandsInv
  <2>. QED
    BY <1>1, <1>2, <2>1, <2>2 DEF Prepares, NoDispatch
<1>5. ASSUME NEW r \in Runs PROVE Visited(r)'
  BY <1>5 DEF HandsInv, Visited
<1>. QED
  BY <1>3, <1>4, <1>5 DEF HandsInv

(* reconcile is done with a worker. *)
LEMMA HandsVisit ==
    ASSUME TypeOK, HandsInv, AtRest', NEW w \in Workers, UNCHANGED <<conv, dispatch>>,
           w \in recon.todo, recon' = [recon EXCEPT !.todo = @ \ {w}],
           \A r \in Runs : /\ Begun(r) => Begun(r)'
                           /\ r # w => attached'[r] = attached[r]
                           /\ container'[r] # "removed"
                           /\ container'[r] # "absent" => container[r] # "absent"
                           /\ container[r] = "exited" => container'[r] = "exited"
    PROVE  HandsInv'
<1>1. DOMAIN conv \subseteq Runs
  BY SubmittedAreRuns DEF TypeOK
<1>2. recon'.todo = recon.todo \ {w} /\ recon'.live = recon.live
  BY DEF TypeOK, ProcessTypeOK
<1>3. \A r \in Runs : Visited(r)
  BY DEF HandsInv
<1>4. BegunFirst'
  <2>. SUFFICES ASSUME NEW r \in Runs, attached'[r] \/ container'[r] # "absent"
                PROVE  Begun(r)'
    BY DEF BegunFirst
  <2>1. CASE r = w
    BY <1>3, <2>1 DEF Visited
  <2>2. CASE r # w
    BY <2>2 DEF HandsInv, BegunFirst
  <2>. QED
    BY <2>1, <2>2
<1>5. ASSUME NEW e \in Conversations PROVE Prepares(e)'
  <2>1. Prepares(e)
    BY DEF HandsInv
  <2>. QED
    BY <1>1, <1>2, <2>1 DEF Prepares
<1>6. ASSUME NEW r \in Runs PROVE Visited(r)'
  BY <1>2, <1>3, <1>6 DEF Visited
<1>. QED
  BY <1>4, <1>5, <1>6 DEF HandsInv

(* The gateway dies, or start() fails. *)
LEMMA HandsDown ==
    ASSUME HandsInv, AtRest', GatewayDown, UNCHANGED <<status, container>>,
           \A r \in Runs : attached'[r] => attached[r] \/ r \in recon.todo
    PROVE  HandsInv'
<1>1. recon'.todo = {} /\ \A c \in Conversations : dispatch'[c].pc = "idle"
  BY DEF GatewayDown, NoRecon, NoDispatch
<1>2. BegunFirst'
  BY DEF HandsInv, BegunFirst, Visited, Begun
<1>. QED
  BY <1>1, <1>2 DEF HandsInv, Prepares, Visited

LEMMA HandsNext ==
    ASSUME "vanish" \notin Faults
    PROVE  TypeOK /\ HandsInv /\ [Next]_vars => HandsInv'
<1>. SUFFICES ASSUME TypeOK, HandsInv, [Next]_vars PROVE HandsInv'
  OBVIOUS
<1>a. AtRest'
  BY AtRestNext DEF HandsInv
<1>d. DOMAIN conv \subseteq Runs
  BY SubmittedAreRuns DEF TypeOK
<1>c. /\ container \in [Workers -> {"absent", "running", "exited", "removed"}]
      /\ Runs \subseteq Workers /\ \A w \in Strays : w \notin Runs
  BY StraysAssumption DEF TypeOK, BackendTypeOK, Workers
<1>s. status \in [Runs -> {"absent"} \cup LiveStatuses \cup TerminalStatuses]
  BY DEF TypeOK, StoreTypeOK
<1>h. \A r \in Runs : Visited(r) /\ container[r] # "removed"
  BY DEF HandsInv
<1>stop. ASSUME NEW r \in Runs, StopContainer(r)
         PROVE  \A q \in Runs : /\ container'[q] # "removed"
                                /\ container'[q] # "absent" => container[q] # "absent"
                                /\ container[q] = "exited" => container'[q] = "exited"
  BY <1>c, <1>h, <1>stop DEF StopContainer
<1>b. ASSUME UNCHANGED status PROVE \A q \in Runs : Begun(q) => Begun(q)'
  BY <1>b DEF Begun
<1>set. ASSUME NEW r \in Runs, NEW outcome, outcome \notin {"absent", "queued"},
               status' = [status EXCEPT ![r] = outcome]
        PROVE  \A q \in Runs : Begun(q) => Begun(q)'
  BY <1>s, <1>set DEF Begun
<1>settle. ASSUME NEW r \in Runs, NEW log, NEW outcome \in TerminalStatuses,
                  SettleRunning(r, log, outcome)
           PROVE  \A q \in Runs : Begun(q) => Begun(q)'
  BY <1>s, <1>settle DEF SettleRunning, Begun, TerminalStatuses
<1>t. {"failed", "cancelled", "interrupted"} \subseteq TerminalStatuses
  BY DEF TerminalStatuses
<1>1. ASSUME NEW c \in Conversations, Submit(c) PROVE HandsInv'
  <2>1. Len(conv) + 1 \in Runs /\ Len(conv) + 1 \notin DOMAIN conv
    BY <1>1, BoundsAssumption DEF Submit, Runs, TypeOK, StoreTypeOK
  <2>2. status[Len(conv) + 1] = "absent"
    BY <2>1 DEF TypeOK, StoreTypeOK
  <2>3. \A q \in Runs : Begun(q) => Begun(q)'
    BY <1>1, <1>s, <2>1, <2>2 DEF Submit, Begun
  <2>4. UNCHANGED <<attached, container, recon, dispatch>>
    BY <1>1 DEF Submit, backend
  <2>5. \A q \in DOMAIN conv : q \in DOMAIN conv' /\ conv'[q] = conv[q]
    BY <1>1 DEF Submit, TypeOK, StoreTypeOK
  <2>6. ASSUME NEW e \in Conversations PROVE Prepares(e)'
    <3>1. Prepares(e)
      BY DEF HandsInv
    <3>. QED
      BY <1>d, <2>3, <2>4, <2>5, <3>1 DEF Prepares
  <2>7. ASSUME NEW r \in Runs PROVE Visited(r)'
    BY <1>h, <2>3, <2>4, <2>7 DEF Visited
  <2>. QED
    BY <1>a, <2>3, <2>4, <2>6, <2>7 DEF HandsInv, BegunFirst
<1>2. ASSUME NEW c \in Conversations, DispatchSteps(c) PROVE HandsInv'
  <2>p. Prepares(c) /\ \A e \in Conversations : Prepares(e)
    BY DEF HandsInv
  <2>h. dispatch[c].pc # "idle" => dispatch[c].run \in Runs
    BY <1>d, <2>p DEF Prepares
  <2>n. dispatch \in [Conversations -> [pc : {"idle", "starting", "created"}, run : Runs \cup {0}]]
    BY DEF TypeOK, ProcessTypeOK
  <2>1. CASE DispatchNothing(c)
    BY <1>a, <1>b, <1>h, <2>1, HandsKept DEF DispatchNothing, store, backend
  <2>2. CASE DispatchClaim(c)
    <3>1. PICK r \in NextQueued(c) :
             /\ status' = [status EXCEPT ![r] = "running"]
             /\ dispatch' = [dispatch EXCEPT ![c] = [pc |-> "starting", run |-> r]]
      BY <2>2 DEF DispatchClaim
    <3>2. r \in Runs /\ r \in DOMAIN conv /\ conv[r] = c /\ status[r] = "queued"
      BY <1>d DEF NextQueued, QueuedIn
    <3>3. UNCHANGED <<conv, attached, container, recon>>
      BY <2>2 DEF DispatchClaim, backend
    <3>4. ~attached[r] /\ r \notin recon.todo
      BY <1>h, <3>2 DEF HandsInv, BegunFirst, Begun, Visited
    <3>5. (\A q \in Runs : Begun(q) => Begun(q)') /\ Begun(r)'
      BY <1>s, <3>1, <3>2 DEF Begun
    <3>6. ASSUME NEW e \in Conversations PROVE Prepares(e)'
      <4>1. dispatch'[e] = IF e = c THEN [pc |-> "starting", run |-> r] ELSE dispatch[e]
        BY <2>n, <3>1
      <4>2. CASE e = c
        BY <3>2, <3>3, <3>4, <3>5, <4>1, <4>2 DEF Prepares
      <4>3. CASE e # c
        BY <1>d, <2>p, <3>3, <3>5, <4>1, <4>3 DEF Prepares
      <4>. QED
        BY <4>2, <4>3
    <3>7. ASSUME NEW q \in Runs PROVE Visited(q)'
      BY <1>h, <3>3, <3>5, <3>7 DEF Visited
    <3>. QED
      BY <1>a, <1>h, <3>3, <3>5, <3>6, <3>7 DEF HandsInv, BegunFirst
  <2>3. CASE DispatchCreate(c)
    <3>. DEFINE r == dispatch[c].run
    <3>1. r \in Runs /\ Begun(r) /\ r \notin recon.todo /\ dispatch[c].pc # "idle"
      BY <2>3, <2>h, <2>p DEF DispatchCreate, Prepares
    <3>2. UNCHANGED <<conv, status, attached, recon>>
      BY <2>3 DEF DispatchCreate, store
    <3>3. \A q \in Runs : container'[q] = IF q = r THEN "running" ELSE container[q]
      BY <1>c, <2>3, <3>1 DEF DispatchCreate
    <3>4. \A e \in Conversations :
             /\ dispatch'[e].run = dispatch[e].run
             /\ dispatch'[e].pc # "idle" => dispatch[e].pc # "idle"
      BY <2>3, <2>n DEF DispatchCreate
    <3>5. ASSUME NEW e \in Conversations PROVE Prepares(e)'
      BY <2>p, <3>2, <3>4 DEF Prepares, Begun
    <3>6. ASSUME NEW q \in Runs PROVE Visited(q)'
      BY <1>h, <3>1, <3>2, <3>3, <3>6 DEF Visited, Begun
    <3>7. BegunFirst'
      BY <3>1, <3>2, <3>3 DEF HandsInv, BegunFirst, Begun
    <3>. QED
      BY <1>a, <1>h, <3>3, <3>5, <3>6, <3>7 DEF HandsInv
  <2>4. CASE DispatchAttach(c)
    <3>1. /\ UNCHANGED <<conv, status, container, recon>>
          /\ attached' = [attached EXCEPT ![dispatch[c].run] = TRUE]
          /\ dispatch[c].pc # "idle" /\ dispatch' = [dispatch EXCEPT ![c] = NoDispatch]
      BY <2>4 DEF DispatchAttach, backend
    <3>2. \A q \in Runs : q # dispatch[c].run => attached'[q] = attached[q]
      BY <3>1 DEF TypeOK, StoreTypeOK
    <3>. QED
      BY <1>a, <1>b, <1>h, <3>1, <3>2, HandsOff
  <2>5. CASE DispatchDiscard(c)
    <3>1. /\ UNCHANGED <<conv, status, attached, recon>> /\ StopContainer(dispatch[c].run)
          /\ dispatch[c].pc # "idle" /\ dispatch' = [dispatch EXCEPT ![c] = NoDispatch]
      BY <2>5 DEF DispatchDiscard
    <3>. QED
      BY <1>a, <1>b, <1>stop, <2>h, <3>1, HandsOff
  <2>6. CASE DispatchRaises(c)
    <3>1. /\ UNCHANGED <<conv, attached, container, recon>>
          /\ SettleRunning(dispatch[c].run, events[dispatch[c].run], "failed")
          /\ dispatch[c].pc # "idle" /\ dispatch' = [dispatch EXCEPT ![c] = NoDispatch]
      BY <2>6 DEF DispatchRaises, backend
    <3>. QED
      BY <1>a, <1>h, <1>settle, <1>t, <2>h, <3>1, HandsOff
  <2>. QED
    BY <1>2, <2>1, <2>2, <2>3, <2>4, <2>5, <2>6 DEF DispatchSteps
<1>3. ASSUME NEW r \in Runs, Calls(r) PROVE HandsInv'
  <2>1. UNCHANGED <<conv, attached, container, recon, dispatch>>
    BY <1>3 DEF Calls, CancelQueued, CancelStarting, CancelRequest, backend
  <2>2. \A q \in Runs : Begun(q) => Begun(q)'
    BY <1>3, <1>b, <1>set, <1>settle, <1>t
       DEF Calls, CancelQueued, CancelStarting, CancelRequest
  <2>. QED
    BY <1>a, <1>h, <2>1, <2>2, HandsKept
<1>4. ASSUME NEW r \in Runs, CancelSteps(r) PROVE HandsInv'
  <2>1. CASE CancelStop(r)
    BY <1>a, <1>b, <1>stop, <2>1, HandsKept DEF CancelStop, store
  <2>2. CASE CancelSettle(r)
    <3>1. \A q \in Runs : Begun(q) => Begun(q)'
      BY <1>settle, <1>t, <2>2 DEF CancelSettle
    <3>. QED
      BY <1>a, <1>h, <2>2, <3>1, HandsKept DEF CancelSettle, backend
  <2>3. CASE CancelRaises(r)
    BY <1>a, <1>b, <1>h, <2>3, HandsKept DEF CancelRaises, backend
  <2>. QED
    BY <1>4, <2>1, <2>2, <2>3 DEF CancelSteps
<1>5. ASSUME NEW r \in Runs, MonitorSteps(r) PROVE HandsInv'
  <2>1. UNCHANGED <<conv, attached, container, recon, dispatch>>
    BY <1>5 DEF MonitorSteps, MonitorReturn, MonitorIngest, MonitorAlive, MonitorMissing,
         MonitorFinalize, MonitorRaises, store, backend
  <2>2. \A q \in Runs : Begun(q) => Begun(q)'
    <3>1. CASE MonitorReturn(r) \/ MonitorIngest(r) \/ MonitorAlive(r)
      BY <1>b, <3>1 DEF MonitorReturn, MonitorIngest, MonitorAlive, store
    <3>2. CASE MonitorMissing(r)
      BY <1>settle, <1>t, <3>2 DEF MonitorMissing
    <3>3. CASE MonitorFinalize(r)
      BY <1>settle, <3>3, VerdictIsOutcome DEF MonitorFinalize, Finalize
    <3>4. CASE MonitorRaises(r)
      BY <1>b, <1>settle, <1>t, <3>4 DEF MonitorRaises
    <3>. QED
      BY <1>5, <3>1, <3>2, <3>3, <3>4 DEF MonitorSteps
  <2>. QED
    BY <1>a, <1>h, <2>1, <2>2, HandsKept
<1>6. ASSUME NEW r \in Runs, NEW kind \in Outputs, Emit(r, kind) PROVE HandsInv'
  BY <1>6, <1>a, <1>b, <1>h, HandsKept DEF Emit, store, process
<1>7. ASSUME NEW r \in Runs, Exit(r) \/ Vanish(r) PROVE HandsInv'
  <2>1. UNCHANGED <<conv, status, attached, recon, dispatch>> /\ StopContainer(r)
    BY <1>7 DEF Exit, Vanish, StopContainer, store, process
  <2>. QED
    BY <1>a, <1>b, <1>stop, <2>1, HandsKept
<1>8. ASSUME NEW r \in Runs, CrashInCancel(r) \/ CrashInIngest(r) PROVE HandsInv'
  BY <1>8, <1>a, HandsDown DEF CrashInCancel, CrashInIngest, backend
<1>9. ASSUME Crash PROVE HandsInv'
  BY <1>9, <1>a, HandsDown DEF Crash, store, backend
<1>10. ASSUME Boot PROVE HandsInv'
  <2>1. /\ UNCHANGED <<conv, status, attached, container, dispatch>>
        /\ \A c \in Conversations : dispatch[c].pc = "idle"
    BY <1>10 DEF Boot, backend, coroutines, HandsInv, AtRest
  <2>2. \A q \in Runs : q \in recon'.todo =>
           /\ container[q] \in {"running", "exited"}
           /\ q \notin recon'.live => container[q] = "exited"
    BY <1>10, <1>c DEF Boot, Listings
  <2>3. BegunFirst'
    BY <2>1 DEF HandsInv, BegunFirst, Begun
  <2>4. ASSUME NEW q \in Runs PROVE Visited(q)'
    BY <2>1, <2>2, <2>3, <2>4 DEF Visited, BegunFirst
  <2>. QED
    BY <1>a, <1>h, <2>1, <2>3, <2>4 DEF HandsInv, Prepares
<1>11. ASSUME NEW w \in Strays, ReconcileStray(w) PROVE HandsInv'
  <2>1. \A q \in Runs : container'[q] = container[q]
    BY <1>11, <1>c DEF ReconcileStray
  <2>. QED
    BY <1>11, <1>a, <1>b, <1>h, <2>1, HandsVisit
       DEF ReconcileStray, Reconciling, coroutines, Workers
<1>12. ASSUME NEW r \in Runs, ReconcileWorker(r) PROVE HandsInv'
  <2>1. CASE ReconcileSettled(r)
    BY <1>a, <1>b, <1>c, <1>stop, <2>1, HandsVisit DEF ReconcileSettled, Reconciling, coroutines
  <2>2. CASE ReconcileMonitor(r)
    <3>1. /\ UNCHANGED <<conv, status, container, dispatch>>
          /\ r \in recon.todo /\ recon' = [recon EXCEPT !.todo = @ \ {r}]
      BY <2>2 DEF ReconcileMonitor, Reconciling, backend
    <3>2. \A q \in Runs : q # r => attached'[q] = attached[q]
      BY <2>2 DEF ReconcileMonitor, TypeOK, StoreTypeOK
    <3>. QED
      BY <1>a, <1>b, <1>c, <1>h, <3>1, <3>2, HandsVisit
  <2>3. CASE ReconcileFinalize(r)
    <3>1. /\ UNCHANGED <<conv, container, dispatch>>
          /\ r \in recon.todo /\ recon' = [recon EXCEPT !.todo = @ \ {r}]
      BY <2>3 DEF ReconcileFinalize, Reconciling, backend, coroutines
    <3>2. \A q \in Runs : q # r => attached'[q] = attached[q]
      BY <2>3 DEF ReconcileFinalize, TypeOK, StoreTypeOK
    <3>3. \A q \in Runs : Begun(q) => Begun(q)'
      BY <1>settle, <2>3, VerdictIsOutcome DEF ReconcileFinalize, Finalize
    <3>. QED
      BY <1>a, <1>c, <1>h, <3>1, <3>2, <3>3, HandsVisit
  <2>. QED
    BY <1>12, <2>1, <2>2, <2>3 DEF ReconcileWorker
<1>13. ASSUME NEW r \in Runs, ReconcileRaises(r) PROVE HandsInv'
  <2>1. \A q \in Runs : attached'[q] => attached[q] \/ q \in recon.todo
    BY <1>13 DEF ReconcileRaises, TypeOK, StoreTypeOK
  <2>. QED
    BY <1>13, <1>a, <2>1, HandsDown DEF ReconcileRaises, backend
<1>14. ASSUME ReconcileSweep PROVE HandsInv'
  <2>1. UNCHANGED <<conv, attached, container, dispatch>> /\ recon'.todo = {}
    BY <1>14 DEF ReconcileSweep, backend, NoRecon
  <2>2. \A q \in Runs : Begun(q) => Begun(q)'
    BY <1>14 DEF ReconcileSweep, Begun
  <2>3. BegunFirst'
    BY <2>1, <2>2 DEF HandsInv, BegunFirst
  <2>4. ASSUME NEW e \in Conversations PROVE Prepares(e)'
    <3>1. Prepares(e)
      BY DEF HandsInv
    <3>. QED
      BY <1>d, <2>1, <2>2, <3>1 DEF Prepares
  <2>. QED
    BY <1>a, <1>h, <2>1, <2>3, <2>4 DEF HandsInv, Visited
<1>15. CASE UNCHANGED vars
  BY <1>15, <1>a, <1>b, <1>h, HandsKept DEF vars
<1>16. ASSUME NEW w \in Strays, ReconcileStrayRaises(w) PROVE HandsInv'
  BY <1>16, <1>a, HandsDown DEF ReconcileStrayRaises, store, backend
<1>. QED
  BY <1>1, <1>2, <1>3, <1>4, <1>5, <1>6, <1>7, <1>8, <1>9, <1>10, <1>11, <1>12, <1>13, <1>14,
     <1>15, <1>16
     DEF Next, ReconcileSteps

(* What _finalize completes: its worker said so and nobody asked to cancel *)
(* it, provided list_events shows it the whole log.                        *)
LEMMA VerdictIsEarned ==
    ASSUME NEW log, NEW o \in Seq(OutputKinds), Told(log, o), NEW b \in BOOLEAN,
           Len(log) <= ListLimit, Verdict(log, b) = "completed"
    PROVE  /\ "run.cancel_requested" \notin Kinds(log)
           /\ \E i \in DOMAIN o : o[i] \in {"agent.completed", "agent.empty"}
<1>1. log \in Seq(Event) /\ Len(log) \in Nat
  BY DEF Told
<1>2. Window(log) = log
  <2>1. Window(log) = SubSeq(log, 1, Len(log))
    BY <1>1, ListLimitAssumption DEF Window
  <2>. QED
    BY <1>1, <2>1
<1>3. /\ "run.cancel_requested" \notin Kinds(log)
      /\ LastTerminal(log) \in {"agent.completed", "agent.empty"}
  <2>. DEFINE last == LastTerminal(log)
              asked == "run.cancel_requested" \in Kinds(log)
  <2>1. Verdict(log, b) =
          IF asked THEN "cancelled"
          ELSE CASE last = "agent.completed" -> "completed"
                 [] last = "agent.empty" -> IF "tool.failed" \in Kinds(log)
                                            THEN "failed" ELSE "completed"
                 [] last = "agent.failed" -> "failed"
                 [] last = "agent.interrupted" -> "interrupted"
                 [] OTHER -> IF b THEN "interrupted" ELSE "failed"
    BY <1>2 DEF Verdict
  <2>. HIDE DEF last, asked
  <2>2. ~asked /\ last \in {"agent.completed", "agent.empty"}
    BY <2>1
  <2>. QED
    BY <2>2 DEF last, asked
<1>. DEFINE at == {i \in DOMAIN log : log[i].kind \in AgentTerminal}
<1>4. at # {} /\ at \in SUBSET (1 .. Len(log))
  BY <1>1, <1>3 DEF LastTerminal
<1>5. \E i \in at : \A j \in at : j <= i
  BY <1>1, <1>4, GreatestOf
<1>6. PICK i \in at : log[i].kind = LastTerminal(log)
  BY <1>4, <1>5 DEF LastTerminal
<1>7. log[i].kind \notin GatewayKinds
  BY <1>3, <1>6 DEF GatewayKinds, LiveStatuses, TerminalStatuses
<1>8. log[i].src \in DOMAIN o /\ log[i].kind = o[log[i].src]
  BY <1>6, <1>7 DEF Told
<1>. QED
  BY <1>3, <1>6, <1>8

(* What a step may add to the log of a completed run. *)
Adds(old, new) ==
    /\ Sources(old) \subseteq Sources(new)
    /\ "run.cancel_requested" \in Kinds(new) => "run.cancel_requested" \in Kinds(old)

StaysEarned(r) == status'[r] = "completed" =>
    /\ status[r] = "completed" /\ Adds(events[r], events'[r])
    /\ attached[r] => attached'[r]
    /\ container[r] = "exited" => container'[r] = "exited" /\ out'[r] = out[r]

LEMMA EarnedStays ==
    ASSUME NEW r \in Runs, Earned(r), StaysEarned(r) PROVE Earned(r)'
<1>. SUFFICES ASSUME status'[r] = "completed" PROVE Earned(r)'
  BY DEF Earned
<1>1. /\ attached'[r] /\ container'[r] = "exited" /\ out'[r] = out[r]
      /\ Adds(events[r], events'[r])
  BY DEF Earned, StaysEarned
<1>2. /\ 1 .. Len(out'[r]) \subseteq Sources(events'[r])
      /\ "run.cancel_requested" \notin Kinds(events'[r])
  BY <1>1 DEF Earned, StaysEarned, Adds
<1>. QED
  BY <1>1, <1>2 DEF Earned, StaysEarned

LEMMA LogAdds ==
    ASSUME NEW log, NEW o \in Seq(OutputKinds), Told(log, o), NEW kind \in GatewayKinds,
           kind # "run.cancel_requested"
    PROVE  Adds(log, Log(log, kind))
<1>. DEFINE new == Log(log, kind)
<1>1. /\ new \in Seq(Event) /\ DOMAIN log \subseteq DOMAIN new
      /\ \A p \in DOMAIN new : (p \in DOMAIN log /\ new[p] = log[p]) \/ new[p].kind = kind
      /\ \A p \in DOMAIN log : new[p] = log[p]
  BY DEF Told, Log, Event
<1>. HIDE DEF new
<1>2. Adds(log, new)
  BY <1>1 DEF Adds, Sources, Kinds
<1>. QED
  BY <1>2 DEF new

LEMMA AddsTwice ==
    ASSUME NEW a, NEW b, NEW c, Adds(a, b), Adds(b, c) PROVE Adds(a, c)
BY DEF Adds

LEMMA IngestAdds ==
    ASSUME TypeOK, NEW r \in Runs, NEW log, Told(log, out[r])
    PROVE  /\ Adds(log, Ingest(log, Logs(r)))
           /\ \A n \in DOMAIN Logs(r) : Adds(log, Ingest(log, SubSeq(Logs(r), 1, n)))
<1>1. "run.cancel_requested" \notin OutputKinds
  BY DEF OutputKinds
<1>2. /\ out[r] \in Seq(OutputKinds) /\ Logs(r) \in Seq(OutputKinds)
      /\ Len(Logs(r)) <= Len(out[r])
      /\ \A i \in 1 .. Len(Logs(r)) : Logs(r)[i] = out[r][i]
  BY LogsType
<1>. HIDE DEF Logs
<1>3. ASSUME NEW n \in DOMAIN Logs(r)
      PROVE  /\ SubSeq(Logs(r), 1, n) \in Seq(OutputKinds)
             /\ Len(SubSeq(Logs(r), 1, n)) <= Len(out[r])
             /\ \A i \in 1 .. Len(SubSeq(Logs(r), 1, n)) : SubSeq(Logs(r), 1, n)[i] = out[r][i]
  BY <1>2
<1>4. Adds(log, Ingest(log, Logs(r)))
  BY <1>1, <1>2, IngestTells DEF Adds
<1>5. ASSUME NEW n \in DOMAIN Logs(r) PROVE Adds(log, Ingest(log, SubSeq(Logs(r), 1, n)))
  BY <1>1, <1>2, <1>3, IngestTells DEF Adds
<1>. QED
  BY <1>4, <1>5

(* What _ingest does to the log of a run, whether it returns or raises.    *)
LEMMA ReadAdds ==
    ASSUME TypeOK, NEW r \in Runs, NEW log, Told(log, out[r]),
           NEW new \in Ingested(r, log) \cup FailedIngest(r, log)
    PROVE  Adds(log, new) /\ Told(new, out[r])
<1>1. new \in {log, Ingest(log, Logs(r))}
  BY DEF Ingested, FailedIngest
<1>. QED
  BY <1>1, IngestAdds, ReadTells DEF Adds

(* Settling a run with another outcome completes nothing. *)
LEMMA SettleStays ==
    ASSUME TypeOK, NEW r \in Runs, NEW log, NEW outcome, outcome # "completed",
           Adds(events[r], log), SettleRunning(r, log, outcome)
    PROVE  \A q \in Runs : status'[q] = "completed" =>
              status[q] = "completed" /\ Adds(events[q], events'[q])
<1>1. /\ events = [q \in Runs |-> events[q]]
      /\ status \in [Runs -> {"absent"} \cup LiveStatuses \cup TerminalStatuses]
  BY DEF TypeOK, StoreTypeOK
<1>2. \A q \in Runs : Adds(events[q], events[q])
  BY DEF Adds
<1>3. CASE status[r] = "running"
  <2>1. /\ status' = [status EXCEPT ![r] = outcome]
        /\ events' = [events EXCEPT ![r] = Log(log, outcome)]
    BY <1>3 DEF SettleRunning
  <2>2. \A q \in Runs \ {r} : status'[q] = status[q] /\ events'[q] = events[q]
    BY <1>1, <2>1
  <2>3. status'[r] # "completed"
    BY <1>1, <2>1
  <2>. QED
    BY <1>2, <2>2, <2>3
<1>4. CASE status[r] # "running"
  <2>1. status' = status /\ events' = [events EXCEPT ![r] = log]
    BY <1>4 DEF SettleRunning
  <2>2. \A q \in Runs : events'[q] = IF q = r THEN log ELSE events[q]
    BY <1>1, <2>1
  <2>. QED
    BY <1>2, <2>1, <2>2
<1>. QED
  BY <1>3, <1>4

(* _finalize of a worker that has exited: all it wrote has been read.      *)
LEMMA FinalizeEarns ==
    ASSUME TypeOK, NEW r \in Runs, NEW log, Told(log, out[r]), Adds(events[r], log),
           container[r] = "exited", attached'[r], UNCHANGED <<container, out>>,
           EarnedInv, \A q \in Runs : attached[q] => attached'[q],
           NEW new \in Ingested(r, log), NEW b \in BOOLEAN, Finalize(r, new, b),
           Len(events'[r]) <= ListLimit
    PROVE  EarnedInv'
<1>1. /\ events = [q \in Runs |-> events[q]]
      /\ status \in [Runs -> {"absent"} \cup LiveStatuses \cup TerminalStatuses]
  BY DEF TypeOK, StoreTypeOK
<1>2. Told(new, out[r]) /\ Adds(log, new) /\ Adds(events[r], new)
  BY ReadAdds, AddsTwice
<1>3. out[r] \in Seq(OutputKinds) /\ Logs(r) = out[r] /\ new = Ingest(log, out[r]) /\ ~Raises(out[r])
  BY LogsType DEF Ingested, Logs
<1>4. 1 .. Len(out[r]) \subseteq Sources(new)
  <2>1. Handled(out[r]) = 1 .. Len(out[r])
    BY <1>3 DEF Handled, Raises
  <2>2. Handled(out[r]) \subseteq Sources(new)
    BY <1>3, IngestTells
  <2>. QED
    BY <2>1, <2>2
<1>5. SettleRunning(r, new, Verdict(new, b))
  BY DEF Finalize
<1>6. CASE status[r] = "running" /\ Verdict(new, b) = "completed"
  <2>1. /\ status' = [status EXCEPT ![r] = "completed"]
        /\ events' = [events EXCEPT ![r] = Log(new, "completed")]
    BY <1>5, <1>6 DEF SettleRunning
  <2>2. \A q \in Runs \ {r} : status'[q] = status[q] /\ events'[q] = events[q]
    BY <1>1, <2>1
  <2>3. events'[r] = Log(new, "completed")
    BY <1>1, <2>1
  <2>4. Len(new) <= ListLimit
    <3>1. new \in Seq(Event)
      BY <1>2 DEF Told
    <3>2. Len(Log(new, "completed")) = Len(new) + 1
      BY <3>1 DEF Log
    <3>. QED
      BY <2>3, <3>1, <3>2, ListLimitAssumption
  <2>5. /\ "run.cancel_requested" \notin Kinds(new)
        /\ \E i \in DOMAIN out[r] : out[r][i] \in {"agent.completed", "agent.empty"}
    BY <1>2, <1>3, <1>6, <2>4, VerdictIsEarned
  <2>6. Adds(new, events'[r])
    BY <1>2, <1>3, <2>3, LogAdds DEF GatewayKinds, TerminalStatuses
  <2>7. Earned(r)'
    BY <1>4, <2>5, <2>6 DEF Earned, Adds
  <2>8. ASSUME NEW q \in Runs \ {r} PROVE Earned(q)'
    <3>1. StaysEarned(q)
      BY <2>2 DEF StaysEarned, Adds
    <3>. QED
      BY <3>1, EarnedStays DEF EarnedInv
  <2>. QED
    BY <2>7, <2>8 DEF EarnedInv
<1>7. CASE ~(status[r] = "running" /\ Verdict(new, b) = "completed")
  <2>1. \A q \in Runs : status'[q] = "completed" =>
           status[q] = "completed" /\ Adds(events[q], events'[q])
    <3>1. CASE status[r] = "running"
      BY <1>2, <1>5, <1>7, <3>1, SettleStays
    <3>2. CASE status[r] # "running"
      <4>1. SettleRunning(r, new, "failed")
        BY <1>5, <3>2 DEF SettleRunning
      <4>. QED
        BY <1>2, <4>1, SettleStays
    <3>. QED
      BY <3>1, <3>2
  <2>2. \A q \in Runs : StaysEarned(q)
    BY <2>1 DEF StaysEarned
  <2>. QED
    BY <2>2, EarnedStays DEF EarnedInv
<1>. QED
  BY <1>6, <1>7

Bounded == \A r \in Runs : Len(events[r]) <= ListLimit

LEMMA EarnedNext ==
    ASSUME "vanish" \notin Faults
    PROVE  TypeOK /\ WatchInv /\ LogInv /\ HandsInv /\ EarnedInv /\ Bounded' /\ [Next]_vars
           => EarnedInv'
<1>. SUFFICES ASSUME TypeOK, WatchInv, LogInv, HandsInv, EarnedInv, Bounded', [Next]_vars
              PROVE  EarnedInv'
  OBVIOUS
<1>s. ASSUME \A r \in Runs : StaysEarned(r) PROVE EarnedInv'
  BY <1>s, EarnedStays DEF EarnedInv
<1>a. \A log : Adds(log, log)
  BY DEF Adds
<1>l. \A r \in Runs : Told(events[r], out[r]) /\ Told(Reattached(r), out[r])
  BY ReattachedTells DEF LogInv
<1>e. /\ events = [q \in Runs |-> events[q]]
      /\ status \in [Runs -> {"absent"} \cup LiveStatuses \cup TerminalStatuses]
      /\ attached \in [Runs -> BOOLEAN]
  BY DEF TypeOK, StoreTypeOK
<1>c. container \in [Workers -> {"absent", "running", "exited", "removed"}] /\ Runs \subseteq Workers
  BY DEF TypeOK, BackendTypeOK, Workers
<1>r. \A r \in Runs : Adds(events[r], Reattached(r))
  <2>1. "worker.attached" \in GatewayKinds
    BY DEF GatewayKinds
  <2>2. ASSUME NEW r \in Runs PROVE Adds(events[r], Log(events[r], "worker.attached"))
    BY <1>l, <2>1, LogsType, LogAdds
  <2>. QED
    BY <1>a, <2>2 DEF Reattached
(* No outcome and no log changes: the worker may only stop. *)
<1>q. ASSUME UNCHANGED <<status, events, attached, out>>,
             \A r \in Runs : container[r] = "exited" => container'[r] = "exited"
      PROVE  EarnedInv'
  BY <1>a, <1>q, <1>s DEF StaysEarned
(* One run that is not completed changes. *)
<1>o. ASSUME NEW r \in Runs, NEW s, s # "completed", NEW log,
             status' = [status EXCEPT ![r] = s], events' = [events EXCEPT ![r] = log],
             UNCHANGED <<attached, container, out>>
      PROVE  EarnedInv'
  <2>1. status'[r] # "completed"
    BY <1>e, <1>o
  <2>2. \A q \in Runs \ {r} : status'[q] = status[q] /\ events'[q] = events[q]
    BY <1>e, <1>o
  <2>. QED
    BY <1>a, <1>o, <1>s, <2>1, <2>2 DEF StaysEarned
(* One log is read, nothing else that matters changes. *)
<1>i. ASSUME NEW r \in Runs, NEW log, Adds(events[r], log),
             events' = [events EXCEPT ![r] = log], UNCHANGED <<status, container, out>>,
             \A q \in Runs : attached[q] => attached'[q]
      PROVE  EarnedInv'
  <2>1. \A q \in Runs : Adds(events[q], events'[q])
    BY <1>a, <1>e, <1>i
  <2>. QED
    BY <1>i, <1>s, <2>1 DEF StaysEarned
<1>f. ASSUME NEW r \in Runs, NEW log, NEW outcome, outcome # "completed",
             Adds(events[r], log), SettleRunning(r, log, outcome),
             UNCHANGED <<attached, container, out>>
      PROVE  EarnedInv'
  <2>1. \A q \in Runs : status'[q] = "completed" =>
           status[q] = "completed" /\ Adds(events[q], events'[q])
    BY <1>f, SettleStays
  <2>. QED
    BY <1>f, <1>s, <2>1 DEF StaysEarned
<1>stop. ASSUME NEW r \in Runs, StopContainer(r)
         PROVE  \A q \in Runs : container[q] = "exited" => container'[q] = "exited"
  BY <1>c, <1>stop DEF StopContainer
<1>1. ASSUME NEW c \in Conversations, Submit(c) PROVE EarnedInv'
  <2>1. Len(conv) + 1 \in Runs
    BY <1>1, BoundsAssumption DEF Submit, Runs, TypeOK, StoreTypeOK
  <2>2. /\ status' = [status EXCEPT ![Len(conv) + 1] = "queued"]
        /\ events' = [events EXCEPT ![Len(conv) + 1] = Log(events[Len(conv) + 1], "queued")]
        /\ UNCHANGED <<attached, container, out>>
    BY <1>1, <1>e, <2>1 DEF Submit, backend
  <2>. QED
    BY <1>o, <2>1, <2>2
<1>2. ASSUME NEW c \in Conversations, DispatchSteps(c) PROVE EarnedInv'
  <2>p. Prepares(c)
    BY DEF HandsInv
  <2>h. dispatch[c].pc # "idle" => dispatch[c].run \in Runs /\ ~attached[dispatch[c].run]
    BY <2>p, SubmittedAreRuns DEF Prepares, TypeOK
  <2>1. CASE DispatchNothing(c)
    BY <1>q, <2>1 DEF DispatchNothing, store, backend
  <2>2. CASE DispatchClaim(c)
    <3>1. PICK r \in NextQueued(c) :
             /\ status' = [status EXCEPT ![r] = "running"]
             /\ events' = [events EXCEPT ![r] = Log(@, "running")]
      BY <2>2 DEF DispatchClaim
    <3>2. r \in Runs
      BY SubmittedAreRuns DEF NextQueued, QueuedIn, TypeOK
    <3>3. events' = [events EXCEPT ![r] = Log(events[r], "running")]
      BY <1>e, <3>1, <3>2
    <3>. QED
      BY <1>o, <2>2, <3>1, <3>2, <3>3 DEF DispatchClaim, backend
  <2>3. CASE DispatchCreate(c)
    <3>1. /\ UNCHANGED <<status, events, attached, out>>
          /\ container' = [container EXCEPT ![dispatch[c].run] = "running"]
      BY <2>3 DEF DispatchCreate, store
    <3>2. status[dispatch[c].run] # "completed" /\ dispatch[c].run \in Runs
      BY <2>h, <2>3 DEF DispatchCreate, EarnedInv, Earned
    <3>3. \A q \in Runs \ {dispatch[c].run} : container'[q] = container[q]
      BY <1>c, <3>1
    <3>. QED
      BY <1>a, <1>s, <3>1, <3>2, <3>3 DEF StaysEarned
  <2>4. CASE DispatchAttach(c)
    <3>. DEFINE r == dispatch[c].run
    <3>1. /\ status[r] = "running" /\ UNCHANGED <<status, container, out>>
          /\ attached' = [attached EXCEPT ![r] = TRUE]
          /\ events' = [events EXCEPT ![r] = Log(@, "worker.attached")]
          /\ r \in Runs
      BY <2>h, <2>4 DEF DispatchAttach, backend
    <3>2. \A q \in Runs : /\ attached[q] => attached'[q]
                          /\ q # r => events'[q] = events[q]
      BY <1>e, <3>1
    <3>. QED
      BY <1>a, <1>s, <3>1, <3>2 DEF StaysEarned
  <2>5. CASE DispatchDiscard(c)
    BY <1>q, <1>stop, <2>h, <2>5 DEF DispatchDiscard
  <2>6. CASE DispatchRaises(c)
    BY <1>a, <1>f, <2>h, <2>6 DEF DispatchRaises, backend
  <2>. QED
    BY <1>2, <2>1, <2>2, <2>3, <2>4, <2>5, <2>6 DEF DispatchSteps
<1>3. ASSUME NEW r \in Runs, Calls(r) PROVE EarnedInv'
  <2>. DEFINE asked == Log(events[r], "run.cancel_requested")
  <2>1. CASE CancelQueued(r)
    <3>1. events' = [events EXCEPT ![r] = Log(asked, "cancelled")]
      BY <1>e, <2>1 DEF CancelQueued
    <3>. QED
      BY <1>o, <2>1, <3>1 DEF CancelQueued, backend
  <2>2. CASE CancelStarting(r)
    <3>1. /\ status' = [status EXCEPT ![r] = "cancelled"]
          /\ events' = [events EXCEPT ![r] = Log(asked, "cancelled")]
      BY <2>2 DEF CancelStarting, SettleRunning
    <3>. QED
      BY <1>o, <2>2, <3>1 DEF CancelStarting, backend
  <2>3. CASE CancelRequest(r)
    <3>1. /\ status' = [status EXCEPT ![r] = "running"]
          /\ events' = [events EXCEPT ![r] = asked]
      BY <1>e, <2>3 DEF CancelRequest
    <3>. QED
      BY <1>o, <2>3, <3>1 DEF CancelRequest, backend
  <2>. QED
    BY <1>3, <2>1, <2>2, <2>3 DEF Calls
<1>4. ASSUME NEW r \in Runs, CancelSteps(r) PROVE EarnedInv'
  <2>1. CASE CancelStop(r)
    BY <1>q, <1>stop, <2>1 DEF CancelStop, store
  <2>2. CASE CancelSettle(r)
    <3>1. PICK log \in Ingested(r, events[r]) : SettleRunning(r, log, "cancelled")
      BY <2>2 DEF CancelSettle
    <3>2. Adds(events[r], log)
      BY <1>l, ReadAdds
    <3>. QED
      BY <1>f, <2>2, <3>1, <3>2 DEF CancelSettle, backend
  <2>3. CASE CancelRaises(r)
    <3>1. CASE UNCHANGED events
      BY <1>q, <2>3, <3>1 DEF CancelRaises, backend
    <3>2. CASE \E log \in FailedIngest(r, events[r]) : events' = [events EXCEPT ![r] = log]
      <4>1. PICK log \in FailedIngest(r, events[r]) : events' = [events EXCEPT ![r] = log]
        BY <3>2
      <4>2. Adds(events[r], log)
        BY <1>l, ReadAdds
      <4>. QED
        BY <1>i, <2>3, <4>1, <4>2 DEF CancelRaises, backend
    <3>. QED
      BY <2>3, <3>1, <3>2 DEF CancelRaises
  <2>. QED
    BY <1>4, <2>1, <2>2, <2>3 DEF CancelSteps
<1>5. ASSUME NEW r \in Runs, MonitorSteps(r) PROVE EarnedInv'
  <2>1. CASE MonitorReturn(r) \/ MonitorAlive(r)
    BY <1>q, <2>1 DEF MonitorReturn, MonitorAlive, store, backend
  <2>2. CASE MonitorIngest(r)
    <3>1. PICK log \in Ingested(r, events[r]) : events' = [events EXCEPT ![r] = log]
      BY <2>2 DEF MonitorIngest
    <3>2. Adds(events[r], log)
      BY <1>l, ReadAdds
    <3>. QED
      BY <1>i, <2>2, <3>1, <3>2 DEF MonitorIngest, backend
  <2>3. CASE MonitorMissing(r)
    BY <1>a, <1>f, <2>3 DEF MonitorMissing, backend
  <2>4. CASE MonitorFinalize(r)
    <3>1. PICK log \in Ingested(r, events[r]) : Finalize(r, log, FALSE)
      BY <2>4 DEF MonitorFinalize
    <3>2. /\ monitor[r] # "none" /\ container[r] = "exited"
          /\ UNCHANGED <<attached, container, out>>
      BY <2>4 DEF MonitorFinalize, backend
    <3>3. attached'[r]
      BY <3>2 DEF WatchInv, MonitoredIsAttached
    <3>. QED
      BY <1>a, <1>l, <3>1, <3>2, <3>3, FinalizeEarns DEF Bounded
  <2>5. CASE MonitorRaises(r)
    <3>1. PICK log \in FailedIngest(r, events[r]) :
            IF status[r] = "running"
            THEN SettleRunning(r, Log(log, "backend.monitor_error"), "failed")
            ELSE events' = [events EXCEPT ![r] = log] /\ UNCHANGED status
      BY <2>5 DEF MonitorRaises
    <3>2. Adds(events[r], log)
      BY <1>l, ReadAdds
    <3>3. UNCHANGED <<attached, container, out>>
      BY <2>5 DEF MonitorRaises, backend
    <3>4. CASE status[r] = "running"
      BY <1>o, <3>1, <3>3, <3>4 DEF SettleRunning
    <3>5. CASE status[r] # "running"
      BY <1>i, <3>1, <3>2, <3>3, <3>5
    <3>. QED
      BY <3>4, <3>5
  <2>. QED
    BY <1>5, <2>1, <2>2, <2>3, <2>4, <2>5 DEF MonitorSteps
<1>6. ASSUME NEW r \in Runs, NEW kind \in Outputs, Emit(r, kind) PROVE EarnedInv'
  <2>1. \A q \in Runs : q # r => out'[q] = out[q]
    BY <1>6 DEF Emit, TypeOK, BackendTypeOK
  <2>. QED
    BY <1>6, <1>a, <1>s, <2>1 DEF Emit, store, StaysEarned
<1>7. ASSUME NEW r \in Runs, Exit(r) \/ Vanish(r) PROVE EarnedInv'
  <2>1. UNCHANGED <<status, events, attached, out>> /\ StopContainer(r)
    BY <1>7 DEF Exit, Vanish, StopContainer, store
  <2>. QED
    BY <1>q, <1>stop, <2>1
<1>8. ASSUME NEW r \in Runs, CrashInCancel(r) PROVE EarnedInv'
  <2>1. /\ status[r] # "completed" /\ UNCHANGED <<status, attached, container, out>>
        /\ \A q \in Runs : q # r => events'[q] = events[q]
    BY <1>8, <1>e DEF CrashInCancel, backend, LiveStatuses
  <2>. QED
    BY <1>a, <1>s, <2>1 DEF StaysEarned
<1>9. ASSUME NEW r \in Runs, CrashInIngest(r) PROVE EarnedInv'
  <2>1. PICK n \in DOMAIN Logs(r) :
          events' = [events EXCEPT ![r] = Ingest(events[r], SubSeq(Logs(r), 1, n))]
    BY <1>9, <1>e DEF CrashInIngest
  <2>2. Adds(events[r], Ingest(events[r], SubSeq(Logs(r), 1, n)))
    BY <1>l, IngestAdds
  <2>. QED
    BY <1>9, <1>i, <2>1, <2>2 DEF CrashInIngest, backend
<1>10. ASSUME Crash \/ Boot PROVE EarnedInv'
  BY <1>10, <1>q DEF Crash, Boot, store, backend
<1>11. ASSUME NEW w \in Strays, ReconcileStray(w) PROVE EarnedInv'
  <2>1. \A q \in Runs : container'[q] = container[q]
    BY <1>11, <1>c, StraysAssumption DEF ReconcileStray
  <2>. QED
    BY <1>11, <1>q, <2>1 DEF ReconcileStray
<1>12. ASSUME NEW r \in Runs, ReconcileWorker(r) PROVE EarnedInv'
  <2>1. CASE ReconcileSettled(r)
    BY <1>q, <1>stop, <2>1 DEF ReconcileSettled
  <2>2. CASE ReconcileMonitor(r)
    <3>1. PICK log \in Ingested(r, Reattached(r)) : events' = [events EXCEPT ![r] = log]
      BY <2>2 DEF ReconcileMonitor
    <3>2. Adds(events[r], log)
      BY <1>l, <1>r, ReadAdds, AddsTwice
    <3>3. \A q \in Runs : attached[q] => attached'[q]
      BY <1>e, <2>2 DEF ReconcileMonitor
    <3>. QED
      BY <1>i, <2>2, <3>1, <3>2, <3>3 DEF ReconcileMonitor, backend
  <2>3. CASE ReconcileFinalize(r)
    <3>1. PICK log \in Ingested(r, Reattached(r)) : Finalize(r, log, TRUE)
      BY <2>3 DEF ReconcileFinalize
    <3>2. /\ r \in recon.todo /\ r \notin recon.live /\ UNCHANGED <<container, out>>
          /\ attached' = [attached EXCEPT ![r] = TRUE]
      BY <2>3 DEF ReconcileFinalize, Reconciling, backend
    <3>3. container[r] = "exited"
      BY <3>2 DEF HandsInv, Visited
    <3>4. attached'[r] /\ \A q \in Runs : attached[q] => attached'[q]
      BY <1>e, <3>2
    <3>. QED
      BY <1>l, <1>r, <3>1, <3>2, <3>3, <3>4, FinalizeEarns DEF Bounded
  <2>. QED
    BY <1>12, <2>1, <2>2, <2>3 DEF ReconcileWorker
<1>13. ASSUME NEW r \in Runs, ReconcileRaises(r) PROVE EarnedInv'
  <2>1. CASE UNCHANGED <<attached, events>>
    BY <1>13, <1>q, <2>1 DEF ReconcileRaises, backend
  <2>2. CASE /\ \E log \in FailedIngest(r, Reattached(r)) : events' = [events EXCEPT ![r] = log]
             /\ attached' = [attached EXCEPT ![r] = TRUE]
    <3>1. PICK log \in FailedIngest(r, Reattached(r)) : events' = [events EXCEPT ![r] = log]
      BY <2>2
    <3>2. Adds(events[r], log)
      BY <1>l, <1>r, ReadAdds, AddsTwice
    <3>3. \A q \in Runs : attached[q] => attached'[q]
      BY <1>e, <2>2
    <3>. QED
      BY <1>13, <1>i, <3>1, <3>2, <3>3 DEF ReconcileRaises, backend
  <2>. QED
    BY <1>13, <2>1, <2>2 DEF ReconcileRaises
<1>14. ASSUME ReconcileSweep PROVE EarnedInv'
  <2>1. \A q \in Runs : status'[q] = "completed" =>
           status[q] = "completed" /\ events'[q] = events[q]
    BY <1>14 DEF ReconcileSweep
  <2>. QED
    BY <1>14, <1>a, <1>s, <2>1 DEF ReconcileSweep, backend, StaysEarned
<1>15. CASE UNCHANGED vars
  BY <1>15, <1>q DEF vars
<1>16. ASSUME NEW w \in Strays, ReconcileStrayRaises(w) PROVE EarnedInv'
  BY <1>16, <1>q DEF ReconcileStrayRaises, store, backend
<1>. QED
  BY <1>1, <1>2, <1>3, <1>4, <1>5, <1>6, <1>7, <1>8, <1>9, <1>10, <1>11, <1>12, <1>13, <1>14,
     <1>15, <1>16
     DEF Next, ReconcileSteps

(* A run is completed only when its worker said so, all it wrote has been  *)
(* persisted, and nobody had asked to cancel it: as long as no worker      *)
(* disappears behind the gateway, and no log outgrows what list_events     *)
(* shows _finalize of it.                                                  *)
THEOREM CompletedRunsAreEarned ==
    ASSUME "vanish" \notin Faults
    PROVE  Spec /\ []Bounded => []CompletedIsEarned
<1>1. Init => TypeOK /\ WatchInv /\ LogInv /\ HandsInv /\ EarnedInv
  BY TypeInit, WatchInit, LogInit, HandsInit
<1>2. TypeOK /\ WatchInv /\ LogInv /\ HandsInv /\ EarnedInv /\ Bounded' /\ [Next]_vars
      => TypeOK' /\ WatchInv' /\ LogInv' /\ HandsInv' /\ EarnedInv'
  BY TypeNext, WatchNext, LogNext, HandsNext, EarnedNext
<1>3. EarnedInv => CompletedIsEarned
  BY DEF EarnedInv, Earned, CompletedIsEarned
<1>. QED
  BY <1>1, <1>2, <1>3, PTL DEF Spec

=============================================================================
