--------------------------- MODULE ConversationProof ---------------------------
(***************************************************************************)
(* Proofs about Goals, Memory and Context, the three specifications around *)
(* a conversation, for every value of their constants.  They share only    *)
(* the module Gateway, and each part below is about one of them.           *)
(*                                                                         *)
(* Goals.  The budget is not inductive by itself, for the test against it  *)
(* comes after the count.  What a step relies on is that a goal that can   *)
(* still take a turn has one left: Budget below.                           *)
(*                                                                         *)
(* Memory.  Both invariants about rows need that rows are made in order    *)
(* (a row the user deletes or the curator makes is not one that was cut    *)
(* off); that a save sees all present lines needs that an editor with the  *)
(* number of the last version has its text.                                *)
(*                                                                         *)
(* Context.  Three properties in one induction: a prompt is complete if    *)
(* the last summary covers all up to its end (Covers), the summary if the  *)
(* messages before are all folded or left, and whoever is resumed knows    *)
(* all if the run that began the conversation was given a complete prompt  *)
(* and every run since was told to resume it (Resumption), for which one   *)
(* run at a time must be under way (Phased).                               *)
(***************************************************************************)
EXTENDS Goals, Memory, Context, FiniteSetTheorems, WellFoundedInduction,
        SequenceTheorems, TLAPS

-----------------------------------------------------------------------------
(***************************************************************************)
(* Goals.                                                                  *)
(***************************************************************************)
Budget ==
  \A g \in Goals : /\ goal[g].used <= Turns + crashes
                   /\ Current(g) => goal[g].used < Turns + crashes

Unsubmitted == \A r \in Runs : run[r] = "none" => sort[r] = 0

GoalsInv == GoalsTypeOK /\ Budget /\ Unsubmitted

\* GoalsTypeOK without the goals.
RunsTyped ==
  /\ run \in [Runs -> RunStates \cup {"none"}]
  /\ sort \in [Runs -> 0..MaxGoals]
  /\ after \subseteq Runs
  /\ turns \subseteq [goal : Goals, run : Runs, turn : Nat, verdict : Verdicts]
  /\ messages \in 0..MaxMessages /\ resumes \in 0..MaxResumes
  /\ crashes \in 0..MaxCrashes
  /\ lost \in BOOLEAN

LEMMA GoalsParts == GoalsTypeOK <=> goal \in [Goals -> GoalRows] /\ RunsTyped
BY DEF GoalsTypeOK, RunsTyped

-----------------------------------------------------------------------------
(* The invariant.                                                          *)

LEMMA GoalsStarts == GoalsInit => GoalsInv
<1>. SUFFICES ASSUME GoalsInit PROVE GoalsInv
  OBVIOUS
<1>1. /\ {MaxMessages, MaxResumes, MaxCrashes, MaxGoals} \subseteq Nat
      /\ Turns \in Nat \ {0}
  BY GoalsAssumption, GatewayAssumption
<1>2. NoGoal \in GoalRows /\ NoGoal.status = "none" /\ NoGoal.used = 0
  BY DEF NoGoal, GoalRows
<1>3. GoalsTypeOK
  <2>1. goal \in [Goals -> GoalRows]
    BY <1>2 DEF GoalsInit
  <2>2. RunsTyped
    <3>1. lost \in BOOLEAN
      BY DEF GoalsInit
    <3>2. /\ run \in [Runs -> RunStates \cup {"none"}]
          /\ sort \in [Runs -> 0..MaxGoals]
      BY <1>1 DEF GoalsInit
    <3>3. /\ after \subseteq Runs
          /\ turns \subseteq [goal : Goals, run : Runs, turn : Nat,
                              verdict : Verdicts]
      BY DEF GoalsInit
    <3>4. /\ messages \in 0..MaxMessages /\ resumes \in 0..MaxResumes
          /\ crashes \in 0..MaxCrashes
      BY <1>1 DEF GoalsInit
    <3>. QED
      BY <3>1, <3>2, <3>3, <3>4 DEF RunsTyped
  <2>. QED
    BY <2>1, <2>2, GoalsParts
<1>4. Budget
  BY <1>1, <1>2 DEF GoalsInit, Budget, Current
<1>5. Unsubmitted
  BY DEF GoalsInit, Unsubmitted
<1>. QED
  BY <1>3, <1>4, <1>5 DEF GoalsInv

LEMMA SubmitRows ==
    ASSUME GoalsInv, NEW g \in 0..MaxGoals, SubmitRun(g)
    PROVE  /\ run' \in [Runs -> RunStates \cup {"none"}]
           /\ sort' \in [Runs -> 0..MaxGoals]
           /\ lost' \in BOOLEAN
           /\ Unsubmitted'
           /\ \A r \in Runs : run[r] = "none" => sort'[r] \in {0, g}
<1>1. PICK r \in Runs : /\ run' = [run EXCEPT ![r] = "queued"]
                        /\ sort' = [sort EXCEPT ![r] = g]
                        /\ lost' = FALSE
  BY DEF SubmitRun
<1>. QED
  BY <1>1 DEF GoalsInv, GoalsTypeOK, Unsubmitted, RunStates, Ended

(* A goal that is paused, taken up again or ended keeps to its budget. *)
LEMMA SetStatusBudget ==
    ASSUME GoalsInv, NEW g \in Goals, NEW st \in GoalStates, SetStatus(g, st),
           st \in {"active", "paused"} => Current(g)
    PROVE  /\ goal' \in [Goals -> GoalRows] /\ Budget'
           /\ UNCHANGED <<after, turns, messages, crashes>>
BY DEF SetStatus, GoalsInv, GoalsTypeOK, GoalRows, Budget, Current

LEMMA GoalsAreNumbers == Goals \subseteq 0..MaxGoals /\ 0 \notin Goals
BY GoalsAssumption, GatewayAssumption DEF Goals

LEMMA RequestInv ==
    ASSUME GoalsInv, Request
    PROVE  GoalsInv'
<1>1. CASE Message
  <2>1. SubmitRun(0) /\ UNCHANGED <<goal, after, turns, resumes, crashes>>
        /\ messages < MaxMessages /\ messages' = messages + 1
    BY <1>1 DEF Message
  <2>2. 0 \in 0..MaxGoals
    BY GoalsAssumption, GatewayAssumption
  <2>3. GoalsTypeOK' /\ Unsubmitted'
    BY <2>1, <2>2, SubmitRows, GoalsAssumption, GatewayAssumption
       DEF GoalsInv, GoalsTypeOK
  <2>. QED
    BY <2>1, <2>3 DEF GoalsInv, Budget, Current
<1>2. CASE \E g \in Goals : CreateGoal(g)
  <2>1. PICK g \in Goals, criteria \in BOOLEAN :
          /\ goal' = [goal EXCEPT ![g] =
                        [status |-> "active", criteria |-> criteria, used |-> 0]]
          /\ UNCHANGED <<run, sort, after, turns, messages, resumes, crashes, lost>>
    BY <1>2 DEF CreateGoal
  <2>2. goal' \in [Goals -> GoalRows] /\ Budget'
    BY <2>1, GoalsAssumption, GatewayAssumption
       DEF GoalsInv, GoalsTypeOK, GoalRows, GoalStates, Budget, Current
  <2>. QED
    BY <2>1, <2>2 DEF GoalsInv, GoalsTypeOK, Unsubmitted
<1>3. ASSUME NEW g \in Goals, PauseGoal(g) \/ CancelGoal(g) \/ CompleteGoal(g)
      PROVE  GoalsInv'
  <2>1. PICK st \in GoalStates :
          /\ SetStatus(g, st) /\ UNCHANGED <<run, sort, resumes, lost>>
          /\ st \in {"active", "paused"} => Current(g)
    BY <1>3 DEF PauseGoal, CancelGoal, CompleteGoal, GoalStates, Current
  <2>2. /\ goal' \in [Goals -> GoalRows] /\ Budget'
        /\ UNCHANGED <<after, turns, messages, crashes>>
    BY <2>1, SetStatusBudget
  <2>. QED
    BY <2>1, <2>2 DEF GoalsInv, GoalsTypeOK, Unsubmitted
<1>4. ASSUME NEW g \in Goals, ResumeGoal(g) PROVE GoalsInv'
  <2>1. /\ Current(g) /\ resumes < MaxResumes /\ resumes' = resumes + 1
        /\ SetStatus(g, "active") /\ SubmitRun(g)
    BY <1>4 DEF ResumeGoal, Current
  <2>2. /\ goal' \in [Goals -> GoalRows] /\ Budget'
        /\ UNCHANGED <<after, turns, messages, crashes>>
    BY <2>1, SetStatusBudget DEF GoalStates
  <2>3. GoalsTypeOK' /\ Unsubmitted'
    BY <2>1, <2>2, SubmitRows, GoalsAreNumbers, GoalsAssumption,
       GatewayAssumption DEF GoalsInv, GoalsTypeOK
  <2>. QED
    BY <2>2, <2>3 DEF GoalsInv
<1>. QED
  BY <1>1, <1>2, <1>3, <1>4 DEF Request

(* Steps that only change how a run stands. *)
LEMMA BecomesInv ==
    ASSUME GoalsInv, NEW r \in Runs, NEW st \in RunStates, Becomes(r, st),
           run[r] # "none", after' \subseteq Runs, lost' \in BOOLEAN
    PROVE  GoalsInv' /\ UNCHANGED <<goal, sort>>
<1>1. "none" \notin RunStates
  BY DEF RunStates, Ended
<1>. QED
  BY <1>1 DEF GoalsInv, GoalsTypeOK, Budget, Current, Unsubmitted, Becomes

LEMMA RunStepInv ==
    ASSUME GoalsInv, NEW r \in Runs, RunStep(r)
    PROVE  GoalsInv' /\ UNCHANGED <<goal, sort>>
<1>1. PICK st \in RunStates : Becomes(r, st) /\ run[r] # "none"
  BY DEF RunStep, StartRun, RunEnds, RunStops, RunIsOvertaken, Unfollowed,
            RunStates, Ended
<1>2. after' \subseteq Runs /\ lost' \in BOOLEAN
  BY DEF RunStep, StartRun, RunEnds, RunStops, RunIsOvertaken, Unfollowed, GoalsInv, GoalsTypeOK
<1>. QED
  BY <1>1, <1>2, BecomesInv

(* The verdict on a turn that was counted. *)
LEMMA VerdictSound ==
    ASSUME NEW criteria \in BOOLEAN, NEW used \in Nat, NEW seen,
           NEW passed \in BOOLEAN, NEW st \in GoalStates
    PROVE  LET verdict == Verdict(criteria, used, seen, passed)
           IN /\ verdict \in Verdicts
              /\ Settled(st, verdict) \in GoalStates
              /\ Settled(st, verdict) \in {"active", "paused"} => used < Turns
BY GoalsAssumption, GatewayAssumption DEF Verdict, Verdicts, Exhausted, Settled,
   GoalStates

(* However many of the writes of a turn were made, the rows keep to the budget. *)
LEMMA TurnInv ==
    ASSUME GoalsInv, NEW r \in Runs, NEW g \in Goals, Current(g),
           NEW passed \in BOOLEAN, NEW written \in 0..3,
           Turn(r, g, Verdict(goal[g].criteria, goal[g].used + 1, Seen(r), passed),
                written),
           UNCHANGED <<messages, resumes>>
    PROVE  GoalsInv' /\ \A q \in Runs : run[q] = "none" => sort'[q] \in {0, g}
<1>. DEFINE verdict == Verdict(goal[g].criteria, goal[g].used + 1, Seen(r), passed)
            used == IF written >= 1 THEN goal[g].used + 1 ELSE goal[g].used
            st == IF written = 3 THEN Settled(goal[g].status, verdict)
                  ELSE goal[g].status
<1>1. /\ goal \in [Goals -> GoalRows] /\ RunsTyped
      /\ goal[g].used \in Nat /\ goal[g].criteria \in BOOLEAN
      /\ goal[g].status \in GoalStates /\ goal[g].used < Turns + crashes
      /\ crashes \in Nat /\ MaxCrashes \in Nat
  BY GoalsParts, GoalsAssumption, GatewayAssumption
     DEF GoalsInv, Budget, Current, GoalRows, RunsTyped, GoalStates
<1>2. /\ verdict \in Verdicts
      /\ Settled(goal[g].status, verdict) \in GoalStates
      /\ Settled(goal[g].status, verdict) \in {"active", "paused"}
           => goal[g].used + 1 < Turns
  BY <1>1, VerdictSound
<1>. HIDE DEF verdict
<1>3. goal' = [goal EXCEPT ![g].used = used, ![g].status = st]
  BY DEF Turn, verdict
<1>4. used \in Nat /\ st \in GoalStates
  BY <1>1, <1>2
<1>. HIDE DEF used, st
<1>5. /\ goal' \in [Goals -> GoalRows]
      /\ goal'[g].used = used /\ goal'[g].status = st
      /\ \A h \in Goals \ {g} : goal'[h] = goal[h]
  BY <1>1, <1>3, <1>4 DEF GoalRows
<1>6. turns' \subseteq [goal : Goals, run : Runs, turn : Nat, verdict : Verdicts]
  BY <1>1, <1>2 DEF Turn, Judgement, TurnOf, RunsTyped, verdict
<1>7. CASE written = 3
  <2>1. crashes' = crashes /\ after' = after \ {r}
    BY <1>7 DEF Turn
  <2>2. used = goal[g].used + 1 /\ st = Settled(goal[g].status, verdict)
    BY <1>7 DEF used, st
  <2>3. Budget'
    BY <1>1, <1>2, <1>5, <2>1, <2>2, GoalsAssumption, GatewayAssumption
       DEF Budget, Current, GoalsInv, GoalRows
  <2>4. /\ run' \in [Runs -> RunStates \cup {"none"}]
        /\ sort' \in [Runs -> 0..MaxGoals]
        /\ lost' \in BOOLEAN
        /\ Unsubmitted'
        /\ \A q \in Runs : run[q] = "none" => sort'[q] \in {0, g}
    <3>1. CASE verdict = "continue"
      <4>1. SubmitRun(g)
        BY <1>7, <3>1 DEF Turn, verdict
      <4>. QED
        BY <4>1, SubmitRows, GoalsAreNumbers
    <3>2. CASE verdict # "continue"
      <4>1. UNCHANGED <<run, sort, lost>>
        BY <1>7, <3>2 DEF Turn, verdict
      <4>. QED
        BY <1>1, <4>1 DEF GoalsInv, RunsTyped, Unsubmitted
    <3>. QED
      BY <3>1, <3>2
  <2>. QED
    BY <1>1, <1>5, <1>6, <2>1, <2>3, <2>4, GoalsParts
       DEF GoalsInv, RunsTyped, GoalsTypeOK
<1>8. CASE written # 3
  <2>1. /\ crashes < MaxCrashes /\ crashes' = crashes + 1
        /\ after' = {} /\ lost' = TRUE /\ UNCHANGED <<run, sort>>
    BY <1>8 DEF Turn
  <2>2. used <= goal[g].used + 1 /\ st = goal[g].status
    BY <1>1, <1>8 DEF used, st
  <2>3. Budget'
    BY <1>1, <1>4, <1>5, <2>1, <2>2, GoalsAssumption, GatewayAssumption
       DEF Budget, Current, GoalsInv, GoalRows
  <2>. QED
    BY <1>1, <1>5, <1>6, <2>1, <2>3 DEF GoalsInv, RunsTyped, GoalsTypeOK, Unsubmitted
<1>. QED
  BY <1>7, <1>8

LEMMA EvaluateInv ==
    ASSUME GoalsInv, NEW r \in Runs, Evaluate(r)
    PROVE  GoalsInv'
<1>1. CASE GoalFor(r) = {} /\ after' = after \ {r}
           /\ UNCHANGED <<goal, run, sort, turns, crashes, lost, messages, resumes>>
  BY <1>1 DEF GoalsInv, GoalsTypeOK, Budget, Current, Unsubmitted
<1>2. ASSUME NEW g \in GoalFor(r), NEW passed \in Checks, NEW written \in 0..3,
             Turn(r, g, Verdict(goal[g].criteria, goal[g].used + 1, Seen(r), passed),
                  written),
             UNCHANGED <<messages, resumes>>
      PROVE  GoalsInv'
  <2>1. g \in Goals /\ Current(g) /\ passed \in BOOLEAN
    BY DEF GoalFor, CurrentGoals, Checks
  <2>. QED
    BY <1>2, <2>1, TurnInv
<1>. QED
  BY <1>1, <1>2 DEF Evaluate

LEMMA GatewayDiesInv ==
    ASSUME GoalsInv, GatewayDies
    PROVE  GoalsInv'
<1>1. /\ crashes < MaxCrashes /\ crashes' = crashes + 1 /\ after' = {}
      /\ lost' \in BOOLEAN
      /\ UNCHANGED <<goal, run, sort, turns, messages, resumes>>
  BY DEF GatewayDies, GoalsInv, GoalsTypeOK
<1>2. Budget'
  BY <1>1, GoalsAssumption, GatewayAssumption DEF GoalsInv, GoalsTypeOK, GoalRows,
     Budget, Current
<1>. QED
  BY <1>1, <1>2, GoalsAssumption, GatewayAssumption
     DEF GoalsInv, GoalsTypeOK, Unsubmitted

LEMMA GoalsPreserved == GoalsInv /\ [GoalsNext]_goalsVars => GoalsInv'
<1>. SUFFICES ASSUME GoalsInv, [GoalsNext]_goalsVars PROVE GoalsInv'
  OBVIOUS
<1>1. CASE Request
  BY <1>1, RequestInv
<1>2. CASE GatewayDies
  BY <1>2, GatewayDiesInv
<1>3. ASSUME NEW r \in Runs, RunStep(r) PROVE GoalsInv'
  BY <1>3, RunStepInv
<1>4. ASSUME NEW r \in Runs, Evaluate(r) PROVE GoalsInv'
  BY <1>4, EvaluateInv
<1>5. CASE UNCHANGED goalsVars
  BY <1>5 DEF goalsVars, GoalsInv, GoalsTypeOK, Budget, Current, Unsubmitted
<1>. QED
  BY <1>1, <1>2, <1>3, <1>4, <1>5 DEF GoalsNext

-----------------------------------------------------------------------------
(* The theorems.                                                           *)

(* Every row of goals, runs and evaluations has its form, in every behaviour. *)
THEOREM GoalsTyped == GoalsSpec => []GoalsTypeOK
<1>. QED
  BY GoalsStarts, GoalsPreserved, PTL DEF GoalsSpec, GoalsInv

(* However the user's messages, resumptions and the goal's own continuations *)
(* interleave, and wherever the gateway dies, a goal takes at most Turns     *)
(* turns and one more for each death (Store.increment_goal_turn before       *)
(* GoalEvaluator.evaluate).                                                  *)
THEOREM BudgetKept == GoalsSpec => []TurnsWithinBudget
<1>1. GoalsInv => TurnsWithinBudget
  BY DEF GoalsInv, Budget, TurnsWithinBudget
<1>. QED
  BY <1>1, GoalsStarts, GoalsPreserved, PTL DEF GoalsSpec

(* No step counts a turn for a goal that has ended, takes it up again or    *)
(* submits a run for it: _evaluate_goal looks the goal up among the current *)
(* ones, whatever goal the run was made for.                                *)
THEOREM EndedGoalsStayEnded == GoalsSpec => EndedGoalsRest
<1>. DEFINE Over(g) == goal[g].status \in {"completed", "cancelled", "failed"}
            Rests(g) == /\ goal'[g].used = goal[g].used
                        /\ goal'[g].status \in {goal[g].status, "cancelled"}
                        /\ \A r \in Runs : run[r] = "none" => sort'[r] # g
<1>1. GoalsInv /\ [GoalsNext]_goalsVars => \A g \in Goals : Over(g) => Rests(g)
  <2>. SUFFICES ASSUME GoalsInv, [GoalsNext]_goalsVars, NEW g \in Goals, Over(g) PROVE Rests(g)
    OBVIOUS
  <2>0. /\ goal \in [Goals -> GoalRows] /\ ~Current(g) /\ g # 0
        /\ \A r \in Runs : run[r] = "none" => sort[r] # g
    BY GoalsAreNumbers DEF GoalsInv, GoalsTypeOK, Unsubmitted, Current
  <2>1. CASE UNCHANGED goal /\ UNCHANGED sort
    BY <2>0, <2>1
  <2>2. CASE Message
    BY <2>0, <2>2, SubmitRows, GoalsAssumption, GatewayAssumption DEF Message
  <2>3. ASSUME NEW h \in Goals, CreateGoal(h) PROVE Rests(g)
    <3>1. g # h
      BY <2>3, GoalsAssumption, GatewayAssumption DEF CreateGoal, Goals, NoGoal
    <3>. QED
      BY <2>0, <2>3, <3>1 DEF CreateGoal
  <2>4. ASSUME NEW h \in Goals, PauseGoal(h) \/ CancelGoal(h) \/ CompleteGoal(h)
        PROVE  Rests(g)
    <3>1. PICK st \in GoalStates :
            /\ goal' = [goal EXCEPT ![h].status = st]
            /\ h = g => st = "cancelled"
      BY <2>0, <2>4
         DEF PauseGoal, CancelGoal, CompleteGoal, SetStatus, GoalStates, Current
    <3>2. UNCHANGED sort
      BY <2>4 DEF PauseGoal, CancelGoal, CompleteGoal
    <3>. QED
      BY <2>0, <3>1, <3>2 DEF GoalRows
  <2>5. ASSUME NEW h \in Goals, ResumeGoal(h) PROVE Rests(g)
    <3>1. g # h /\ SubmitRun(h) /\ goal' = [goal EXCEPT ![h].status = "active"]
      BY <2>5 DEF ResumeGoal, SetStatus
    <3>2. \A r \in Runs : run[r] = "none" => sort'[r] \in {0, h}
      BY <3>1, SubmitRows, GoalsAreNumbers
    <3>. QED
      BY <2>0, <3>1, <3>2
  <2>6. ASSUME NEW r \in Runs, RunStep(r)
        PROVE  Rests(g)
    BY <2>1, <2>6, RunStepInv
  <2>7. ASSUME NEW r \in Runs, Evaluate(r) PROVE Rests(g)
    <3>1. CASE UNCHANGED <<goal, sort>>
      BY <2>1, <3>1
    <3>2. ASSUME NEW h \in GoalFor(r), NEW passed \in Checks, NEW written \in 0..3,
                 Turn(r, h, Verdict(goal[h].criteria, goal[h].used + 1, Seen(r),
                                    passed), written),
                 UNCHANGED <<messages, resumes>>
          PROVE  Rests(g)
      <4>1. h \in Goals /\ Current(h) /\ passed \in BOOLEAN /\ g # h
        BY <2>0 DEF GoalFor, CurrentGoals, Checks
      <4>2. \A q \in Runs : run[q] = "none" => sort'[q] \in {0, h}
        BY <3>2, <4>1, TurnInv
      <4>3. goal'[g] = goal[g]
        BY <2>0, <3>2, <4>1 DEF Turn
      <4>. QED
        BY <2>0, <4>1, <4>2, <4>3
    <3>. QED
      BY <2>7, <3>1, <3>2 DEF Evaluate
  <2>. QED
    BY <2>1, <2>2, <2>3, <2>4, <2>5, <2>6, <2>7
       DEF GoalsNext, Request, GatewayDies, goalsVars
<1>2. [][\A g \in Goals : Over(g) => Rests(g)]_goalsVars => EndedGoalsRest
  BY PTL DEF EndedGoalsRest
<1>. QED
  BY <1>1, GoalsStarts, GoalsPreserved, PTL DEF GoalsSpec, EndedGoalsRest

-----------------------------------------------------------------------------
(* Evaluations.                                                            *)
\* A run is followed up once: while that is to come it has ended and is no turn.
Followed ==
  \A r \in after : run[r] \in Ended /\ \A t \in turns : t.run # r

Judged == EveryTurnJudged /\ Followed /\ IsFiniteSet(turns)

LEMMA TurnRows ==
    ASSUME GoalsInv
    PROVE  /\ \A t \in turns : t.goal \in Goals /\ t.run \in Runs /\ t.turn \in Nat
           /\ \A g \in Goals : goal[g].used \in Nat
           /\ crashes \in Nat
BY GatewayAssumption DEF GoalsInv, GoalsTypeOK, GoalRows

LEMMA JudgedStarts == GoalsInit => Judged
<1>. SUFFICES ASSUME GoalsInit PROVE Judged
  OBVIOUS
<1>1. turns = {} /\ after = {} /\ crashes = 0 /\ \A g \in Goals : goal[g].used = 0
  BY DEF GoalsInit, NoGoal
<1>2. \A g \in Goals : {t \in turns : t.goal = g} = {}
  BY <1>1
<1>3. Cardinality({}) = 0 /\ IsFiniteSet({})
  BY FS_EmptySet
<1>4. \A g \in Goals : goal[g].used - Cardinality({t \in turns : t.goal = g}) \in 0..crashes
  BY <1>1, <1>2, <1>3
<1>. QED
  BY <1>1, <1>3, <1>4 DEF Judged, EveryTurnJudged, Followed

\* No turn is taken, though a run may be submitted, start or end.
LEMMA NoTurn ==
    ASSUME GoalsInv, Judged, UNCHANGED turns, crashes' \in Nat, crashes' >= crashes,
           \A g \in Goals : goal'[g].used = goal[g].used,
           \A r \in Runs : run[r] \in Ended => run'[r] = run[r],
           \A r \in after' : /\ run'[r] \in Ended
                             /\ r \in after \/ (r \in Runs /\ run[r] = "running")
    PROVE  Judged'
<1>1. \A g \in Goals : goal'[g].used - Cardinality({t \in turns' : t.goal = g}) \in 0..crashes'
  <2>. TAKE g \in Goals
  <2>1. goal[g].used - Cardinality({t \in turns : t.goal = g}) \in 0..crashes
    BY DEF Judged, EveryTurnJudged
  <2>. QED
    BY <2>1, TurnRows
<1>2. \A t \in turns : /\ t.turn \in 1..goal'[t.goal].used
                       /\ run'[t.run] \in Ended
  BY TurnRows DEF Judged, EveryTurnJudged
<1>3. \A r \in after', t \in turns : t.run # r
  BY DEF Judged, EveryTurnJudged, Followed, Ended
<1>. QED
  BY <1>1, <1>2, <1>3 DEF Judged, EveryTurnJudged, Followed

LEMMA SubmitKeepsRuns ==
    ASSUME GoalsInv, NEW g, SubmitRun(g)
    PROVE  \A r \in Runs : run[r] # "none" => run'[r] = run[r]
<1>1. \A r \in Runs : r \in Nat
  BY GatewayAssumption DEF Runs
<1>2. PICK r \in Runs : /\ \A q \in Runs : run[q] = "none" <=> q >= r
                        /\ run' = [run EXCEPT ![r] = "queued"]
  BY DEF SubmitRun
<1>3. r >= r
  BY <1>1
<1>. QED
  BY <1>2, <1>3 DEF GoalsInv, GoalsTypeOK

LEMMA TurnJudged ==
    ASSUME GoalsInv, Judged, NEW r \in after, NEW g \in Goals, NEW verdict,
           NEW written \in 0..3, Turn(r, g, verdict, written)
    PROVE  Judged'
<1>. DEFINE t == Judgement(r, g, verdict)
<1>1. /\ goal \in [Goals -> GoalRows] /\ after \subseteq Runs /\ run \in [Runs -> RunStates \cup {"none"}]
      /\ goal[g].used \in Nat /\ crashes \in Nat
  BY TurnRows DEF GoalsInv, GoalsTypeOK
<1>2. \A h \in Goals : goal'[h].used = IF h = g /\ written >= 1 THEN goal[h].used + 1
                                       ELSE goal[h].used
  <2>1. goal[g] \in GoalRows
    BY <1>1
  <2>2. goal' = [goal EXCEPT ![g].used = IF written >= 1 THEN goal[g].used + 1 ELSE goal[g].used,
                             ![g].status = IF written = 3 THEN Settled(goal[g].status, verdict)
                                           ELSE goal[g].status]
    BY DEF Turn
  <2>. QED
    BY <1>1, <2>1, <2>2 DEF GoalRows
<1>3. /\ after' \subseteq after \ {r} /\ crashes' \in Nat /\ crashes' >= crashes
      /\ written < 3 => crashes' = crashes + 1
      /\ \A q \in Runs : run[q] # "none" => run'[q] = run[q]
  BY <1>1, SubmitKeepsRuns DEF Turn
<1>4. CASE written < 2
  <2>1. turns' = turns /\ crashes' = crashes + 1
    BY <1>3, <1>4 DEF Turn
  <2>2. \A h \in Goals : goal'[h].used - Cardinality({u \in turns' : u.goal = h}) \in 0..crashes'
    <3>. TAKE h \in Goals
    <3>1. goal[h].used - Cardinality({u \in turns : u.goal = h}) \in 0..crashes
      BY DEF Judged, EveryTurnJudged
    <3>2. goal[h].used \in Nat /\ Cardinality({u \in turns : u.goal = h}) \in Nat
      <4>1. IsFiniteSet({u \in turns : u.goal = h})
        BY FS_Subset DEF Judged
      <4>. QED
        BY <4>1, FS_CardinalityType, TurnRows
    <3>. QED
      BY <1>1, <1>2, <2>1, <3>1, <3>2
  <2>3. \A u \in turns : /\ u.turn \in 1..goal'[u.goal].used
                         /\ run'[u.run] \in Ended
    BY <1>2, <1>3, TurnRows DEF Judged, EveryTurnJudged, Ended
  <2>4. \A q \in after' : run'[q] \in Ended /\ \A u \in turns : u.run # q
    BY <1>1, <1>3 DEF Judged, Followed, Ended
  <2>. QED
    BY <2>1, <2>2, <2>3, <2>4 DEF Judged, EveryTurnJudged, Followed
<1>5. CASE written >= 2
  <2>1. /\ turns' = turns \cup {t} /\ goal'[g].used = goal[g].used + 1
        /\ t.goal = g /\ t.run = r /\ t.turn = goal[g].used + 1
    <3>1. t.goal = g /\ t.run = r /\ t.turn = goal[g].used + 1
      BY DEF Judgement, TurnOf
    <3>2. turns' = turns \cup {t}
      BY <1>5 DEF Turn
    <3>3. written >= 1
      BY <1>5
    <3>. QED
      BY <1>2, <3>1, <3>2, <3>3
  <2>. HIDE DEF t
  <2>2. /\ \A u \in turns : u.run # r /\ (u.goal = g => u.turn < t.turn)
        /\ t \notin turns
    BY <1>1, <2>1, TurnRows DEF Judged, EveryTurnJudged, Followed
  <2>3. \A h \in Goals : goal'[h].used - Cardinality({u \in turns' : u.goal = h}) \in 0..crashes'
    <3>. TAKE h \in Goals
    <3>. DEFINE U == {u \in turns : u.goal = h}
    <3>1. goal[h].used - Cardinality(U) \in 0..crashes
      BY DEF Judged, EveryTurnJudged
    <3>2. IsFiniteSet(U) /\ Cardinality(U) \in Nat /\ goal[h].used \in Nat
      BY FS_Subset, FS_CardinalityType, TurnRows DEF Judged
    <3>5. goal[h].used - Cardinality(U) \in 0..crashes'
      BY <1>1, <1>3, <3>1, <3>2
    <3>3. CASE h = g
      <4>1. {u \in turns' : u.goal = h} = U \cup {t} /\ t \notin U
        BY <2>1, <2>2, <3>3
      <4>2. Cardinality(U \cup {t}) = Cardinality(U) + 1
        BY <3>2, <4>1, FS_AddElement
      <4>3. goal'[h].used = goal[h].used + 1
        BY <2>1, <3>3
      <4>4. goal'[h].used - Cardinality(U \cup {t}) = goal[h].used - Cardinality(U)
        BY <3>2, <4>2, <4>3
      <4>. QED
        BY <3>5, <4>1, <4>4
    <3>4. CASE h # g
      <4>1. {u \in turns' : u.goal = h} = U
        BY <2>1, <3>4
      <4>2. goal'[h].used = goal[h].used
        BY <1>2, <3>4
      <4>. QED
        BY <3>5, <4>1, <4>2
    <3>. QED
      BY <3>3, <3>4
  <2>4. \A u, v \in turns' : u.run = v.run \/ <<u.goal, u.turn>> = <<v.goal, v.turn>> => u = v
    <3>1. \A u, v \in turns : u.run = v.run \/ <<u.goal, u.turn>> = <<v.goal, v.turn>> => u = v
      BY DEF Judged, EveryTurnJudged
    <3>2. \A u \in turns : u.run # t.run /\ (u.goal = t.goal => u.turn # t.turn)
      BY <1>1, <2>1, <2>2, TurnRows
    <3>. QED
      BY <2>1, <3>1, <3>2
  <2>5. \A u \in turns' : /\ u.turn \in 1..goal'[u.goal].used
                          /\ run'[u.run] \in Ended
    <3>1. \A u \in turns : u.turn \in 1..goal[u.goal].used /\ run[u.run] \in Ended
      BY DEF Judged, EveryTurnJudged
    <3>2. run[r] \in Ended
      BY DEF Judged, Followed
    <3>3. \A u \in turns : /\ u.turn \in 1..goal'[u.goal].used
                           /\ run'[u.run] \in Ended
      BY <1>2, <1>3, <3>1, TurnRows DEF Ended
    <3>. QED
      BY <1>1, <1>3, <2>1, <3>2, <3>3 DEF Ended
  <2>6. \A q \in after' : run'[q] \in Ended /\ \A u \in turns' : u.run # q
    BY <1>1, <1>3, <2>1 DEF Judged, Followed, Ended
  <2>7. IsFiniteSet(turns')
    BY <2>1, FS_AddElement DEF Judged
  <2>. QED
    BY <2>3, <2>4, <2>5, <2>6, <2>7 DEF Judged, EveryTurnJudged, Followed
<1>. QED
  BY <1>4, <1>5

LEMMA JudgedPreserved == GoalsInv /\ Judged /\ [GoalsNext]_goalsVars => Judged'
<1>. SUFFICES ASSUME GoalsInv, Judged, [GoalsNext]_goalsVars PROVE Judged'
  OBVIOUS
<1>0. /\ goal \in [Goals -> GoalRows] /\ run \in [Runs -> RunStates \cup {"none"}]
      /\ after \subseteq Runs /\ crashes \in Nat /\ crashes >= crashes
      /\ \A r \in after : run[r] \in Ended
  BY TurnRows DEF GoalsInv, GoalsTypeOK, Judged, Followed
<1>1. CASE Message
  BY <1>0, <1>1, NoTurn, SubmitKeepsRuns DEF Message, Ended
<1>2. ASSUME NEW g \in Goals, CreateGoal(g) PROVE Judged'
  <2>1. goal[g].used = 0
    BY <1>2, GoalsAssumption DEF CreateGoal, Goals, NoGoal
  <2>2. \A h \in Goals : goal'[h].used = goal[h].used
    BY <1>0, <1>2, <2>1 DEF CreateGoal
  <2>. QED
    BY <1>0, <1>2, <2>2, NoTurn DEF CreateGoal
<1>3. ASSUME NEW g \in Goals, NEW st, SetStatus(g, st), UNCHANGED run \/ SubmitRun(g)
      PROVE  Judged'
  <2>1. \A h \in Goals : goal'[h].used = goal[h].used
    BY <1>0, <1>3 DEF SetStatus, GoalRows
  <2>2. \A r \in Runs : run[r] # "none" => run'[r] = run[r]
    BY <1>3, SubmitKeepsRuns
  <2>. QED
    BY <1>0, <1>3, <2>1, <2>2, NoTurn DEF SetStatus, Ended
<1>4. ASSUME NEW g \in Goals,
             PauseGoal(g) \/ ResumeGoal(g) \/ CancelGoal(g) \/ CompleteGoal(g)
      PROVE  Judged'
  BY <1>3, <1>4 DEF PauseGoal, ResumeGoal, CancelGoal, CompleteGoal
<1>5. ASSUME NEW r \in Runs, RunStep(r) PROVE Judged'
  <2>1. PICK st \in RunStates : Becomes(r, st) /\ run[r] \in {"queued", "running"}
                                /\ \A q \in after' : q \in after \/ (/\ q = r /\ run[r] = "running"
                                                                   /\ st \in Ended)
    BY <1>5 DEF RunStep, StartRun, RunEnds, RunStops, RunIsOvertaken, Unfollowed, RunStates,
                Ended, Follows
  <2>2. \A q \in Runs : run'[q] = IF q = r THEN st ELSE run[q]
    BY <1>0, <2>1 DEF Becomes
  <2>. QED
    BY <1>0, <2>1, <2>2, NoTurn DEF Becomes, Ended
<1>6. ASSUME NEW r \in Runs, Evaluate(r) PROVE Judged'
  <2>1. CASE after' = after \ {r} /\ UNCHANGED <<goal, run, turns, crashes>>
    BY <1>0, <2>1, NoTurn
  <2>2. ASSUME NEW g \in GoalFor(r), NEW verdict, NEW written \in 0..3,
               Turn(r, g, verdict, written)
        PROVE  Judged'
    BY <1>6, <2>2, TurnJudged DEF Evaluate, GoalFor, CurrentGoals
  <2>. QED
    BY <1>6, <2>1, <2>2 DEF Evaluate
<1>7. CASE GatewayDies
  BY <1>0, <1>7, NoTurn DEF GatewayDies
<1>8. CASE UNCHANGED goalsVars
  BY <1>0, <1>8, NoTurn DEF goalsVars
<1>. QED
  BY <1>1, <1>2, <1>4, <1>5, <1>6, <1>7, <1>8 DEF GoalsNext, Request

(* The evaluations account for the turns: each turn that was counted has one, *)
(* of a run that ended and is no other turn, but for one turn at each death   *)
(* of the gateway between Store.increment_goal_turn and the evaluation's row. *)
THEOREM TurnsAccounted == GoalsSpec => []EveryTurnJudged
<1>1. GoalsInv /\ Judged /\ [GoalsNext]_goalsVars => GoalsInv' /\ Judged'
  BY GoalsPreserved, JudgedPreserved
<1>2. Judged => EveryTurnJudged
  BY DEF Judged
<1>. QED
  BY <1>1, <1>2, GoalsStarts, JudgedStarts, PTL DEF GoalsSpec

-----------------------------------------------------------------------------
(***************************************************************************)
(* Memory.                                                                 *)
(***************************************************************************)
\* Rows are made in the order of their numbers.
Numbered == \A m \in Memories : row[m] # Nothing => m <= made

\* The editor was opened with a recorded version, the last one or one before it.
EditorBehind ==
  /\ editor.number <= version.number
  /\ editor.number = version.number /\ editor.number # 0
       => editor.doc = version.doc

\* What a text repeats or opposes is an equivalence: texts have one topic.
OneTopicEach ==
  /\ \A a, b \in Contents : Relates(a, b) => Relates(b, a)
  /\ \A a, b, c \in Contents : Relates(a, b) /\ Relates(b, c) => Relates(a, c)

Agreement == OneTopicEach => NoContradiction

MemoryInv == MemoryTypeOK /\ Numbered /\ LinesSpeakTrue /\ Agreement /\ EditorBehind

JobRows == {NoJob} \cup [state : JobStates, attempts : {0, 1}]

\* The rows and documents of MemoryTypeOK, and the rest of it.
MemoryRows ==
  /\ made \in 0..MaxMemories
  /\ row \in [Memories -> Contents \cup {Nothing}]
  /\ others \in 0..SearchLimit
  /\ revised \in [Memories -> Seq(Contents \X Contents)]
  /\ doc \in Documents
  /\ event \in [Events -> {NoEvent} \cup
                  [content : Contents \cup {Nothing}, status : EventStates]]
  /\ job \in [Runs -> JobRows]
  /\ live \subseteq {r \in Runs : job[r].state \in {"pending", "running"}}
  /\ crashes \in 0..MaxCrashes
  /\ unchecked \cup apart \subseteq 1..made

Settings ==
  /\ mode \in Modes
  /\ {version.number, editor.number} \subseteq 0..MaxVersions
  /\ {version.doc, editor.doc} \subseteq Documents
  /\ suggested \subseteq Contents

LEMMA MemoryParts == MemoryTypeOK <=> MemoryRows /\ Settings
BY DEF MemoryTypeOK, MemoryRows, Settings, JobRows

LEMMA Bounds ==
  /\ MaxMemories \in Nat /\ MaxEvents \in Nat /\ MaxRuns \in Nat
  /\ MaxVersions \in Nat /\ MaxCrashes \in Nat /\ MaxRevisions \in Nat
  /\ Nothing \notin Contents /\ Approval \in BOOLEAN
  /\ SearchLimit \in Nat
BY MemoryAssumption, GatewayAssumption

LEMMA MarkersOf ==
  /\ \A m \in Memories : <<"memory", m>> \in Markers
  /\ \A e \in Events : <<"event", e>> \in Markers
  /\ <<"key", 1>> \in Markers
BY DEF Markers

-----------------------------------------------------------------------------
(* The initial state.                                                      *)
LEMMA MemoryStarts == MemoryInit => MemoryInv
<1>. SUFFICES ASSUME MemoryInit PROVE MemoryInv
  OBVIOUS
<1>1. Blank.number = 0 /\ Blank.doc \in Documents
  BY DEF Blank, Documents
<1>2. MemoryRows
  <2>1. /\ made \in 0..MaxMemories /\ crashes \in 0..MaxCrashes
        /\ others \in 0..SearchLimit
    BY Bounds DEF MemoryInit
  <2>2. row \in [Memories -> Contents \cup {Nothing}] /\ doc \in Documents
    BY <1>1 DEF MemoryInit
  <2>3. revised \in [Memories -> Seq(Contents \X Contents)]
    BY DEF MemoryInit
  <2>4. job \in [Runs -> JobRows] /\ live = {}
    BY DEF MemoryInit, JobRows
  <2>5. event \in [Events -> {NoEvent} \cup
                     [content : Contents \cup {Nothing}, status : EventStates]]
    BY DEF MemoryInit
  <2>. QED
    BY <2>1, <2>2, <2>3, <2>4, <2>5 DEF MemoryRows, MemoryInit
<1>3. Settings
  BY <1>1, Bounds DEF Settings, MemoryInit, Modes
<1>4. \A m \in Memories : row[m] = Nothing
  BY DEF MemoryInit
<1>5. EditorBehind
  BY <1>1 DEF EditorBehind, MemoryInit
<1>. QED
  BY <1>2, <1>3, <1>4, <1>5, MemoryParts
     DEF MemoryInv, Numbered, LinesSpeakTrue, Agreement, NoContradiction, Stored

-----------------------------------------------------------------------------
(* An operation that makes a prefix of its writes.                         *)

Kinds == {"row", "line", "revise", "episode", "event", "job"}

(* The first k of a sequence of writes. *)
LEMMA FirstWrites ==
  ASSUME NEW S, NEW s \in Seq(S), NEW k \in 0..Len(s)
  PROVE  /\ \A x : x \in Range(SubSeq(s, 1, k)) <=> \E i \in 1..k : x = s[i]
         /\ \A x : x \in Range(s) <=> \E i \in 1..Len(s) : x = s[i]
<1>1. SubSeq(s, 1, k) = [i \in 1..k |-> s[i]]
  OBVIOUS
<1>2. DOMAIN s = 1..Len(s)
  OBVIOUS
<1>. QED
  BY <1>1, <1>2 DEF Range

(* What an operation did: some of its steps, each after those before it     *)
(* (only a line may be refused), and all but a line unless the process died. *)
Did(op, s, done, died) ==
  /\ Write(op, done)
  /\ \A x \in done : x \in Range(s)
  /\ ~died => \A x \in Range(s) \ {"line"} : x \in done
  /\ \A i, j \in 1..Len(s) :
       i < j /\ s[j] \in done /\ s[i] # "line" /\ (\A n \in 1..Len(s) : s[n] = s[j] => n = j)
         => s[i] \in done
  /\ live' = StillLive(op, died)
  /\ apart' = IF "row" \in done
                 /\ ("line" \in Range(s) \ done \/ op.marker[1] # "memory")
              THEN apart \cup {op.memory} ELSE apart

LEMMA Operated ==
  ASSUME NEW op, NEW s \in Seq(Kinds), NEW mayFail \in SUBSET {"line"},
         Operate(op, s, mayFail), crashes \in 0..MaxCrashes
  PROVE  /\ \E done : \E died \in BOOLEAN : Did(op, s, done, died)
         /\ crashes' \in 0..MaxCrashes
         /\ UNCHANGED <<mode, version, editor, suggested>>
<1>0. PICK k \in 0..Len(s), refused \in SUBSET mayFail :
        LET done == Range(SubSeq(s, 1, k)) \ refused
        IN /\ Write(op, done)
           /\ crashes' = crashes + (IF k < Len(s) THEN 1 ELSE 0) /\ crashes' <= MaxCrashes
           /\ live' = StillLive(op, k < Len(s))
           /\ apart' = IF "row" \in done
                          /\ ("line" \in Range(s) \ done \/ op.marker[1] # "memory")
                       THEN apart \cup {op.memory} ELSE apart
           /\ UNCHANGED <<mode, version, editor, suggested>>
  BY DEF Operate
<1>1. PICK done :
        /\ done = Range(SubSeq(s, 1, k)) \ refused
        /\ Write(op, done)
        /\ crashes' = crashes + (IF k < Len(s) THEN 1 ELSE 0) /\ crashes' <= MaxCrashes
        /\ live' = StillLive(op, k < Len(s))
        /\ apart' = IF "row" \in done
                       /\ ("line" \in Range(s) \ done \/ op.marker[1] # "memory")
                    THEN apart \cup {op.memory} ELSE apart
        /\ UNCHANGED <<mode, version, editor, suggested>>
  BY <1>0
<1>2. Len(s) \in Nat /\ \A x \in refused : x = "line"
  OBVIOUS
<1>3. /\ \A x : x \in Range(SubSeq(s, 1, k)) <=> \E i \in 1..k : x = s[i]
      /\ \A x : x \in Range(s) <=> \E i \in 1..Len(s) : x = s[i]
  BY FirstWrites
<1>4. \A x : x \in done <=> x \notin refused /\ \E i \in 1..k : x = s[i]
  BY <1>1, <1>3
<1>5. \A x \in done : x \in Range(s)
  BY <1>2, <1>3, <1>4
<1>6. k = Len(s) => \A x \in Range(s) \ {"line"} : x \in done
  BY <1>2, <1>3, <1>4
<1>7. ASSUME NEW i \in 1..Len(s), NEW j \in 1..Len(s), i < j, s[j] \in done, s[i] # "line",
             \A n \in 1..Len(s) : s[n] = s[j] => n = j
      PROVE  s[i] \in done
  <2>1. PICK n \in 1..k : s[n] = s[j]
    BY <1>4, <1>7
  <2>2. n = j /\ i \in 1..k
    BY <1>2, <1>7, <2>1
  <2>. QED
    BY <1>2, <1>4, <1>7, <2>2
<1>8. crashes' \in 0..MaxCrashes
  BY <1>1, Bounds
<1>9. CASE k < Len(s)
  <2>1. live' = StillLive(op, TRUE)
    BY <1>1, <1>9 DEF StillLive
  <2>2. Did(op, s, done, TRUE)
    BY <1>1, <1>5, <1>7, <2>1 DEF Did
  <2>. QED
    BY <1>1, <1>8, <2>2
<1>10. CASE ~(k < Len(s))
  <2>1. live' = StillLive(op, FALSE) /\ k = Len(s)
    BY <1>1, <1>2, <1>10 DEF StillLive
  <2>2. Did(op, s, done, FALSE)
    BY <1>1, <1>5, <1>6, <1>7, <2>1 DEF Did
  <2>. QED
    BY <1>1, <1>8, <2>2
<1>. QED
  BY <1>9, <1>10

LEMMA PromoteWrites ==
  /\ PromoteSteps \in Seq(Kinds) /\ Len(PromoteSteps) = 2
  /\ PromoteSteps[1] = "row" /\ PromoteSteps[2] = "line"
BY DEF PromoteSteps, Kinds

LEMMA SupersedeWrites ==
  /\ SupersedeSteps \in Seq(Kinds) /\ Len(SupersedeSteps) = 3
  /\ SupersedeSteps[1] = "revise" /\ SupersedeSteps[2] = "row"
  /\ SupersedeSteps[3] = "line"
BY DEF SupersedeSteps, Kinds

LEMMA RowOnlyWrites ==
  LET s == SubSeq(SupersedeSteps, 1, 2)
  IN s \in Seq(Kinds) /\ Len(s) = 2 /\ s[1] = "revise" /\ s[2] = "row"
<1>1. PICK s : s = SupersedeSteps
  OBVIOUS
<1>2. s \in Seq(Kinds) /\ Len(s) = 3 /\ s[1] = "revise" /\ s[2] = "row"
  BY <1>1, SupersedeWrites
<1>3. \A i \in 1..2 : s[i] \in Kinds
  BY <1>2
<1>4. /\ SubSeq(s, 1, 2) \in Seq(Kinds) /\ Len(SubSeq(s, 1, 2)) = 2
      /\ \A i \in 1..2 : SubSeq(s, 1, 2)[i] = s[1 + i - 1]
  <2>. HIDE DEF Kinds
  <2>. QED
    BY <1>3, SubSeqProperties
<1>5. SubSeq(s, 1, 2)[1] = s[1] /\ SubSeq(s, 1, 2)[2] = s[2]
  BY <1>4
<1>. QED
  BY <1>1, <1>2, <1>4, <1>5

(* What a review writes: nothing of the curated rows. *)
ReviewKinds == {"line", "episode", "event", "job"}
LEMMA ReviewWrites ==
  ASSUME NEW c, NEW mark \in {"pending_approval", "applied", "failed"},
         NEW writes \in FactWrites(c, mark)
  PROVE  LET s == writes \o <<"job">>
         IN /\ s \in Seq(Kinds)
            /\ \A x : x \in Range(s) => x \in ReviewKinds
            /\ "job" \in Range(s)
<1>1. \/ writes = <<"event">> \/ writes = <<"line", "event">>
      \/ writes = <<"line", "episode", "event">>
  BY DEF FactWrites
<1>2. CASE writes = <<"event">>
  <2>1. PICK s : s = <<"event">> \o <<"job">>
    OBVIOUS
  <2>2. s \in Seq(Kinds) /\ Len(s) = 2 /\ s[1] = "event" /\ s[2] = "job"
    BY <2>1 DEF Kinds
  <2>. QED
    BY <1>2, <2>1, <2>2 DEF Range, ReviewKinds
<1>3. CASE writes = <<"line", "event">>
  <2>1. PICK s : s = <<"line", "event">> \o <<"job">>
    OBVIOUS
  <2>2. s \in Seq(Kinds) /\ Len(s) = 3 /\ s[1] = "line" /\ s[2] = "event" /\ s[3] = "job"
    BY <2>1 DEF Kinds
  <2>. QED
    BY <1>3, <2>1, <2>2 DEF Range, ReviewKinds
<1>4. CASE writes = <<"line", "episode", "event">>
  <2>1. PICK s : s = <<"line", "episode", "event">> \o <<"job">>
    OBVIOUS
  <2>2. /\ s \in Seq(Kinds) /\ Len(s) = 4
        /\ s[1] = "line" /\ s[2] = "episode" /\ s[3] = "event" /\ s[4] = "job"
    BY <2>1 DEF Kinds
  <2>. QED
    BY <1>4, <2>1, <2>2 DEF Range, ReviewKinds
<1>. QED
  BY <1>1, <1>2, <1>3, <1>4

-----------------------------------------------------------------------------
(* The types after an operation.                                           *)
Ops == [memory : Nat, marker : Markers \cup {<<"none", 0>>},
        content : Contents \cup {Nothing}, event : Nat,
        status : EventStates \cup {"none"}, run : Nat, outcome : JobRows]

Fits(op, done) ==
  /\ "row" \in done => op.memory \in Memories
  /\ "revise" \in done => op.memory \in Stored /\ op.content \in Contents
  /\ "event" \in done => op.status \in EventStates
  /\ op.outcome = NoJob => "job" \notin done
  /\ op.outcome # NoJob => op.outcome.state \in {"pending", "failed", "completed"}

LEMMA WriteTyped ==
  ASSUME MemoryRows, NEW op \in Ops, NEW done, Write(op, done), Fits(op, done)
  PROVE  /\ made' \in 0..MaxMemories /\ made <= made'
         /\ row' \in [Memories -> Contents \cup {Nothing}]
         /\ others' \in 0..SearchLimit
         /\ revised' \in [Memories -> Seq(Contents \X Contents)]
         /\ doc' \in Documents
         /\ event' \in [Events -> {NoEvent} \cup
                          [content : Contents \cup {Nothing}, status : EventStates]]
         /\ job' \in [Runs -> JobRows]
<1>1. made' \in 0..MaxMemories /\ made <= made'
  BY Bounds DEF Write, MemoryRows, Fits, Ops, Memories
<1>2. row' \in [Memories -> Contents \cup {Nothing}]
  BY DEF Write, MemoryRows, WithRow, Ops
<1>3. revised' \in [Memories -> Seq(Contents \X Contents)]
  <2>1. CASE "revise" \in done
    <3>1. row[op.memory] \in Contents /\ op.memory \in Memories /\ op.content \in Contents
      BY <2>1 DEF Fits, Stored, MemoryRows
    <3>2. Append(revised[op.memory], <<row[op.memory], op.content>>) \in Seq(Contents \X Contents)
      BY <3>1 DEF MemoryRows
    <3>. QED
      BY <2>1, <3>1, <3>2 DEF Write, WithRevision, MemoryRows
  <2>. QED
    BY <2>1 DEF Write, MemoryRows
<1>4. doc' \in Documents
  BY DEF Write, MemoryRows, WithLine, Documents, Ops
<1>5. event' \in [Events -> {NoEvent} \cup
                    [content : Contents \cup {Nothing}, status : EventStates]]
  BY DEF Write, MemoryRows, WithEvent, Fits, Ops
<1>6. job' \in [Runs -> JobRows]
  BY DEF Write, MemoryRows, WithOutcome, Ops
<1>7. others' \in 0..SearchLimit
  BY Bounds DEF Write, MemoryRows, OneMore
<1>. QED
  BY <1>1, <1>2, <1>3, <1>4, <1>5, <1>6, <1>7

LEMMA OperateTyped ==
  ASSUME MemoryTypeOK, NEW op \in Ops, NEW s \in Seq(Kinds), NEW done, NEW died \in BOOLEAN,
         Did(op, s, done, died), Fits(op, done),
         op.outcome # NoJob => "job" \in Range(s),
         crashes' \in 0..MaxCrashes, UNCHANGED <<mode, version, editor, suggested>>,
         unchecked' \subseteq 1..made'
  PROVE  MemoryTypeOK'
<1>1. MemoryRows /\ Settings
  BY MemoryParts
<1>2. Write(op, done)
  BY DEF Did
<1>3. /\ made' \in 0..MaxMemories /\ made <= made'
      /\ row' \in [Memories -> Contents \cup {Nothing}]
      /\ others' \in 0..SearchLimit
      /\ revised' \in [Memories -> Seq(Contents \X Contents)]
      /\ doc' \in Documents
      /\ event' \in [Events -> {NoEvent} \cup
                       [content : Contents \cup {Nothing}, status : EventStates]]
      /\ job' \in [Runs -> JobRows]
  BY <1>1, <1>2, WriteTyped
<1>4. live' \subseteq {r \in Runs : job'[r].state \in {"pending", "running"}}
  <2>1. CASE died
    BY <2>1 DEF Did, StillLive
  <2>2. CASE ~died /\ op.outcome = NoJob
    <3>1. live' = live /\ job' = job
      BY <1>2, <2>2 DEF Did, StillLive, Fits, Write
    <3>. QED
      BY <1>1, <3>1 DEF MemoryRows
  <2>3. CASE ~died /\ op.outcome # NoJob
    <3>1. live' = live \ {op.run}
      BY <2>3 DEF Did, StillLive
    <3>2. \A r \in Runs \ {op.run} : job'[r] = job[r]
      BY <1>1, <1>2 DEF Write, WithOutcome, MemoryRows
    <3>. QED
      BY <1>1, <3>1, <3>2 DEF MemoryRows
  <2>. QED
    BY <2>1, <2>2, <2>3
<1>5. apart' \subseteq 1..made'
  <2>1. CASE apart' = apart
    BY <1>1, <1>3, <2>1 DEF MemoryRows
  <2>2. CASE "row" \in done /\ apart' = apart \cup {op.memory}
    <3>1. op.memory \in Memories
      BY <2>2 DEF Fits
    <3>2. op.memory <= made' /\ op.memory >= 1 /\ op.memory \in Nat
      BY <1>1, <1>2, <2>2, <3>1, Bounds DEF Write, Memories, MemoryRows
    <3>. QED
      BY <1>1, <1>3, <2>2, <3>2 DEF MemoryRows
  <2>. QED
    BY <2>1, <2>2 DEF Did
<1>6. MemoryRows' /\ Settings'
  BY <1>1, <1>3, <1>4, <1>5 DEF MemoryRows, Settings
<1>. QED
  BY <1>6, MemoryParts DEF MemoryTypeOK, MemoryRows, Settings, JobRows

-----------------------------------------------------------------------------
(* The curator.                                                            *)
Remembered ==
  \A m \in Memories :
    row[m] # Nothing /\ row'[m] # row[m] => <<row[m], row'[m]>> \in Range(revised'[m])

\* What the curator writes.
Curated(m, c) == [Op EXCEPT !.memory = m, !.marker = <<"memory", m>>, !.content = c]

LEMMA CuratedOp ==
  ASSUME NEW m \in Memories, NEW c \in Contents
  PROVE  /\ Curated(m, c) \in Ops
         /\ Curated(m, c).memory = m /\ Curated(m, c).content = c
         /\ Curated(m, c).marker = <<"memory", m>>
         /\ Curated(m, c).outcome = NoJob
<1>1. PICK k : k = <<"memory", m>>
  OBVIOUS
<1>2. PICK op : op = [Op EXCEPT !.memory = m, !.marker = k, !.content = c]
  OBVIOUS
<1>3. op = [memory |-> m, marker |-> k, content |-> c, event |-> 1,
            status |-> "none", run |-> 1, outcome |-> NoJob]
  BY <1>2 DEF Op
<1>4. k \in Markers /\ m \in Nat
  BY <1>1, MarkersOf, Bounds DEF Memories
<1>5. NoJob \in JobRows
  BY DEF JobRows
<1>6. op = Curated(m, c)
  BY <1>1, <1>2 DEF Curated
<1>7. op \in Ops
  BY <1>3, <1>4, <1>5 DEF Ops
<1>. QED
  BY <1>1, <1>3, <1>6, <1>7

LEMMA PromoteInv ==
  ASSUME MemoryInv, NEW c \in Contents, NEW found, Related(c, found) = {}, Promote(c, found)
  PROVE  MemoryInv' /\ Remembered
<1>. DEFINE new == made + 1
            op == Curated(new, c)
<1>1. /\ MemoryTypeOK /\ MemoryRows /\ new \in Memories /\ new \notin 1..made
      /\ crashes \in 0..MaxCrashes
  BY MemoryParts, Bounds DEF MemoryInv, Promote, Memories, MemoryRows
<1>2. /\ op \in Ops /\ op.memory = new /\ op.content = c
      /\ op.marker = <<"memory", new>> /\ op.outcome = NoJob
  BY <1>1, CuratedOp
<1>. HIDE DEF op
<1>3. /\ Operate(op, PromoteSteps, {"line"})
      /\ unchecked' = IF made' > made /\ Related(c, Stored \ found) # {}
                      THEN unchecked \cup {made'} ELSE unchecked
  BY DEF Promote, Curated, op
<1>4. PICK done : \E died \in BOOLEAN : Did(op, PromoteSteps, done, died)
  BY <1>1, <1>3, Operated, PromoteWrites
<1>5. PICK died \in BOOLEAN : Did(op, PromoteSteps, done, died)
  BY <1>4
<1>6. crashes' \in 0..MaxCrashes /\ UNCHANGED <<mode, version, editor, suggested>>
  BY <1>1, <1>3, Operated, PromoteWrites
<1>7. /\ "line" \in done => "row" \in done
      /\ \A x \in done : x = "row" \/ x = "line"
      /\ "line" \in Range(PromoteSteps)
  <2>1. \A x : x \in Range(PromoteSteps) <=> x = "row" \/ x = "line"
    BY PromoteWrites DEF Range
  <2>. QED
    BY <1>5, <2>1, PromoteWrites DEF Did
<1>8. Fits(op, done) /\ op.outcome = NoJob
  BY <1>1, <1>2, <1>7 DEF Fits
<1>9. Write(op, done)
  BY <1>5 DEF Did
<1>10. CASE "row" \notin done
  <2>0. UNCHANGED <<made, row, doc, revised, apart>>
    BY <1>5, <1>7, <1>9, <1>10 DEF Write, Did
  <2>1. UNCHANGED <<made, row, doc, revised, apart, unchecked>>
    BY <1>1, <1>3, <2>0 DEF MemoryRows
  <2>2. MemoryTypeOK'
    BY <1>1, <1>2, <1>5, <1>6, <1>8, <2>1, OperateTyped, PromoteWrites DEF MemoryRows
  <2>. QED
    BY <1>6, <2>1, <2>2
       DEF MemoryInv, Numbered, LinesSpeakTrue, Agreement, NoContradiction, Stored, EditorBehind,
              Remembered
<1>11. CASE "row" \in done
  <2>1. /\ made' = new /\ row' = [row EXCEPT ![new] = c]
        /\ doc' = IF "line" \in done THEN [doc EXCEPT ![<<"memory", new>>] = c] ELSE doc
        /\ apart' = IF "line" \in done THEN apart ELSE apart \cup {new}
    BY <1>1, <1>2, <1>5, <1>7, <1>9, <1>11, Bounds
       DEF Write, Did, WithRow, WithLine, MemoryRows
  <2>8. unchecked' = IF Related(c, Stored \ found) # {} THEN unchecked \cup {new} ELSE unchecked
    <3>1. PICK hidden : hidden = Related(c, Stored \ found)
      OBVIOUS
    <3>2. made' > made
      BY <1>1, <2>1 DEF MemoryRows
    <3>3. unchecked' = IF made' > made /\ hidden # {} THEN unchecked \cup {made'} ELSE unchecked
      BY <1>3, <3>1
    <3>. QED
      BY <2>1, <3>1, <3>2, <3>3
  <2>9. unchecked' \subseteq 1..made'
    BY <1>1, <2>1, <2>8 DEF MemoryRows
  <2>2. /\ row'[new] = c /\ \A m \in Memories \ {new} : row'[m] = row[m]
        /\ \A m \in Memories \ {new} : doc'[<<"memory", m>>] = doc[<<"memory", m>>]
        /\ "line" \in done => doc'[<<"memory", new>>] = c
        /\ row[new] = Nothing
    BY <1>1, <2>1, MarkersOf, Bounds DEF MemoryRows, Documents, MemoryInv, Numbered,
       Memories
  <2>3. MemoryTypeOK'
    BY <1>1, <1>2, <1>5, <1>6, <1>8, <2>9, OperateTyped, PromoteWrites
  <2>4. Numbered' /\ Remembered
    BY <1>1, <2>1, <2>2, Bounds DEF MemoryInv, Numbered, Remembered, MemoryRows,
       Memories
  <2>5. LinesSpeakTrue'
    BY <1>1, <2>1, <2>2 DEF MemoryInv, LinesSpeakTrue
  <2>6. Agreement'
    <3>. SUFFICES ASSUME OneTopicEach,
                         NEW m \in Memories \ unchecked', NEW n \in Memories \ unchecked',
                         m # n, row'[m] # Nothing, row'[n] # Nothing, Relates(row'[m], row'[n])
                  PROVE  FALSE
      BY DEF Agreement, NoContradiction, Stored, OneTopicEach, Relates
    <3>1. /\ m \notin unchecked /\ n \notin unchecked
          /\ \A x \in Memories : row'[x] \in Contents \cup {Nothing}
      BY <2>3, <2>8 DEF MemoryTypeOK
    <3>2. m # new /\ n # new => FALSE
      BY <2>2, <3>1 DEF MemoryInv, Agreement, NoContradiction, Stored
    <3>3. PICK other \in Memories \ {new} :
            row'[other] # Nothing /\ Relates(c, row'[other]) /\ new \notin unchecked'
      <4>1. CASE m = new
        BY <2>2, <4>1
      <4>2. CASE n = new
        <5>1. Relates(row'[n], row'[m])
          BY <3>1 DEF OneTopicEach
        <5>. QED
          BY <2>2, <4>2, <5>1
      <4>. QED
        BY <3>2, <4>1, <4>2
    <3>4. other \in Stored /\ Relates(c, row[other])
      BY <2>2, <3>3 DEF Stored
    <3>5. other \notin found
      BY <3>4 DEF Related
    <3>6. other \in Related(c, Stored \ found)
      BY <3>4, <3>5 DEF Related
    <3>. QED
      BY <2>8, <3>3, <3>6
  <2>7. EditorBehind'
    BY <1>6 DEF MemoryInv, EditorBehind
  <2>. QED
    BY <2>3, <2>4, <2>5, <2>6, <2>7 DEF MemoryInv
<1>. QED
  BY <1>10, <1>11

LEMMA SupersedeInv ==
  ASSUME MemoryInv, NEW c \in Contents, NEW found \in SUBSET Stored, NEW m \in Related(c, found),
         Supersede(m, c)
  PROVE  MemoryInv' /\ Remembered
<1>. DEFINE marker == <<"memory", m>>
            op == Curated(m, c)
            steps == IF doc[marker] # Nothing THEN SupersedeSteps
                     ELSE SubSeq(SupersedeSteps, 1, 2)
<1>1. /\ MemoryTypeOK /\ MemoryRows /\ m \in Memories /\ m \in Stored /\ marker \in Markers
      /\ row[m] # Nothing /\ Relates(c, row[m]) /\ m \in Nat
      /\ crashes \in 0..MaxCrashes
  BY MemoryParts, MarkersOf, Bounds DEF MemoryInv, Related, Stored, MemoryRows, Memories
<1>2. /\ op \in Ops /\ op.memory = m /\ op.content = c
      /\ op.marker = <<"memory", m>> /\ op.outcome = NoJob
  BY <1>1, CuratedOp
<1>. HIDE DEF op
<1>3. /\ Operate(op, steps, {"line"}) \/ Operate(op, steps, {})
      /\ UNCHANGED unchecked
  BY <1>2 DEF Supersede, Curated, op
<1>4. /\ steps \in Seq(Kinds)
      /\ \A x \in Range(steps) : x \in {"revise", "row", "line"}
      /\ "line" \in Range(steps) <=> doc[marker] # Nothing
      /\ Len(steps) \in Nat /\ Len(steps) >= 2 /\ steps[1] = "revise" /\ steps[2] = "row"
      /\ \A n \in 1..Len(steps) : steps[n] = "row" => n = 2
      /\ "line" \in Range(steps) =>
           /\ Len(steps) = 3 /\ steps[3] = "line"
           /\ \A n \in 1..Len(steps) : steps[n] = "line" => n = 3
  <2>1. CASE doc[marker] # Nothing
    <3>1. PICK s : s = SupersedeSteps
      OBVIOUS
    <3>2. steps = s
      BY <2>1, <3>1
    <3>. HIDE DEF steps
    <3>3. /\ s \in Seq(Kinds) /\ Len(s) = 3
          /\ s[1] = "revise" /\ s[2] = "row" /\ s[3] = "line"
      BY <3>1, SupersedeWrites
    <3>. QED
      BY <2>1, <3>2, <3>3 DEF Range
  <2>2. CASE doc[marker] = Nothing
    <3>1. PICK s : s = SubSeq(SupersedeSteps, 1, 2)
      OBVIOUS
    <3>2. steps = s
      BY <2>2, <3>1
    <3>. HIDE DEF steps
    <3>3. s \in Seq(Kinds) /\ Len(s) = 2 /\ s[1] = "revise" /\ s[2] = "row"
      BY <3>1, RowOnlyWrites
    <3>. QED
      BY <2>2, <3>2, <3>3 DEF Range
  <2>. QED
    BY <2>1, <2>2
<1>. HIDE DEF steps
<1>5. PICK done : \E died \in BOOLEAN : Did(op, steps, done, died)
  BY <1>1, <1>3, <1>4, Operated
<1>6. PICK died \in BOOLEAN : Did(op, steps, done, died)
  BY <1>5
<1>7. crashes' \in 0..MaxCrashes /\ UNCHANGED <<mode, version, editor, suggested>>
  BY <1>1, <1>3, <1>4, Operated
<1>8. /\ "row" \in done => "revise" \in done
      /\ "line" \in done => "row" \in done
      /\ \A x \in done : x \in {"revise", "row", "line"} /\ x \in Range(steps)
  BY <1>4, <1>6 DEF Did
<1>9. Fits(op, done) /\ op.outcome = NoJob
  BY <1>1, <1>2, <1>8 DEF Fits
<1>10. Write(op, done)
  BY <1>6 DEF Did
<1>11. made' = made /\ UNCHANGED unchecked
  BY <1>1, <1>2, <1>3, <1>10 DEF Write, MemoryInv, Numbered, MemoryRows
<1>12. MemoryTypeOK'
  BY <1>1, <1>2, <1>4, <1>6, <1>7, <1>9, <1>11, OperateTyped DEF MemoryRows
<1>13. CASE "row" \notin done
  <2>1. UNCHANGED <<row, doc, apart>>
    BY <1>6, <1>8, <1>10, <1>13 DEF Write, Did
  <2>. QED
    BY <1>7, <1>11, <1>12, <2>1
       DEF MemoryInv, Numbered, LinesSpeakTrue, Agreement, NoContradiction, Stored, EditorBehind,
              Remembered
<1>14. CASE "row" \in done
  <2>1. /\ row' = [row EXCEPT ![m] = c]
        /\ revised' = [revised EXCEPT ![m] = Append(@, <<row[m], c>>)]
        /\ doc' = IF "line" \in done THEN [doc EXCEPT ![marker] = c] ELSE doc
        /\ apart' = IF "line" \in Range(steps) \ done THEN apart \cup {m} ELSE apart
    BY <1>2, <1>6, <1>8, <1>10, <1>14
       DEF Write, Did, WithRow, WithRevision, WithLine
  <2>2. /\ row'[m] = c /\ \A n \in Memories \ {m} : row'[n] = row[n]
        /\ \A n \in Memories \ {m} : doc'[<<"memory", n>>] = doc[<<"memory", n>>]
        /\ "line" \in done => doc'[marker] = c
    BY <1>1, <2>1, MarkersOf DEF MemoryRows, Documents
  <2>3. Numbered'
    BY <1>1, <1>11, <2>2 DEF MemoryInv, Numbered
  <2>4. LinesSpeakTrue'
    <3>1. m \notin apart' => "line" \in done
      BY <1>1, <1>4, <2>1 DEF MemoryInv, LinesSpeakTrue
    <3>. QED
      BY <2>1, <2>2, <3>1 DEF MemoryInv, LinesSpeakTrue
  <2>5. Agreement'
    <3>. SUFFICES ASSUME OneTopicEach,
                         NEW x \in Memories \ unchecked, NEW y \in Memories \ unchecked,
                         x # y, row'[x] # Nothing, row'[y] # Nothing, Relates(row'[x], row'[y])
                  PROVE  FALSE
      BY <1>11 DEF Agreement, NoContradiction, Stored, OneTopicEach, Relates
    <3>1. \A z \in Memories \ {m} : row'[z] = row[z] /\ row[z] \in Contents \cup {Nothing}
      BY <1>1, <2>2 DEF MemoryRows
    <3>2. row[m] \in Contents /\ row'[m] = c /\ Relates(row[m], c) /\ Relates(c, row[m])
      BY <1>1, <2>2 DEF MemoryRows, OneTopicEach
    <3>3. \A z \in Memories \ (unchecked \cup {m}) :
            m \notin unchecked /\ row[z] # Nothing =>
              ~Relates(row[m], row[z]) /\ ~Relates(row[z], row[m])
      BY <1>1 DEF MemoryInv, Agreement, NoContradiction, Stored
    <3>4. x # m /\ y # m => FALSE
      BY <3>1 DEF MemoryInv, Agreement, NoContradiction, Stored
    <3>5. x = m => FALSE
      <4>. SUFFICES ASSUME x = m PROVE FALSE
        OBVIOUS
      <4>1. row[y] \in Contents /\ Relates(c, row[y]) /\ ~Relates(row[m], row[y])
        BY <3>1, <3>2, <3>3
      <4>. QED
        BY <3>2, <4>1 DEF OneTopicEach
    <3>6. y = m => FALSE
      <4>. SUFFICES ASSUME y = m PROVE FALSE
        OBVIOUS
      <4>1. row[x] \in Contents /\ Relates(row[x], c) /\ ~Relates(row[x], row[m])
        BY <3>1, <3>2, <3>3
      <4>. QED
        BY <3>2, <4>1 DEF OneTopicEach
    <3>. QED
      BY <3>4, <3>5, <3>6
  <2>6. EditorBehind'
    BY <1>7 DEF MemoryInv, EditorBehind
  <2>7. Remembered
    <3>1. revised[m] \in Seq(Contents \X Contents) /\ <<row[m], c>> \in Contents \X Contents
      BY <1>1 DEF MemoryRows
    <3>2. revised'[m] = Append(revised[m], <<row[m], c>>)
      BY <1>1, <2>1 DEF MemoryRows
    <3>3. <<row[m], c>> \in Range(revised'[m])
      <4>1. Len(revised[m]) + 1 \in DOMAIN revised'[m]
        BY <3>1, <3>2
      <4>2. revised'[m][Len(revised[m]) + 1] = <<row[m], c>>
        BY <3>1, <3>2
      <4>. QED
        BY <4>1, <4>2 DEF Range
    <3>. QED
      BY <2>2, <3>3 DEF Remembered
  <2>. QED
    BY <1>12, <2>3, <2>4, <2>5, <2>6, <2>7 DEF MemoryInv
<1>. QED
  BY <1>13, <1>14

(* A step that leaves rows, document and editor alone. *)
LEMMA Untouched ==
  ASSUME MemoryInv, MemoryTypeOK', UNCHANGED <<made, row, doc, version, editor, unchecked, apart>>
  PROVE  MemoryInv'
BY DEF MemoryInv, Numbered, LinesSpeakTrue, Agreement, NoContradiction, Stored, EditorBehind

LEMMA SuggestInv ==
  ASSUME MemoryInv, NEW c \in Contents, NEW verdict, Suggest(c, verdict)
  PROVE  MemoryInv' /\ Remembered
<1>1. UNCHANGED <<made, row, others, revised, doc, mode, job, live, version, editor,
                  crashes, unchecked, apart>>
  BY DEF Suggest
<1>2. MemoryRows /\ Settings
  BY MemoryParts DEF MemoryInv
<1>3. event' \in [Events -> {NoEvent} \cup
                    [content : Contents \cup {Nothing}, status : EventStates]]
  <2>1. \/ UNCHANGED event
        \/ \E e \in Events :
             event' = [event EXCEPT ![e] = [content |-> c, status |-> "pending_approval"]]
    BY DEF Suggest
  <2>2. [content |-> c, status |-> "pending_approval"]
          \in [content : Contents \cup {Nothing}, status : EventStates]
    BY DEF EventStates
  <2>. QED
    BY <1>2, <2>1, <2>2 DEF MemoryRows
<1>4. suggested' \subseteq Contents
  BY <1>2 DEF Suggest, Settings
<1>5. MemoryRows' /\ Settings'
  BY <1>1, <1>2, <1>3, <1>4 DEF MemoryRows, Settings
<1>6. MemoryTypeOK'
  BY <1>5, MemoryParts DEF MemoryTypeOK, MemoryRows, Settings, JobRows
<1>. QED
  BY <1>1, <1>6, Untouched DEF Remembered

(* The curator never makes a second row on a topic of which the search shows *)
(* a first: what contradicts it replaces it, or is suggested, or dropped.    *)
LEMMA CurateInv ==
  ASSUME MemoryInv, NEW c \in Contents, NEW decisions, "promote" \notin decisions["supersede"],
         Curate(c, decisions)
  PROVE  MemoryInv' /\ Remembered
<1>1. PICK found \in SUBSET Stored :
        \/ Related(c, found) = {} /\ (Promote(c, found) \/ Suggest(c, "new"))
        \/ \E m \in Related(c, found) : Supersede(m, c) \/ Suggest(c, "supersede")
  BY DEF Curate
<1>2. CASE Related(c, found) = {} /\ (Promote(c, found) \/ Suggest(c, "new"))
  BY <1>2, PromoteInv, SuggestInv
<1>3. CASE \E m \in Related(c, found) : Supersede(m, c) \/ Suggest(c, "supersede")
  BY <1>3, SupersedeInv, SuggestInv
<1>. QED
  BY <1>1, <1>2, <1>3

LEMMA NeverPromoted ==
  ASSUME NEW source, NEW category, mode \in Modes
  PROVE  /\ Governed(source, category, "supersede") # "promote"
         /\ Consolidated(category, "supersede") # "promote"
BY DEF Governed, Consolidated, Modes

LEMMA SetModeInv ==
  ASSUME MemoryInv, NEW new \in Modes, SetMode(new)
  PROVE  MemoryInv' /\ Remembered
<1>1. UNCHANGED <<made, row, others, revised, doc, event, job, live, version, editor,
                  crashes, unchecked, apart, suggested>> /\ mode' \in Modes
  BY DEF SetMode
<1>2. MemoryTypeOK'
  BY <1>1 DEF MemoryInv, MemoryTypeOK
<1>. QED
  BY <1>1, <1>2, Untouched DEF Remembered

LEMMA CuratorInv ==
  ASSUME MemoryInv, Curator
  PROVE  MemoryInv' /\ Remembered
<1>1. mode \in Modes
  BY DEF MemoryInv, MemoryTypeOK
<1>2. ASSUME NEW c \in Contents, ProcessRun(c) PROVE MemoryInv' /\ Remembered
  <2>. DEFINE decisions == [verdict \in {"new", "supersede"} |->
                {Governed(source, category, verdict) :
                   source \in Sources \ {"journal"}, category \in Categories}]
  <2>1. decisions["supersede"] = {Governed(source, category, "supersede") :
          source \in Sources \ {"journal"}, category \in Categories}
    OBVIOUS
  <2>2. "promote" \notin decisions["supersede"]
    BY <1>1, <2>1, NeverPromoted
  <2>3. Curate(c, decisions)
    BY <1>2 DEF ProcessRun
  <2>. HIDE DEF decisions
  <2>. QED
    BY <2>2, <2>3, CurateInv
<1>3. ASSUME NEW c \in Contents, Consolidate(c) PROVE MemoryInv' /\ Remembered
  <2>. DEFINE decisions == [verdict \in {"new", "supersede"} |->
                {Consolidated(category, verdict) : category \in Categories}]
  <2>1. decisions["supersede"] =
          {Consolidated(category, "supersede") : category \in Categories}
    OBVIOUS
  <2>2. "promote" \notin decisions["supersede"]
    BY <1>1, <2>1, NeverPromoted
  <2>3. Curate(c, decisions)
    BY <1>3 DEF Consolidate
  <2>. HIDE DEF decisions
  <2>. QED
    BY <2>2, <2>3, CurateInv
<1>4. ASSUME NEW c \in Contents, Remember(c) PROVE MemoryInv' /\ Remembered
  <2>1. PICK found \in SUBSET Stored :
          \/ Related(c, found) = {} /\ Promote(c, found)
          \/ \E m \in Related(c, found) : Supersede(m, c)
    BY <1>4 DEF Remember
  <2>. QED
    BY <2>1, PromoteInv, SupersedeInv
<1>5. ASSUME NEW new \in Modes, SetMode(new) PROVE MemoryInv' /\ Remembered
  BY <1>5, SetModeInv
<1>. QED
  BY <1>2, <1>3, <1>4, <1>5 DEF Curator

-----------------------------------------------------------------------------
(* The reviews.                                                            *)
LEMMA EnqueueInv ==
  ASSUME MemoryInv, NEW r \in Runs, Enqueue(r) \/ Begin(r)
  PROVE  MemoryInv'
<1>1. UNCHANGED <<made, row, others, revised, doc, event, mode, version, editor, crashes,
                  unchecked, apart, suggested>>
  BY DEF Enqueue, Begin
<1>2. MemoryRows /\ Settings
  BY MemoryParts DEF MemoryInv
<1>3. PICK new \in JobRows : /\ new.state \in {"pending", "running"}
                             /\ job' = [job EXCEPT ![r] = new]
                             /\ live' \subseteq live \cup {r}
  <2>1. CASE Enqueue(r)
    BY <2>1 DEF Enqueue, NewJob, JobRows, JobStates
  <2>2. CASE Begin(r)
    <3>1. /\ job[r].state = "pending"
          /\ job' = [job EXCEPT ![r] = [job[r] EXCEPT !.state = "running"]] /\ live' = live
      BY <2>2 DEF Begin
    <3>2. job[r] \in [state : JobStates, attempts : {0, 1}]
      BY <1>2, <3>1 DEF MemoryRows, JobRows, NoJob
    <3>3. [job[r] EXCEPT !.state = "running"] \in JobRows
      BY <3>2 DEF JobRows, JobStates
    <3>. QED
      BY <3>1, <3>2, <3>3
  <2>. QED
    BY <2>1, <2>2
<1>4. /\ job' \in [Runs -> JobRows]
      /\ live' \subseteq {q \in Runs : job'[q].state \in {"pending", "running"}}
  BY <1>2, <1>3 DEF MemoryRows
<1>5. MemoryRows' /\ Settings'
  BY <1>1, <1>2, <1>4 DEF MemoryRows, Settings
<1>6. MemoryTypeOK'
  BY <1>5, MemoryParts DEF MemoryTypeOK, MemoryRows, Settings, JobRows
<1>. QED
  BY <1>1, <1>6, Untouched

LEMMA FactOp ==
  ASSUME NEW r \in Runs, NEW outcome \in {Completed, Raised(0)},
         NEW c \in Contents \cup {Nothing}, NEW e \in Events, NEW st \in EventStates
  PROVE  LET op == Fact(r, outcome, c, e, st)
         IN /\ op \in Ops
            /\ op.marker = <<"key", 1>> /\ op.status = st
            /\ op.outcome # NoJob /\ op.outcome.state \in {"completed", "failed", "pending"}
<1>1. PICK k : k = <<"key", 1>>
  OBVIOUS
<1>2. PICK op : op = [Op EXCEPT !.run = r, !.outcome = outcome, !.marker = k,
                                !.content = c, !.event = e, !.status = st]
  OBVIOUS
<1>3. op = [memory |-> 1, marker |-> k, content |-> c, event |-> e,
            status |-> st, run |-> r, outcome |-> outcome]
  BY <1>2 DEF Op
<1>4. k \in Markers /\ r \in Nat /\ e \in Nat
  BY <1>1, MarkersOf, Bounds DEF Runs, Events
<1>5. /\ outcome \in JobRows /\ outcome # NoJob
      /\ outcome.state \in {"completed", "failed", "pending"}
  BY DEF JobRows, JobStates, NoJob, Completed, Raised
<1>6. op = Fact(r, outcome, c, e, st)
  BY <1>1, <1>2 DEF Fact
<1>7. op \in Ops
  BY <1>3, <1>4, <1>5 DEF Ops
<1>. QED
  BY <1>1, <1>3, <1>5, <1>6, <1>7

LEMMA ReviewOpInv ==
  ASSUME MemoryInv, NEW op \in Ops, op.marker = <<"key", 1>>, op.status \in EventStates,
         op.outcome # NoJob, op.outcome.state \in {"completed", "failed", "pending"},
         NEW s \in Seq(Kinds), \A x \in Range(s) : x \in ReviewKinds, "job" \in Range(s),
         NEW mayFail \in SUBSET {"line"}, Operate(op, s, mayFail), UNCHANGED unchecked
  PROVE  MemoryInv'
<1>1. MemoryTypeOK /\ MemoryRows /\ crashes \in 0..MaxCrashes
  BY MemoryParts DEF MemoryInv, MemoryRows
<1>2. PICK done : \E died \in BOOLEAN : Did(op, s, done, died)
  BY <1>1, Operated
<1>3. PICK died \in BOOLEAN : Did(op, s, done, died)
  BY <1>2
<1>4. crashes' \in 0..MaxCrashes /\ UNCHANGED <<mode, version, editor, suggested>>
  BY <1>1, Operated
<1>5. "row" \notin done /\ "revise" \notin done
  BY <1>3 DEF Did, ReviewKinds
<1>6. Fits(op, done)
  BY <1>5 DEF Fits
<1>7. UNCHANGED <<made, row, revised, apart>>
  BY <1>3, <1>5 DEF Did, Write
<1>8. MemoryTypeOK'
  BY <1>1, <1>3, <1>4, <1>6, <1>7, OperateTyped DEF MemoryRows
<1>9. \A m \in Memories : doc'[<<"memory", m>>] = doc[<<"memory", m>>]
  <2>1. <<"key", 1>> \in Markers /\ doc \in Documents
    BY <1>1, MarkersOf DEF MemoryRows
  <2>2. doc' = doc \/ doc' = [doc EXCEPT ![<<"key", 1>>] = op.content]
    BY <1>3 DEF Did, Write, WithLine
  <2>. QED
    BY <2>1, <2>2, MarkersOf DEF Documents
<1>. QED
  BY <1>4, <1>7, <1>8, <1>9
     DEF MemoryInv, Numbered, LinesSpeakTrue, Agreement, NoContradiction, Stored, EditorBehind

LEMMA ReviewFactInv ==
  ASSUME MemoryInv, UNCHANGED unchecked,
         NEW r \in Runs, NEW outcome \in {Completed, Raised(0)},
         NEW c \in Contents \cup {Nothing}, NEW e \in Events, NEW st \in EventStates,
         NEW s \in Seq(Kinds), \A x \in Range(s) : x \in ReviewKinds, "job" \in Range(s),
         NEW mayFail \in SUBSET {"line"},
         Operate(Fact(r, outcome, c, e, st), s, mayFail)
  PROVE  MemoryInv'
<1>1. PICK op : op = Fact(r, outcome, c, e, st)
  OBVIOUS
<1>2. /\ op \in Ops /\ op.marker = <<"key", 1>> /\ op.status \in EventStates
      /\ op.outcome # NoJob /\ op.outcome.state \in {"completed", "failed", "pending"}
  BY <1>1, FactOp
<1>3. Operate(op, s, mayFail)
  BY <1>1
<1>. QED
  BY <1>2, <1>3, ReviewOpInv

LEMMA FinishJobInv ==
  ASSUME MemoryInv, NEW r \in Runs, FinishJob(r)
  PROVE  MemoryInv'
<1>1. UNCHANGED unchecked
  BY DEF FinishJob
<1>2. ASSUME NEW e \in Events,
             Operate(Fact(r, Completed, Nothing, e, "applied"), <<"job", "event">>, {})
      PROVE  MemoryInv'
  <2>1. PICK s : s = <<"job", "event">>
    OBVIOUS
  <2>2. s \in Seq(Kinds) /\ Len(s) = 2 /\ s[1] = "job" /\ s[2] = "event"
    BY <2>1 DEF Kinds
  <2>3. (\A x \in Range(s) : x \in ReviewKinds) /\ "job" \in Range(s)
    BY <2>2 DEF Range, ReviewKinds
  <2>4. "applied" \in EventStates
    BY DEF EventStates
  <2>5. PICK outcome \in {Completed, Raised(0)}, c \in Contents \cup {Nothing} :
          outcome = Completed /\ c = Nothing
    OBVIOUS
  <2>6. Operate(Fact(r, outcome, c, e, "applied"), s, {})
    BY <1>2, <2>1, <2>5
  <2>. QED
    BY <1>1, <2>2, <2>3, <2>4, <2>6, ReviewFactInv
<1>3. ASSUME NEW e \in Events, NEW outcome \in {Completed, Raised(0)}, ApplyFact(r, e, outcome)
      PROVE  MemoryInv'
  <2>1. PICK c \in Contents \cup {Nothing}, st \in {"pending_approval", "applied", "failed"} :
          \E writes \in FactWrites(c, st) :
            Operate(Fact(r, outcome, c, e, st), writes \o <<"job">>, {})
    BY <1>3 DEF ApplyFact
  <2>2. PICK writes \in FactWrites(c, st) :
          Operate(Fact(r, outcome, c, e, st), writes \o <<"job">>, {})
    BY <2>1
  <2>3. st \in EventStates
    BY DEF EventStates
  <2>4. PICK s : s = writes \o <<"job">>
    OBVIOUS
  <2>5. s \in Seq(Kinds) /\ (\A x \in Range(s) : x \in ReviewKinds) /\ "job" \in Range(s)
    BY <2>4, ReviewWrites
  <2>6. Operate(Fact(r, outcome, c, e, st), s, {})
    BY <2>2, <2>4
  <2>. QED
    BY <1>1, <2>3, <2>5, <2>6, ReviewFactInv
<1>4. ASSUME NEW e \in Events, NEW outcome \in {Completed, Raised(0)}, ApplySkill(r, e, outcome)
      PROVE  MemoryInv'
  <2>1. PICK c \in Contents, st \in EventStates :
          Operate(Fact(r, outcome, c, e, st), <<"event", "job">>, {})
    BY <1>4 DEF ApplySkill, EventStates
  <2>2. PICK s : s = <<"event", "job">>
    OBVIOUS
  <2>3. s \in Seq(Kinds) /\ Len(s) = 2 /\ s[1] = "event" /\ s[2] = "job"
    BY <2>2 DEF Kinds
  <2>4. (\A x \in Range(s) : x \in ReviewKinds) /\ "job" \in Range(s)
    BY <2>3 DEF Range, ReviewKinds
  <2>5. Operate(Fact(r, outcome, c, e, st), s, {})
    BY <2>1, <2>2
  <2>. QED
    BY <1>1, <2>3, <2>4, <2>5, ReviewFactInv
<1>5. ASSUME NEW e \in Events,
             Operate(Fact(r, Raised(0), Nothing, e, "failed"), <<"job">>, {})
      PROVE  MemoryInv'
  <2>1. PICK s : s = <<"job">>
    OBVIOUS
  <2>2. s \in Seq(Kinds) /\ Len(s) = 1 /\ s[1] = "job"
    BY <2>1 DEF Kinds
  <2>3. (\A x \in Range(s) : x \in ReviewKinds) /\ "job" \in Range(s)
    BY <2>2 DEF Range, ReviewKinds
  <2>4. "failed" \in EventStates
    BY DEF EventStates
  <2>5. PICK outcome \in {Completed, Raised(0)}, c \in Contents \cup {Nothing} :
          outcome = Raised(0) /\ c = Nothing
    OBVIOUS
  <2>6. Operate(Fact(r, outcome, c, e, "failed"), s, {})
    BY <1>5, <2>1, <2>5
  <2>. QED
    BY <1>1, <2>2, <2>3, <2>4, <2>6, ReviewFactInv
<1>6. \A answer : Outcome(answer) \in {Completed, Raised(0)}
  BY DEF Outcome
<1>. QED
  BY <1>2, <1>3, <1>4, <1>5, <1>6 DEF FinishJob

-----------------------------------------------------------------------------
(* The routes.                                                             *)
LEMMA MarkInv ==
  ASSUME MemoryInv, NEW e \in Events, NEW content \in Contents \cup {Nothing},
         NEW st \in EventStates, Mark(e, content, st)
  PROVE  MemoryInv'
<1>1. /\ event' = [event EXCEPT ![e] = [content |-> content, status |-> st]]
      /\ UNCHANGED <<made, row, others, revised, doc, mode, job, live, version, editor,
                     crashes, unchecked, apart, suggested>>
  BY DEF Mark
<1>2. MemoryRows /\ Settings
  BY MemoryParts DEF MemoryInv
<1>3. MemoryRows' /\ Settings'
  BY <1>1, <1>2 DEF MemoryRows, Settings
<1>4. MemoryTypeOK'
  BY <1>3, MemoryParts DEF MemoryTypeOK, MemoryRows, Settings, JobRows
<1>. QED
  BY <1>1, <1>4, Untouched

LEMMA CountOthersInv ==
  ASSUME MemoryInv, RecordMemory \/ DropMemory
  PROVE  MemoryInv'
<1>1. MemoryRows /\ Settings
  BY MemoryParts DEF MemoryInv
<1>2. /\ others' \in 0..SearchLimit
      /\ UNCHANGED <<made, row, revised, doc, event, mode, job, live, version, editor,
                     crashes, unchecked, apart, suggested>>
  BY <1>1, Bounds DEF RecordMemory, DropMemory, CountOthers, OneMore, MemoryRows
<1>3. MemoryRows' /\ Settings'
  BY <1>1, <1>2 DEF MemoryRows, Settings
<1>4. MemoryTypeOK'
  BY <1>3, MemoryParts DEF MemoryTypeOK, MemoryRows, Settings, JobRows
<1>. QED
  BY <1>2, <1>4, Untouched

LEMMA CandidateWrites ==
  LET s == <<"row", "line", "event">>
  IN /\ s \in Seq(Kinds) /\ Len(s) = 3 /\ s[1] = "row" /\ s[2] = "line" /\ s[3] = "event"
     /\ \A x : x \in Range(s) => x \in {"row", "line", "event"}
<1>1. PICK s : s = <<"row", "line", "event">>
  OBVIOUS
<1>2. s \in Seq(Kinds) /\ Len(s) = 3 /\ s[1] = "row" /\ s[2] = "line" /\ s[3] = "event"
  BY <1>1 DEF Kinds
<1>3. \A x : x \in Range(s) => x \in {"row", "line", "event"}
  BY <1>2 DEF Range
<1>. QED
  BY <1>1, <1>2, <1>3

(* A candidate the user promotes has a line of its own, and is not checked.  *)
LEMMA PromoteCandidateInv ==
  ASSUME MemoryInv, NEW e \in Events, PromoteCandidate(e)
  PROVE  MemoryInv'
<1>. DEFINE new == made + 1
<1>1. /\ MemoryTypeOK /\ MemoryRows /\ new \in Memories /\ new \notin 1..made
      /\ crashes \in 0..MaxCrashes
      /\ event[e].content \in Contents
  <2>1. MemoryTypeOK /\ MemoryRows /\ event[e] # NoEvent /\ event[e].content # Nothing /\ made < MaxMemories
    BY MemoryParts DEF MemoryInv, PromoteCandidate, MayPromote
  <2>2. event[e].content \in Contents
    BY <2>1 DEF MemoryRows
  <2>. QED
    BY <2>1, <2>2, Bounds DEF Memories, MemoryRows
<1>2. PICK k : k = <<"event", e>>
  OBVIOUS
<1>3. PICK op : op = [Op EXCEPT !.memory = new, !.marker = k, !.content = event[e].content,
                                !.event = e, !.status = "applied"]
  OBVIOUS
<1>4. op = [memory |-> new, marker |-> k, content |-> event[e].content, event |-> e,
            status |-> "applied", run |-> 1, outcome |-> NoJob]
  BY <1>3 DEF Op
<1>5. op \in Ops /\ op.memory = new /\ op.marker = <<"event", e>>
      /\ op.outcome = NoJob /\ op.status = "applied"
  <2>1. k \in Markers /\ new \in Nat /\ e \in Nat /\ NoJob \in JobRows
    BY <1>1, <1>2, MarkersOf, Bounds DEF Memories, Events, JobRows
  <2>2. op \in Ops
    BY <1>1, <1>4, <2>1 DEF Ops, EventStates
  <2>. QED
    BY <1>2, <1>4, <2>2
<1>6. PICK s : s = <<"row", "line", "event">>
  OBVIOUS
<1>7. s \in Seq(Kinds) /\ \A x \in Range(s) : x \in {"row", "line", "event"}
  BY <1>6, CandidateWrites
<1>8. Operate(op, s, {"line"})
  BY <1>2, <1>3, <1>6 DEF PromoteCandidate
<1>9. unchecked' = IF made' > made THEN unchecked \cup {made'} ELSE unchecked
  BY DEF PromoteCandidate
<1>10. PICK done : \E died \in BOOLEAN : Did(op, s, done, died)
  BY <1>1, <1>7, <1>8, Operated
<1>11. PICK died \in BOOLEAN : Did(op, s, done, died)
  BY <1>10
<1>12. crashes' \in 0..MaxCrashes /\ UNCHANGED <<mode, version, editor, suggested>>
  BY <1>1, <1>7, <1>8, Operated
<1>13. "revise" \notin done /\ "job" \notin done
  BY <1>7, <1>11 DEF Did
<1>14. Fits(op, done)
  BY <1>1, <1>5, <1>13 DEF Fits, EventStates
<1>15. Write(op, done)
  BY <1>11 DEF Did
<1>16. \A m \in Memories : doc'[<<"memory", m>>] = doc[<<"memory", m>>]
  <2>1. doc' = doc \/ doc' = [doc EXCEPT ![<<"event", e>>] = op.content]
    BY <1>5, <1>15 DEF Write, WithLine
  <2>2. <<"event", e>> \in Markers /\ doc \in Documents
    BY <1>1, MarkersOf DEF MemoryRows
  <2>. QED
    BY <2>1, <2>2, MarkersOf DEF Documents
<1>17. CASE "row" \notin done
  <2>1. UNCHANGED <<made, row, apart>>
    BY <1>11, <1>15, <1>17 DEF Write, Did
  <2>2. unchecked' = unchecked
    BY <1>1, <1>9, <2>1 DEF MemoryRows
  <2>3. MemoryTypeOK'
    BY <1>1, <1>5, <1>7, <1>11, <1>12, <1>14, <2>1, <2>2, OperateTyped DEF MemoryRows
  <2>. QED
    BY <1>12, <1>16, <2>1, <2>2, <2>3
       DEF MemoryInv, Numbered, LinesSpeakTrue, Agreement, NoContradiction, Stored, EditorBehind
<1>18. CASE "row" \in done
  <2>1. /\ made' = new /\ row' = [row EXCEPT ![new] = op.content]
        /\ apart' = apart \cup {new} /\ unchecked' = unchecked \cup {new}
    BY <1>1, <1>5, <1>9, <1>11, <1>15, <1>18, Bounds DEF Write, Did, WithRow, MemoryRows
  <2>2. \A m \in Memories \ {new} : row'[m] = row[m]
    BY <1>1, <2>1 DEF MemoryRows
  <2>3. unchecked' \subseteq 1..made'
    BY <1>1, <2>1, Bounds DEF MemoryRows
  <2>4. MemoryTypeOK'
    BY <1>1, <1>5, <1>7, <1>11, <1>12, <1>14, <2>3, OperateTyped
  <2>5. Numbered'
    BY <1>1, <2>1, <2>2, Bounds DEF MemoryInv, Numbered, MemoryRows, Memories
  <2>6. LinesSpeakTrue' /\ Agreement'
    BY <1>16, <2>1, <2>2 DEF MemoryInv, LinesSpeakTrue, Agreement, NoContradiction, Stored
  <2>. QED
    BY <1>12, <2>4, <2>5, <2>6 DEF MemoryInv, EditorBehind
<1>. QED
  BY <1>17, <1>18

LEMMA RewriteInv ==
  ASSUME MemoryInv, NEW m \in Memories, NEW content \in Contents \cup {Nothing},
         Rewrite(m, content), revised' \in [Memories -> Seq(Contents \X Contents)]
  PROVE  MemoryInv'
<1>1. /\ row[m] # Nothing
      /\ row' = [row EXCEPT ![m] = content]
      /\ unchecked' = unchecked \cup {m} /\ apart' = apart \cup {m}
      /\ UNCHANGED <<made, others, doc, event, mode, job, live, version, editor, crashes,
                     suggested>>
  BY DEF Rewrite
<1>2. MemoryRows /\ Settings
  BY MemoryParts DEF MemoryInv
<1>3. m \in 1..made
  BY <1>1, <1>2, Bounds DEF MemoryInv, Numbered, Memories, MemoryRows
<1>4. MemoryRows' /\ Settings'
  BY <1>1, <1>2, <1>3 DEF MemoryRows, Settings
<1>5. MemoryTypeOK'
  BY <1>4, MemoryParts DEF MemoryTypeOK, MemoryRows, Settings, JobRows
<1>6. \A n \in Memories \ {m} : row'[n] = row[n]
  BY <1>1, <1>2 DEF MemoryRows
<1>7. Numbered'
  BY <1>1, <1>2, <1>3, <1>6 DEF MemoryInv, Numbered, MemoryRows
<1>8. LinesSpeakTrue' /\ Agreement'
  BY <1>1, <1>6 DEF MemoryInv, LinesSpeakTrue, Agreement, NoContradiction, Stored
<1>. QED
  BY <1>1, <1>5, <1>7, <1>8 DEF MemoryInv, EditorBehind

LEMMA MemoryRoutesInv ==
  ASSUME MemoryInv, NEW m \in Memories, UpdateMemory(m) \/ DeleteMemory(m)
  PROVE  MemoryInv'
<1>1. revised \in [Memories -> Seq(Contents \X Contents)]
  BY DEF MemoryInv, MemoryTypeOK
<1>2. CASE UpdateMemory(m)
  BY <1>1, <1>2, RewriteInv DEF UpdateMemory
<1>3. CASE DeleteMemory(m)
  <2>1. <<>> \in Seq(Contents \X Contents)
    OBVIOUS
  <2>2. revised' \in [Memories -> Seq(Contents \X Contents)]
    BY <1>1, <1>3, <2>1 DEF DeleteMemory
  <2>. QED
    BY <1>3, <2>2, RewriteInv DEF DeleteMemory
<1>. QED
  BY <1>2, <1>3

-----------------------------------------------------------------------------
(* The editor.                                                             *)
LEMMA SyncedFacts ==
  ASSUME MemoryInv
  PROVE  /\ Synced.doc = doc /\ Synced.number \in Nat \ {0}
         /\ version.number <= Synced.number
         /\ Synced.number = editor.number => editor.doc = doc
<1>1. /\ version.number \in Nat /\ editor.number \in Nat
      /\ editor.number <= version.number
  BY Bounds DEF MemoryInv, MemoryTypeOK, EditorBehind
<1>2. CASE version.number = 0 \/ version.doc # doc
  <2>1. Synced = [number |-> version.number + 1, doc |-> doc]
    BY <1>2 DEF Synced
  <2>. QED
    BY <1>1, <2>1
<1>3. CASE ~(version.number = 0 \/ version.doc # doc)
  <2>1. Synced = version
    BY <1>3 DEF Synced
  <2>. QED
    BY <1>1, <1>3, <2>1 DEF MemoryInv, EditorBehind
<1>. QED
  BY <1>2, <1>3

LEMMA OpenEditorInv ==
  ASSUME MemoryInv, OpenEditor
  PROVE  MemoryInv'
<1>1. /\ Synced.number <= MaxVersions /\ version' = Synced
      /\ editor' = [number |-> Synced.number, doc |-> doc]
      /\ UNCHANGED <<made, row, others, revised, doc, event, mode, job, live, crashes,
                     unchecked, apart, suggested>>
  BY DEF OpenEditor
<1>2. Synced.doc = doc /\ Synced.number \in Nat
  BY SyncedFacts
<1>3. MemoryRows /\ Settings
  BY MemoryParts DEF MemoryInv
<1>4. MemoryRows' /\ Settings'
  BY <1>1, <1>2, <1>3, Bounds DEF MemoryRows, Settings
<1>5. MemoryTypeOK'
  BY <1>4, MemoryParts DEF MemoryTypeOK, MemoryRows, Settings, JobRows
<1>. QED
  BY <1>1, <1>2, <1>5
     DEF MemoryInv, Numbered, LinesSpeakTrue, Agreement, NoContradiction, Stored, EditorBehind

LEMMA SaveInv ==
  ASSUME MemoryInv, Save
  PROVE  MemoryInv' /\ (doc' # doc => editor.doc = doc)
<1>1. /\ editor.number > 0 /\ Synced.number < MaxVersions /\ editor' = Blank
      /\ UNCHANGED <<made, row, others, revised, event, mode, job, unchecked, suggested>>
  BY DEF Save
<1>2. MemoryRows /\ Settings
  BY MemoryParts DEF MemoryInv
<1>3. Blank.number = 0 /\ Blank.doc \in Documents
  BY DEF Blank, Documents
<1>4. doc' # doc => editor.doc = doc
  BY SyncedFacts DEF Save
<1>5. /\ doc' \in Documents /\ version'.number \in 0..MaxVersions
      /\ version'.doc \in Documents /\ crashes' \in 0..MaxCrashes
      /\ live' \subseteq live
      /\ apart' = apart \cup {m \in 1..made : doc'[<<"memory", m>>] # doc[<<"memory", m>>]}
  <2>1. CASE /\ Synced.number # editor.number
             /\ version' = Synced /\ UNCHANGED <<doc, apart, live, crashes>>
    BY <1>1, <1>2, <2>1, SyncedFacts, Bounds DEF MemoryRows, Settings
  <2>2. CASE Synced.number = editor.number
    <3>1. /\ doc' \in Edited
          /\ apart' = apart \cup {m \in 1..made :
                                    doc'[<<"memory", m>>] # doc[<<"memory", m>>]}
          /\ \/ /\ version' = [number |-> Synced.number + 1, doc |-> doc']
                /\ UNCHANGED <<live, crashes>>
             \/ /\ crashes < MaxCrashes /\ crashes' = crashes + 1
                /\ version' = Synced /\ live' = {}
      BY <2>2 DEF Save
    <3>2. doc' \in Documents
      BY <1>2, <3>1 DEF Edited, Settings, Documents
    <3>. QED
      BY <1>1, <1>2, <3>1, <3>2, SyncedFacts, Bounds DEF MemoryRows, Settings
  <2>. QED
    BY <2>1, <2>2 DEF Save
<1>6. apart' \subseteq 1..made'
  BY <1>1, <1>2, <1>5 DEF MemoryRows
<1>7. MemoryRows' /\ Settings'
  BY <1>1, <1>2, <1>3, <1>5, <1>6, Bounds DEF MemoryRows, Settings
<1>8. MemoryTypeOK'
  BY <1>7, MemoryParts DEF MemoryTypeOK, MemoryRows, Settings, JobRows
<1>9. LinesSpeakTrue'
  <2>1. \A m \in Memories : row[m] # Nothing => m \in 1..made
    BY <1>2, Bounds DEF MemoryInv, Numbered, Memories, MemoryRows
  <2>. QED
    BY <1>1, <1>5, <2>1 DEF MemoryInv, LinesSpeakTrue
<1>10. EditorBehind'
  BY <1>1, <1>3, <1>5, Bounds DEF EditorBehind
<1>. QED
  BY <1>1, <1>4, <1>8, <1>9, <1>10 DEF MemoryInv, Numbered, Agreement, NoContradiction, Stored

-----------------------------------------------------------------------------
LEMMA MemoryPreserved == MemoryInv /\ [MemoryNext]_memoryVars => MemoryInv'
<1>. SUFFICES ASSUME MemoryInv, [MemoryNext]_memoryVars PROVE MemoryInv'
  OBVIOUS
<1>1. CASE Curator
  BY <1>1, CuratorInv
<1>2. ASSUME NEW r \in Runs, Enqueue(r) \/ Begin(r) PROVE MemoryInv'
  BY <1>2, EnqueueInv
<1>3. ASSUME NEW r \in Runs, FinishJob(r) PROVE MemoryInv'
  BY <1>3, FinishJobInv
<1>4. ASSUME NEW c \in Contents, Scan(c) PROVE MemoryInv'
  BY <1>4, MarkInv DEF Scan, EventStates
<1>5. ASSUME NEW e \in Events, Dismiss(e) PROVE MemoryInv'
  <2>1. event[e].content \in Contents \cup {Nothing} /\ "rejected" \in EventStates
    BY <1>5 DEF MemoryInv, MemoryTypeOK, Dismiss, EventStates
  <2>. QED
    BY <1>5, <2>1, MarkInv DEF Dismiss
<1>6. ASSUME NEW e \in Events, PromoteCandidate(e) PROVE MemoryInv'
  BY <1>6, PromoteCandidateInv
<1>7. ASSUME NEW m \in Memories, UpdateMemory(m) \/ DeleteMemory(m) PROVE MemoryInv'
  BY <1>7, MemoryRoutesInv
<1>8. CASE OpenEditor \/ Save
  BY <1>8, OpenEditorInv, SaveInv
<1>9. CASE UNCHANGED memoryVars
  BY <1>9 DEF memoryVars, MemoryInv, MemoryTypeOK, Numbered, LinesSpeakTrue,
     Agreement, NoContradiction, Stored, EditorBehind
<1>10. CASE RecordMemory \/ DropMemory
  BY <1>10, CountOthersInv
<1>. QED
  BY <1>1, <1>2, <1>3, <1>4, <1>5, <1>6, <1>7, <1>8, <1>9, <1>10 DEF MemoryNext, Review, Route

LEMMA MemoryAlways == MemorySpec => []MemoryInv
BY MemoryStarts, MemoryPreserved, PTL DEF MemorySpec

-----------------------------------------------------------------------------
(* The theorems.                                                           *)

\* Every row, document, version and job keeps its form, in every behaviour.
THEOREM MemoryTyped == MemorySpec => []MemoryTypeOK
BY MemoryAlways, PTL DEF MemoryInv

\* MEMORY.md says of a curated memory what its row says, unless a crash, a failed
\* write or the user came between the two writes of the curator, for any number
\* of memories, jobs and crashes.
THEOREM DocumentTellsRows == MemorySpec => []LinesSpeakTrue
BY MemoryAlways, PTL DEF MemoryInv

\* No two memories that the curator admitted after a search that showed it what
\* they repeat or oppose do so, in whatever order candidates, reviews, the user's
\* routes and changes of the mode come, where that relation sorts texts by topic.
THEOREM CuratedAgree == OneTopicEach => (MemorySpec => []NoContradiction)
<1>. SUFFICES ASSUME OneTopicEach PROVE MemorySpec => []NoContradiction
  OBVIOUS
<1>1. MemoryInv => NoContradiction
  BY DEF MemoryInv, Agreement
<1>. QED
  BY <1>1, MemoryAlways, PTL

\* Whatever the curator does, in each prefix of its writes a death may leave, the
\* content it replaces is in the memory's revisions.
THEOREM HistoryOfMemories == MemorySpec => NothingForgotten
<1>1. MemoryInv /\ [MemoryNext]_memoryVars => (Curator => Remembered)
  BY CuratorInv
<1>. QED
  BY <1>1, MemoryAlways, PTL DEF MemorySpec, NothingForgotten, Remembered

\* A save that changes the document is refused unless the editor was opened with
\* the present document: its number is the last version's, and then its text is.
THEOREM SavedInFullView == MemorySpec => EditorSeesAll
<1>1. MemoryInv /\ [MemoryNext]_memoryVars => (Save /\ doc' # doc => editor.doc = doc)
  BY SaveInv
<1>. QED
  BY <1>1, MemoryAlways, PTL DEF MemorySpec, EditorSeesAll

-----------------------------------------------------------------------------
(***************************************************************************)
(* Context.                                                                *)
(***************************************************************************)
(* The operators.                                                          *)
LEMMA Parameters ==
  /\ MaxRuns \in Nat /\ Threshold \in Nat /\ MaxCompactions \in Nat /\ MaxCrashes \in Nat
  /\ Recent \in Nat \ {0} /\ Cap \in Nat \ {0} /\ Keep \subseteq Nat \ {0}
  /\ Runs \subseteq Nat \ {0}
BY ContextAssumption, GatewayAssumption DEF Runs

LEMMA MinOf ==
  ASSUME NEW S \in SUBSET Nat, S # {}
  PROVE  Min(S) \in S /\ \A x \in S : Min(S) <= x
<1>1. PICK x \in S : \A y \in S : ~(y < x)
  <2>1. PICK x \in S : \A y \in S : <<y, x>> \notin OpToRel(<, Nat)
    BY WFMin, NatLessThanWellFounded
  <2>. QED
    BY <2>1 DEF OpToRel
<1>2. \A y \in S : x <= y
  BY <1>1
<1>. QED
  BY <1>1, <1>2 DEF Min

LEMMA MaxOf ==
  ASSUME NEW n \in Nat, NEW S \in SUBSET (1..n), S # {}
  PROVE  Max(S) \in S /\ \A x \in S : x <= Max(S)
<1>. DEFINE T == {n - x : x \in S}
<1>1. T \in SUBSET Nat /\ T # {}
  <2>1. \A x \in S : x \in Nat /\ n - x \in Nat
    OBVIOUS
  <2>. QED
    BY <2>1
<1>2. PICK t \in T : \A u \in T : t <= u
  BY <1>1, MinOf
<1>3. PICK x \in S : t = n - x
  BY <1>2
<1>4. ASSUME NEW y \in S PROVE y <= x
  <2>1. n - y \in T /\ x \in Nat /\ y \in Nat
    OBVIOUS
  <2>2. n - x <= n - y
    BY <1>2, <1>3, <2>1
  <2>. QED
    BY <2>1, <2>2
<1>. QED
  BY <1>3, <1>4 DEF Max

LEMMA FiniteNumbers ==
  ASSUME NEW n \in Nat, NEW S \in SUBSET (1..n)
  PROVE  IsFiniteSet(S) /\ Cardinality(S) \in Nat
<1>1. IsFiniteSet(1..n)
  BY FS_Interval
<1>. QED
  BY <1>1, FS_Subset, FS_CardinalityType

(* What is folded comes before what is told. *)
LEMMA FoldedFirst ==
  ASSUME NEW n \in Nat, NEW S \in SUBSET (1..n)
  PROVE  /\ Older(S) \subseteq S
         /\ \A x \in S \ Older(S), y \in Older(S) : y < x
<1>1. Older(S) \subseteq S
  BY DEF Older
<1>2. ASSUME NEW x \in S \ Older(S), NEW y \in Older(S), ~(y < x)
      PROVE  FALSE
  <2>1. Older(S) = S \ Newest(Recent, S)
    BY <1>2 DEF Older
  <2>2. /\ Cardinality({i \in S : i > x}) < Recent
        /\ ~(Cardinality({i \in S : i > y}) < Recent)
    BY <1>2, <2>1 DEF Newest
  <2>3. {i \in S : i > y} \subseteq {i \in S : i > x}
    <3>1. \A i \in S : i \in Nat
      OBVIOUS
    <3>2. x \in Nat /\ y \in Nat
      BY <1>1, <3>1
    <3>3. ASSUME NEW i \in S, i > y PROVE i > x
      BY <1>2, <3>1, <3>2, <3>3
    <3>. QED
      BY <3>3
  <2>4. IsFiniteSet({i \in S : i > x}) /\ Cardinality({i \in S : i > x}) \in Nat
    BY FiniteNumbers
  <2>5. /\ Cardinality({i \in S : i > y}) \in Nat
        /\ Cardinality({i \in S : i > y}) <= Cardinality({i \in S : i > x})
    BY <2>3, <2>4, FS_Subset, FS_CardinalityType
  <2>. QED
    BY <2>2, <2>4, <2>5, Parameters
<1>. QED
  BY <1>1, <1>2

LEMMA ShownAmong ==
  ASSUME NEW S, NEW T
  PROVE  Shown(S, T) \subseteq S
BY DEF Shown, Newest

-----------------------------------------------------------------------------
(* The invariant.                                                          *)
Manifests(N) ==
  [lifecycle : {"none", "COMPILED", "DISPATCHED", "ARCHIVED"},
   resumed : Runs \cup {0}, shown : SUBSET N, folded : SUBSET N, omitted : SUBSET N,
   upto : N \cup {0}]

Watermarks(N) == [run : Runs \cup {0}, message : N \cup {0}, backend : Runs \cup {0}]

SummaryFits(s, N) ==
  /\ s.version \in Nat \ {0} /\ s.count \in Nat \ {0}
  /\ {s.first, s.last} \subseteq s.folded /\ s.folded \subseteq N

Apart(s, t) == s.version # t.version /\ <<s.first, s.last>> # <<t.first, t.last>>

Messages == [run : Runs, role : Roles]

ContextRows ==
  /\ message \in Seq(Messages)
  /\ status \in [Runs -> Statuses] /\ phase \in [Runs -> Phases]
  /\ bound \in Runs \cup {0}
  /\ compactions \in 0..MaxCompactions /\ crashes \in 0..MaxCrashes
  /\ heard \subseteq Runs

Summaries ==
  /\ \A s \in summary : SummaryFits(s, Numbers)
  /\ \A s, t \in summary : s # t => Apart(s, t)

Named ==
  /\ manifest \in [Runs -> Manifests(Numbers)]
  /\ watermark \in Watermarks(Numbers)
  /\ agent \in [Runs -> SUBSET Numbers] /\ left \subseteq Numbers

LEMMA ContextParts == ContextTypeOK <=> ContextRows /\ Summaries /\ Named
BY DEF ContextTypeOK, ContextRows, Summaries, Named, Manifests, Watermarks,
   SummaryFits, Apart, Messages

\* Every run that was submitted has one message of the user, and none of its
\* agent before it ended.
Spoken ==
  /\ \A r \in Runs : status[r] # "none" =>
       \E n \in Numbers : message[n] = [run |-> r, role |-> "user"]
  /\ \A n \in Numbers :
       /\ status[message[n].run] # "none"
       /\ message[n].role = "assistant"
            => status[message[n].run] \notin {"queued", "running"}
  /\ \A m, n \in Numbers :
       message[m].role = "user" /\ message[m] = message[n] => m = n

\* How far a dispatch has come agrees with the status of its run and with what
\* was stored for it, and one run is under way at a time.
Phased ==
  /\ \A q, r \in Runs : status[q] = "running" /\ status[r] = "running" => q = r
  /\ \A r \in Runs :
       /\ status[r] \in {"none", "queued"} => phase[r] = "none"
       /\ status[r] = "running" => phase[r] \notin {"none", "over"}
       /\ Compiled(r) => phase[r] \notin {"none", "claimed"}
       /\ status[r] = "running" /\ phase[r] # "claimed" => Compiled(r)
       /\ r \in heard => phase[r] \in {"attached", "over"}

\* The CHOOSE of Latest finds a row.
HasLatest == summary # {} => \E s \in summary : \A t \in summary : t.version <= s.version

\* A summary accounts for all messages up to its last, and counts what it folds.
Covered(s) == 1..s.last \subseteq s.folded \cup left
InOrder(s) == s.folded \subseteq 1..s.last /\ s.count = Cardinality(s.folded)

Covers ==
  \A s \in summary : Covered(s) /\ (compactions = 0 => InOrder(s))

Unrepeated == compactions = 0 =>
  \A r \in Runs : manifest[r].shown \cap manifest[r].folded = {}

Omissions == \A r \in Runs : manifest[r].omitted \subseteq left

\* Whoever runs began the conversation, or was told which one to resume; and
\* nobody else can have bound it meanwhile.
Resumption ==
  /\ bound = 0 => heard = {}
  /\ bound # 0 => bound \in heard /\ Compiled(bound) /\ manifest[bound].resumed = 0
  /\ \A r \in Runs : status[r] = "running" /\ Compiled(r) =>
       IF r \in heard THEN Backend(r) = bound ELSE manifest[r].resumed = bound

ContextInv ==
  /\ ContextTypeOK /\ Spoken /\ Phased /\ HasLatest /\ Covers
  /\ HistoryComplete /\ Unrepeated /\ Omissions /\ Resumption /\ ResumedKnows

LEMMA ContextStarts == ContextInit => ContextInv
<1>. SUFFICES ASSUME ContextInit PROVE ContextInv
  OBVIOUS
<1>1. Numbers = {} /\ message \in Seq(Messages)
  BY DEF ContextInit, Numbers
<1>2. NoManifest \in Manifests(Numbers) /\ NoWatermark \in Watermarks(Numbers)
  BY DEF NoManifest, Manifests, NoWatermark, Watermarks
<1>3. ContextRows
  BY <1>1, Parameters DEF ContextInit, ContextRows, Statuses, Phases
<1>4. Summaries /\ HasLatest /\ Covers
  BY DEF ContextInit, Summaries, HasLatest, Covers
<1>5. Named
  BY <1>1, <1>2 DEF ContextInit, Named
<1>6. \A r \in Runs : manifest[r] = NoManifest /\ ~Compiled(r)
  BY DEF ContextInit, NoManifest, Compiled
<1>7. Spoken /\ Phased
  BY <1>1, <1>6 DEF ContextInit, Spoken, Phased
<1>8. HistoryComplete /\ Unrepeated /\ Omissions
  BY <1>6 DEF HistoryComplete, Unrepeated, Omissions, NoManifest
<1>9. Resumption /\ ResumedKnows
  BY <1>6 DEF ContextInit, Resumption, ResumedKnows
<1>. QED
  BY <1>3, <1>4, <1>5, <1>7, <1>8, <1>9, ContextParts DEF ContextInv

-----------------------------------------------------------------------------
(* What the invariant says of a run's own message and of the last summary. *)
LEMMA OwnOf ==
  ASSUME Spoken, NEW r \in Runs, status[r] # "none"
  PROVE  /\ Own(r) \in Numbers /\ message[Own(r)] = [run |-> r, role |-> "user"]
         /\ \A n \in Numbers : message[n] = [run |-> r, role |-> "user"] => n = Own(r)
<1>1. \E n \in Numbers : message[n] = [run |-> r, role |-> "user"]
  BY DEF Spoken
<1>2. /\ Own(r) \in Numbers /\ message[Own(r)] = [run |-> r, role |-> "user"]
  BY <1>1 DEF Own
<1>. QED
  BY <1>2 DEF Spoken

LEMMA LatestOf ==
  ASSUME HasLatest, Summaries, Covers
  PROVE  /\ summary = {} => Latest = NoSummary
         /\ summary # {} => Latest \in summary
         /\ \A t \in summary : t.version <= Latest.version
         /\ Latest.version \in Nat /\ Latest.count \in Nat
         /\ Latest.folded \subseteq Numbers
         /\ Latest.version # 0 => Latest \in summary
         /\ Covered(Latest) /\ (compactions = 0 => InOrder(Latest))
<1>1. CASE summary = {}
  <2>1. Latest = NoSummary
    BY <1>1 DEF Latest
  <2>2. NoSummary.version = 0 /\ NoSummary.count = 0 /\ NoSummary.folded = {} /\ NoSummary.last = 0
    BY DEF NoSummary
  <2>. QED
    BY <1>1, <2>1, <2>2, FS_EmptySet DEF Covered, InOrder
<1>2. CASE summary # {}
  <2>1. Latest \in summary /\ \A t \in summary : t.version <= Latest.version
    BY <1>2 DEF Latest, HasLatest
  <2>. QED
    BY <1>2, <2>1 DEF Summaries, SummaryFits, Covers
<1>. QED
  BY <1>1, <1>2

-----------------------------------------------------------------------------
(* Steps that only move runs on: the log of messages may grow, a manifest    *)
(* changes in its lifecycle alone, and nothing is forgotten.                 *)
Grows ==
  /\ message' \in Seq(Messages) /\ Len(message) <= Len(message')
  /\ \A n \in Numbers : message'[n] = message[n]

SameButLife ==
  \A r \in Runs :
    /\ manifest'[r].resumed = manifest[r].resumed /\ manifest'[r].shown = manifest[r].shown
    /\ manifest'[r].folded = manifest[r].folded
    /\ manifest'[r].omitted = manifest[r].omitted
    /\ manifest'[r].upto = manifest[r].upto
    /\ Compiled(r)' <=> Compiled(r)

Steady ==
  /\ UNCHANGED <<summary, bound, heard, left, compactions>>
  /\ Grows /\ SameButLife
  /\ \A r \in Runs : /\ agent[r] \subseteq agent'[r]
                     /\ status[r] # "none" => status'[r] # "none"
                     /\ status'[r] = "running" /\ Compiled(r) => status[r] = "running"
  /\ \A n \in Numbers' \ Numbers :
       bound # 0 /\ message'[n].run \in heard => n \in agent'[bound]

LEMMA Growth ==
  ASSUME message \in Seq(Messages),
         \/ message' = message
         \/ \E x \in Messages : message' = Append(message, x)
  PROVE  /\ Grows /\ Numbers \subseteq Numbers'
         /\ message' = message => Numbers' = Numbers
         /\ message' # message => /\ Len(message') = Len(message) + 1
                                  /\ Numbers' = Numbers \cup {Len(message')}
                                  /\ Len(message') \notin Numbers
<1>1. Len(message) \in Nat
  OBVIOUS
<1>2. CASE message' = message
  BY <1>1, <1>2 DEF Grows, Numbers
<1>3. ASSUME NEW x \in Messages, message' = Append(message, x)
      PROVE  /\ Grows /\ Len(message') = Len(message) + 1
             /\ Numbers' = Numbers \cup {Len(message')}
             /\ Len(message') \notin Numbers /\ message' # message
  <2>1. /\ message' \in Seq(Messages) /\ Len(message') = Len(message) + 1
        /\ \A n \in 1..Len(message) : message'[n] = message[n]
    BY <1>3
  <2>. QED
    BY <1>1, <2>1 DEF Grows, Numbers
<1>. QED
  BY <1>2, <1>3

LEMMA NumbersGrow ==
  ASSUME message \in Seq(Messages), Grows
  PROVE  Numbers \subseteq Numbers'
BY DEF Grows, Numbers

LEMMA OwnKept ==
  ASSUME message \in Seq(Messages), Spoken, Spoken', Grows,
         NEW r \in Runs, status[r] # "none", status'[r] # "none"
  PROVE  Own(r)' = Own(r)
<1>1. /\ Own(r) \in Numbers /\ message[Own(r)] = [run |-> r, role |-> "user"]
      /\ Numbers \subseteq Numbers'
  BY OwnOf, NumbersGrow
<1>2. message'[Own(r)] = [run |-> r, role |-> "user"] /\ Own(r) \in Numbers'
  BY <1>1 DEF Grows
<1>3. \A n \in Numbers' : message'[n] = [run |-> r, role |-> "user"] => n = Own(r)
  BY <1>2 DEF Spoken
<1>4. Own(r)' = CHOOSE n \in Numbers' : message'[n] = [run |-> r, role |-> "user"]
  BY DEF Own
<1>. QED
  BY <1>2, <1>3, <1>4

LEMMA HistoryKept ==
  ASSUME message \in Seq(Messages), Spoken, Spoken', Phased, HistoryComplete,
         Grows, SameButLife, left \subseteq left',
         \A r \in Runs : status[r] # "none" => status'[r] # "none"
  PROVE  HistoryComplete'
<1>. SUFFICES ASSUME NEW r \in Runs, Compiled(r)', manifest'[r].resumed = 0
              PROVE  Others(r)' \subseteq manifest'[r].shown \cup manifest'[r].folded \cup
                                          manifest'[r].omitted \cup left'
  BY DEF HistoryComplete
<1>1. Compiled(r) /\ manifest[r].resumed = 0
  BY DEF SameButLife
<1>2. Own(r)' = Own(r)
  BY <1>1, OwnKept DEF Phased
<1>3. Others(r)' = Others(r)
  BY <1>2 DEF Others, SameButLife
<1>. QED
  BY <1>1, <1>3 DEF HistoryComplete, SameButLife

LEMMA SteadyInv ==
  ASSUME ContextInv, Steady, ContextRows', Named', Spoken', Phased'
  PROVE  ContextInv'
<1>1. /\ message \in Seq(Messages) /\ ContextRows /\ Summaries /\ Named
      /\ Numbers \subseteq Numbers'
  BY ContextParts, NumbersGrow DEF ContextInv, ContextRows, Steady
<1>2. ContextTypeOK'
  <2>1. Summaries'
    BY <1>1 DEF Summaries, SummaryFits, Apart, Steady
  <2>. QED
    BY <2>1, ContextParts DEF ContextTypeOK, ContextRows, Summaries, Named,
       Manifests, Watermarks,
                           SummaryFits, Apart, Messages
<1>3. HistoryComplete'
  BY <1>1, HistoryKept DEF ContextInv, Steady
<1>4. HasLatest' /\ Covers'
  BY DEF ContextInv, Steady, HasLatest, Covers, Covered, InOrder
<1>5. Unrepeated' /\ Omissions'
  BY DEF ContextInv, Steady, SameButLife, Unrepeated, Omissions
<1>6. Resumption'
  <2>1. bound \in Runs \/ bound = 0
    BY <1>1 DEF ContextRows
  <2>2. \A r \in Runs : Backend(r)' = Backend(r)
    BY DEF Backend, Steady, SameButLife
  <2>. QED
    BY <2>1, <2>2 DEF ContextInv, Steady, SameButLife, Resumption
<1>7. ResumedKnows'
  <2>. SUFFICES ASSUME bound # 0
                PROVE  /\ Others(bound)' \subseteq agent'[bound] \cup left
                       /\ \A n \in Numbers' : message'[n].run \in heard => n \in agent'[bound]
    BY DEF ResumedKnows, Steady
  <2>1. bound \in Runs /\ bound \in heard /\ Compiled(bound)
    BY <1>1 DEF ContextInv, Resumption, ContextRows
  <2>2. Own(bound)' = Own(bound) /\ bound' = bound
    BY <1>1, <2>1, OwnKept DEF ContextInv, Phased, Steady
  <2>3. Others(bound)' = Others(bound)
    BY <2>1, <2>2 DEF Others, Steady, SameButLife
  <2>4. Others(bound)' \subseteq agent'[bound] \cup left
    BY <2>1, <2>3 DEF ContextInv, ResumedKnows, Steady
  <2>5. \A n \in Numbers : message'[n].run \in heard => n \in agent'[bound]
    BY <2>1 DEF ContextInv, ResumedKnows, Steady, Grows
  <2>. QED
    BY <2>4, <2>5 DEF Steady
<1>. QED
  BY <1>2, <1>3, <1>4, <1>5, <1>6, <1>7 DEF ContextInv

LEMMA NamedKept ==
  ASSUME Named, Numbers \subseteq Numbers'
  PROVE  /\ manifest \in [Runs -> Manifests(Numbers')]
         /\ watermark \in Watermarks(Numbers')
         /\ agent \in [Runs -> SUBSET Numbers'] /\ left \subseteq Numbers'
<1>1. \A m \in Manifests(Numbers) : m \in Manifests(Numbers')
  BY DEF Manifests
<1>2. manifest \in [Runs -> Manifests(Numbers')]
  BY <1>1 DEF Named
<1>3. watermark \in Watermarks(Numbers')
  BY DEF Named, Watermarks
<1>. QED
  BY <1>2, <1>3 DEF Named

LEMMA SubmitInv ==
  ASSUME ContextInv, NEW r \in Runs, Submit(r)
  PROVE  ContextInv'
<1>1. /\ ContextRows /\ Named /\ Spoken /\ Phased
      /\ message' = Append(message, [run |-> r, role |-> "user"])
      /\ status' = [status EXCEPT ![r] = "queued"]
      /\ UNCHANGED <<phase, manifest, summary, bound, watermark, compactions,
                     crashes, agent, heard, left>>
      /\ status[r] = "none"
  BY ContextParts, Parameters DEF ContextInv, Submit
<1>2. [run |-> r, role |-> "user"] \in Messages
  BY DEF Messages, Roles
<1>3. /\ Grows /\ Numbers \subseteq Numbers' /\ Len(message') = Len(message) + 1
      /\ Numbers' = Numbers \cup {Len(message')} /\ Len(message') \notin Numbers
      /\ message'[Len(message')] = [run |-> r, role |-> "user"]
  <2>1. Len(message') = Len(message) + 1
    BY <1>1, <1>2 DEF ContextRows
  <2>2. message' # message
    BY <1>1, <2>1 DEF ContextRows
  <2>. QED
    BY <1>1, <1>2, <2>2, Growth DEF ContextRows
<1>4. ContextRows'
  BY <1>1, <1>3 DEF ContextRows, Statuses, Grows
<1>5. Named'
  BY <1>1, <1>3, NamedKept DEF Named
<1>6. Spoken'
  <2>1. ASSUME NEW q \in Runs, status'[q] # "none"
        PROVE  \E n \in Numbers' : message'[n] = [run |-> q, role |-> "user"]
    <3>1. CASE q = r
      BY <1>3, <3>1
    <3>2. CASE q # r
      <4>1. PICK n \in Numbers : message[n] = [run |-> q, role |-> "user"]
        BY <1>1, <2>1, <3>2 DEF Spoken, ContextRows
      <4>. QED
        BY <1>3, <4>1 DEF Grows
    <3>. QED
      BY <3>1, <3>2
  <2>2. \A n \in Numbers : message[n] \in Messages /\ message[n].run # r
    <3>1. \A n \in Numbers : message[n] \in Messages
      BY <1>1 DEF ContextRows, Numbers
    <3>2. \A n \in Numbers : message[n].run # r
      BY <1>1 DEF Spoken
    <3>. QED
      BY <3>1, <3>2
  <2>3. ASSUME NEW n \in Numbers'
        PROVE  /\ status'[message'[n].run] # "none"
               /\ message'[n].role = "assistant"
                    => status'[message'[n].run] \notin {"queued", "running"}
    <3>1. CASE n \in Numbers
      <4>1. message'[n] = message[n] /\ message[n].run \in Runs \ {r}
        BY <1>3, <2>2, <3>1 DEF Grows, Messages
      <4>. QED
        BY <1>1, <3>1, <4>1 DEF Spoken, ContextRows
    <3>2. CASE n = Len(message')
      BY <1>1, <1>3, <3>2 DEF ContextRows
    <3>. QED
      BY <1>3, <3>1, <3>2
  <2>4. \A m, n \in Numbers' :
          message'[m].role = "user" /\ message'[m] = message'[n] => m = n
    <3>1. \A n \in Numbers : message'[n] = message[n] /\ message'[n].run # r
      BY <1>3, <2>2 DEF Grows
    <3>2. message'[Len(message')].run = r
      BY <1>3
    <3>. SUFFICES ASSUME NEW m \in Numbers', NEW n \in Numbers',
                         message'[m].role = "user", message'[m] = message'[n]
                  PROVE  m = n
      OBVIOUS
    <3>3. CASE m \in Numbers /\ n \in Numbers
      <4>1. message[m] = message[n] /\ message[m].role = "user"
        BY <3>1, <3>3
      <4>. QED
        BY <1>1, <3>3, <4>1 DEF Spoken
    <3>4. CASE m \notin Numbers \/ n \notin Numbers
      BY <1>3, <3>1, <3>2, <3>4
    <3>. QED
      BY <3>3, <3>4
  <2>. QED
    BY <2>1, <2>3, <2>4 DEF Spoken
<1>7. Phased'
  BY <1>1 DEF Phased, ContextRows, Compiled
<1>8. Steady
  <2>1. SameButLife
    BY <1>1 DEF SameButLife, Compiled
  <2>2. r \notin heard
    BY <1>1 DEF Phased
  <2>3. \A q \in Runs : /\ status[q] # "none" => status'[q] # "none"
                        /\ status'[q] = "running" => status[q] = "running"
    BY <1>1 DEF ContextRows
  <2>. QED
    BY <1>1, <1>3, <2>1, <2>2, <2>3 DEF Steady
<1>. QED
  BY <1>4, <1>5, <1>6, <1>7, <1>8, SteadyInv

LEMMA ClaimInv ==
  ASSUME ContextInv, NEW r \in Runs, Claim(r)
  PROVE  ContextInv'
<1>1. /\ ContextRows /\ Named /\ Spoken /\ Phased
      /\ status[r] = "queued" /\ \A q \in Runs : status[q] # "running"
      /\ status' = [status EXCEPT ![r] = "running"]
      /\ phase' = [phase EXCEPT ![r] = "claimed"]
      /\ UNCHANGED <<message, manifest, summary, bound, watermark, compactions,
                     crashes, agent, heard, left>>
  BY ContextParts DEF ContextInv, Claim, Claimable
<1>2. Grows /\ Numbers' = Numbers
  BY <1>1, Growth DEF ContextRows
<1>3. ContextRows' /\ Named'
  BY <1>1, <1>2 DEF ContextRows, Named, Statuses, Phases
<1>4. Spoken'
  <2>1. \A n \in Numbers : message[n] \in Messages
    BY <1>1 DEF ContextRows, Numbers
  <2>. QED
    BY <1>1, <1>2, <2>1 DEF Spoken, ContextRows, Messages
<1>5. phase[r] = "none" /\ ~Compiled(r) /\ r \notin heard
  BY <1>1 DEF Phased
<1>6. Phased'
  BY <1>1, <1>5 DEF Phased, ContextRows, Compiled
<1>7. Steady
  <2>1. SameButLife
    BY <1>1 DEF SameButLife, Compiled
  <2>. QED
    BY <1>1, <1>2, <1>5, <2>1 DEF Steady, ContextRows
<1>. QED
  BY <1>3, <1>4, <1>6, <1>7, SteadyInv

LEMMA StartInv ==
  ASSUME ContextInv, NEW r \in Runs, Start(r)
  PROVE  ContextInv'
<1>1. /\ ContextRows /\ Named /\ Spoken /\ Phased
      /\ phase[r] = "compiled" /\ phase' = [phase EXCEPT ![r] = "started"]
      /\ UNCHANGED <<message, status, manifest, summary, bound, watermark,
                     compactions, crashes, agent, heard, left>>
  BY ContextParts DEF ContextInv, Start
<1>2. Grows /\ Numbers' = Numbers
  BY <1>1, Growth DEF ContextRows
<1>3. ContextRows' /\ Named' /\ Spoken'
  BY <1>1, <1>2 DEF ContextRows, Named, Phases, Spoken
<1>4. Phased'
  BY <1>1 DEF Phased, ContextRows, Compiled
<1>5. Steady
  BY <1>1, <1>2 DEF Steady, SameButLife, Compiled
<1>. QED
  BY <1>3, <1>4, <1>5, SteadyInv

(* A worker is attached, by its dispatch or after a crash. *)
LEMMA AttachedInv ==
  ASSUME ContextInv, NEW r \in Runs, phase[r] = "started", status[r] = "running", Attached(r),
         UNCHANGED <<message, status, summary, bound, compactions, agent, heard, left>>,
         crashes' \in 0..MaxCrashes
  PROVE  ContextInv'
<1>1. /\ ContextRows /\ Named /\ Spoken /\ Phased /\ Compiled(r)
      /\ manifest' = [manifest EXCEPT ![r] = [manifest[r] EXCEPT !.lifecycle = "DISPATCHED"]]
      /\ watermark' = [run |-> r, message |-> Own(r), backend |-> bound]
      /\ phase' = [phase EXCEPT ![r] = "attached"]
  BY ContextParts DEF ContextInv, Attached, Phased
<1>2. Grows /\ Numbers' = Numbers
  BY <1>1, Growth DEF ContextRows
<1>3. ContextRows' /\ Spoken'
  BY <1>1, <1>2 DEF ContextRows, Phases, Spoken
<1>4. manifest' \in [Runs -> Manifests(Numbers)] /\ SameButLife
  <2>1. manifest[r] \in Manifests(Numbers)
    BY <1>1 DEF Named
  <2>2. /\ [manifest[r] EXCEPT !.lifecycle = "DISPATCHED"] \in Manifests(Numbers)
        /\ LET m == [manifest[r] EXCEPT !.lifecycle = "DISPATCHED"]
           IN /\ m.resumed = manifest[r].resumed /\ m.shown = manifest[r].shown
              /\ m.folded = manifest[r].folded /\ m.omitted = manifest[r].omitted
              /\ m.upto = manifest[r].upto /\ m.lifecycle # "none"
    BY <2>1 DEF Manifests
  <2>. QED
    BY <1>1, <2>2 DEF SameButLife, Compiled, Named
<1>5. Named'
  <2>1. Own(r) \in Numbers
    BY <1>1, OwnOf
  <2>. QED
    BY <1>1, <1>2, <1>4, <2>1 DEF Named, Watermarks, ContextRows
<1>6. Phased'
  BY <1>1, <1>4 DEF Phased, ContextRows, SameButLife
<1>7. Steady
  BY <1>2, <1>4 DEF Steady
<1>. QED
  BY <1>3, <1>5, <1>6, <1>7, SteadyInv

(* A run ends, with or without an answer; how far its dispatch has come is   *)
(* over or left as it is.                                                    *)
EndStates == {"completed", "failed", "interrupted", "cancelled"}

LEMMA EndInv ==
  ASSUME ContextInv, NEW r \in Runs, NEW end \in EndStates, NEW answered \in BOOLEAN,
         status[r] \in {"queued", "running"}, End(r, end, answered),
         answered => r \in heard /\ status[r] = "running" /\ phase[r] = "attached",
         \/ phase' = [phase EXCEPT ![r] = "over"]
         \/ phase' = phase,
         UNCHANGED <<summary, bound, watermark, compactions, heard, left>>,
         crashes' \in 0..MaxCrashes
  PROVE  ContextInv'
<1>1. /\ ContextRows /\ Named /\ Spoken /\ Phased /\ Resumption
      /\ status' = [status EXCEPT ![r] = end]
      /\ manifest' = [manifest EXCEPT ![r] = Archived(manifest[r])]
      /\ end \notin {"none", "queued", "running"} /\ end \in Statuses
  BY ContextParts DEF ContextInv, End, EndStates, Statuses
<1>2. /\ answered => /\ message' = Append(message, [run |-> r, role |-> "assistant"])
                     /\ agent' = [agent EXCEPT ![Backend(r)] = @ \cup {Len(message')}]
      /\ ~answered => UNCHANGED <<message, agent>>
  BY DEF End
<1>3. [run |-> r, role |-> "assistant"] \in Messages
  BY DEF Messages, Roles
<1>4. /\ Grows /\ Numbers \subseteq Numbers'
      /\ ~answered => Numbers' = Numbers
      /\ answered => /\ Numbers' = Numbers \cup {Len(message')}
                     /\ Len(message') \notin Numbers
                     /\ message'[Len(message')] = [run |-> r, role |-> "assistant"]
  <2>1. CASE answered
    <3>1. Len(message') = Len(message) + 1 /\ message' # message
      BY <1>1, <1>2, <1>3, <2>1 DEF ContextRows
    <3>. QED
      BY <1>1, <1>2, <1>3, <2>1, <3>1, Growth DEF ContextRows
  <2>2. CASE ~answered
    BY <1>1, <1>2, <2>2, Growth DEF ContextRows
  <2>. QED
    BY <2>1, <2>2
<1>5. ContextRows'
  BY <1>1, <1>4 DEF ContextRows, Phases, Grows
<1>6. manifest' \in [Runs -> Manifests(Numbers)] /\ SameButLife
  <2>1. manifest[r] \in Manifests(Numbers)
    BY <1>1 DEF Named
  <2>2. /\ Archived(manifest[r]) \in Manifests(Numbers)
        /\ LET m == Archived(manifest[r])
           IN /\ m.resumed = manifest[r].resumed /\ m.shown = manifest[r].shown
              /\ m.folded = manifest[r].folded /\ m.omitted = manifest[r].omitted
              /\ m.upto = manifest[r].upto
              /\ m.lifecycle # "none" <=> manifest[r].lifecycle # "none"
    BY <2>1 DEF Manifests, Archived
  <2>. QED
    BY <1>1, <2>2 DEF SameButLife, Compiled, Named
<1>7. Backend(r) \in Runs /\ (answered => Backend(r) = bound)
  <2>1. manifest[r].resumed \in Runs \cup {0}
    BY <1>1 DEF Named, Manifests
  <2>2. answered => Compiled(r)
    BY <1>1 DEF Phased
  <2>. QED
    BY <1>1, <2>1, <2>2 DEF Backend, Resumption
<1>8. /\ agent' \in [Runs -> SUBSET Numbers']
      /\ \A q \in Runs : agent[q] \subseteq agent'[q]
      /\ answered => Len(message') \in agent'[bound]
  <2>1. agent \in [Runs -> SUBSET Numbers]
    BY <1>1 DEF Named
  <2>. QED
    BY <1>2, <1>4, <1>7, <2>1
<1>9. Named'
  <2>1. manifest' \in [Runs -> Manifests(Numbers')]
    <3>1. \A m \in Manifests(Numbers) : m \in Manifests(Numbers')
      BY <1>4 DEF Manifests
    <3>. QED
      BY <1>6, <3>1
  <2>2. watermark \in Watermarks(Numbers') /\ left \subseteq Numbers'
    BY <1>1, <1>4, NamedKept
  <2>. QED
    BY <1>8, <2>1, <2>2 DEF Named
<1>10. Spoken'
  <2>1. \A n \in Numbers : message'[n] = message[n] /\ message[n] \in Messages
    BY <1>1, <1>4 DEF ContextRows, Numbers, Grows
  <2>2. ASSUME NEW q \in Runs, status'[q] # "none"
        PROVE  \E n \in Numbers' : message'[n] = [run |-> q, role |-> "user"]
    <3>1. status[q] # "none"
      BY <1>1, <2>2 DEF ContextRows
    <3>2. PICK n \in Numbers : message[n] = [run |-> q, role |-> "user"]
      BY <1>1, <3>1 DEF Spoken
    <3>. QED
      BY <1>4, <2>1, <3>2
  <2>3. ASSUME NEW n \in Numbers'
        PROVE  /\ status'[message'[n].run] # "none"
               /\ message'[n].role = "assistant"
                    => status'[message'[n].run] \notin {"queued", "running"}
    <3>1. CASE n \in Numbers
      <4>1. message'[n] = message[n] /\ message[n].run \in Runs
        BY <2>1, <3>1 DEF Messages
      <4>. QED
        BY <1>1, <3>1, <4>1 DEF Spoken, ContextRows
    <3>2. CASE n \notin Numbers
      <4>1. message'[n].run = r
        BY <1>4, <3>2
      <4>. QED
        BY <1>1, <4>1 DEF ContextRows
    <3>. QED
      BY <3>1, <3>2
  <2>4. ASSUME NEW m \in Numbers', NEW n \in Numbers',
               message'[m].role = "user", message'[m] = message'[n]
        PROVE  m = n
    <3>1. m \in Numbers /\ n \in Numbers
      BY <1>4, <2>4
    <3>2. message[m].role = "user" /\ message[m] = message[n]
      BY <2>1, <2>4, <3>1
    <3>. QED
      BY <1>1, <3>1, <3>2 DEF Spoken
  <2>. QED
    BY <2>2, <2>3, <2>4 DEF Spoken
<1>11. Phased'
  <2>1. \A q \in Runs : Compiled(q)' <=> Compiled(q)
    BY <1>6 DEF SameButLife
  <2>2. status'[r] = end /\ \A q \in Runs \ {r} : status'[q] = status[q]
    BY <1>1 DEF ContextRows
  <2>3. \/ phase' = phase
        \/ phase'[r] = "over" /\ \A q \in Runs \ {r} : phase'[q] = phase[q]
    BY <1>1 DEF ContextRows
  <2>. QED
    BY <1>1, <2>1, <2>2, <2>3 DEF Phased
<1>12. Steady
  BY <1>1, <1>4, <1>6, <1>8 DEF Steady, ContextRows
<1>. QED
  BY <1>5, <1>9, <1>10, <1>11, <1>12, SteadyInv

(* A dispatch gives up on a run that has ended meanwhile. *)
LEMMA OverInv ==
  ASSUME ContextInv, NEW r \in Runs, phase[r] \in {"claimed", "compiled", "started"},
         status[r] # "running", phase' = [phase EXCEPT ![r] = "over"],
         UNCHANGED <<message, status, manifest, summary, bound, watermark,
                     compactions, agent, heard, left>>,
         crashes' \in 0..MaxCrashes
  PROVE  ContextInv'
<1>1. ContextRows /\ Named /\ Spoken /\ Phased
  BY ContextParts DEF ContextInv
<1>2. Grows /\ Numbers' = Numbers
  BY <1>1, Growth DEF ContextRows
<1>3. ContextRows' /\ Named' /\ Spoken'
  BY <1>1, <1>2 DEF ContextRows, Named, Phases, Spoken
<1>4. Phased'
  BY <1>1 DEF Phased, ContextRows, Compiled
<1>5. Steady
  BY <1>1, <1>2 DEF Steady, SameButLife, Compiled
<1>. QED
  BY <1>3, <1>4, <1>5, SteadyInv

LEMMA AttachInv ==
  ASSUME ContextInv, NEW r \in Runs, Attach(r)
  PROVE  ContextInv'
<1>1. crashes' \in 0..MaxCrashes
  BY ContextParts DEF ContextInv, ContextRows, Attach
<1>2. CASE status[r] = "running" /\ Attached(r)
  BY <1>1, <1>2, AttachedInv DEF Attach
<1>3. CASE status[r] # "running"
  BY <1>1, <1>3, OverInv DEF Attach
<1>. QED
  BY <1>2, <1>3 DEF Attach

LEMMA FinishInv ==
  ASSUME ContextInv, NEW r \in Runs, Finish(r)
  PROVE  ContextInv'
<1>1. crashes' \in 0..MaxCrashes /\ crashes' = crashes
  BY ContextParts DEF ContextInv, ContextRows, Finish
<1>2. PICK end \in EndStates, answered \in BOOLEAN :
        (end = "completed" \/ answered => r \in heard) /\ End(r, end, answered)
  BY DEF Finish, EndStates
<1>. QED
  BY <1>1, <1>2, EndInv DEF Finish

LEMMA FailDispatchInv ==
  ASSUME ContextInv, NEW r \in Runs, FailDispatch(r)
  PROVE  ContextInv'
<1>1. crashes' \in 0..MaxCrashes
  BY ContextParts DEF ContextInv, ContextRows, FailDispatch
<1>2. CASE status[r] = "running"
  BY <1>1, <1>2, EndInv DEF FailDispatch, EndStates
<1>3. CASE status[r] # "running"
  BY <1>1, <1>3, OverInv DEF FailDispatch
<1>. QED
  BY <1>2, <1>3

LEMMA CancelInv ==
  ASSUME ContextInv, NEW r \in Runs, Cancel(r)
  PROVE  ContextInv'
<1>1. crashes' \in 0..MaxCrashes /\ phase \in [Runs -> Phases]
  BY ContextParts DEF ContextInv, ContextRows, Cancel
<1>2. phase' = [phase EXCEPT ![r] = "over"] \/ phase' = phase
  BY <1>1 DEF Cancel
<1>. QED
  BY <1>1, <1>2, EndInv DEF Cancel, EndStates

LEMMA CrashInv ==
  ASSUME ContextInv, Crash
  PROVE  ContextInv'
<1>1. crashes' \in 0..MaxCrashes
  BY ContextParts, Parameters DEF ContextInv, ContextRows, Crash
<1>2. CASE UNCHANGED <<message, status, phase, manifest, watermark, agent>>
  <2>1. ContextRows /\ Named /\ Spoken /\ Phased
    BY ContextParts DEF ContextInv
  <2>2. Grows /\ Numbers' = Numbers
    BY <1>2, <2>1, Growth DEF ContextRows
  <2>3. UNCHANGED <<summary, bound, compactions, heard, left>>
    BY DEF Crash
  <2>4. ContextRows' /\ Named' /\ Spoken' /\ Phased'
    BY <1>1, <1>2, <2>1, <2>2, <2>3 DEF ContextRows, Named, Spoken, Phased, Compiled
  <2>5. Steady
    BY <1>2, <2>2, <2>3 DEF Steady, SameButLife, Compiled
  <2>. QED
    BY <2>4, <2>5, SteadyInv
<1>3. ASSUME NEW r \in Runs, phase[r] = "started", status[r] = "running", Attached(r),
             UNCHANGED <<message, status, agent>>
      PROVE  ContextInv'
  BY <1>1, <1>3, AttachedInv DEF Crash
<1>4. ASSUME NEW r \in Runs, status[r] = "running", End(r, "interrupted", FALSE),
             phase' = [phase EXCEPT ![r] = "over"], UNCHANGED watermark
      PROVE  ContextInv'
  BY <1>1, <1>4, EndInv DEF Crash, EndStates
<1>5. ASSUME NEW r \in Runs, phase[r] \in {"claimed", "compiled", "started"},
             status[r] # "running", phase' = [phase EXCEPT ![r] = "over"],
             UNCHANGED <<message, status, manifest, watermark, agent>>
      PROVE  ContextInv'
  BY <1>1, <1>5, OverInv DEF Crash
<1>. QED
  BY <1>2, <1>3, <1>4, <1>5 DEF Crash

-----------------------------------------------------------------------------
(* A worker is heard of: its agent has its prompt.                         *)

\* Of a run that is under way there is only the message that asked for it.
LEMMA OnlyOwn ==
  ASSUME ContextRows, Spoken, NEW r \in Runs, status[r] = "running",
         NEW n \in Numbers, message[n].run = r
  PROVE  n = Own(r)
<1>1. message[n] \in Messages
  BY DEF ContextRows, Numbers
<1>2. message[n].role # "assistant"
  BY DEF Spoken
<1>3. message[n] = [run |-> r, role |-> "user"]
  BY <1>1, <1>2 DEF Messages, Roles
<1>. QED
  BY <1>3, OwnOf

LEMMA HearInv ==
  ASSUME ContextInv, NEW r \in Runs, Hear(r)
  PROVE  ContextInv'
<1>1. /\ ContextRows /\ Summaries /\ Named /\ Spoken /\ Phased /\ Resumption /\ ResumedKnows
      /\ phase[r] = "attached" /\ status[r] = "running" /\ r \notin heard
      /\ heard' = heard \cup {r} /\ bound' = Bound(r)
      /\ watermark' = [watermark EXCEPT !.backend = bound']
      /\ agent' = [agent EXCEPT ![Backend(r)] =
                     agent[Backend(r)] \cup manifest[r].shown \cup manifest[r].folded
                       \cup {Own(r)}]
      /\ UNCHANGED <<message, status, phase, manifest, summary, compactions,
                     crashes, left>>
  BY ContextParts DEF ContextInv, Hear
<1>2. /\ Compiled(r) /\ manifest[r].resumed = bound
      /\ manifest[r].shown \subseteq Numbers /\ manifest[r].folded \subseteq Numbers
      /\ Own(r) \in Numbers
  BY <1>1, OwnOf DEF Phased, Resumption, Named, Manifests
<1>3. Backend(r) \in Runs /\ bound' = Backend(r) /\ (bound # 0 => bound' = bound)
      /\ (bound = 0 => bound' = r)
  BY <1>1, <1>2, Parameters DEF Backend, Bound, ContextRows
<1>4. /\ Numbers' = Numbers
      /\ \A q \in Runs : /\ Compiled(q)' = Compiled(q) /\ Own(q)' = Own(q)
                         /\ Others(q)' = Others(q) /\ Backend(q)' = Backend(q)
  BY <1>1 DEF Numbers, Compiled, Own, Others, Backend
<1>5. /\ agent' \in [Runs -> SUBSET Numbers]
      /\ agent[bound'] \cup manifest[r].shown \cup manifest[r].folded \cup {Own(r)}
           \subseteq agent'[bound']
  BY <1>1, <1>2, <1>3 DEF Named
<1>6. ContextRows' /\ Summaries' /\ Spoken'
  BY <1>1, <1>3, <1>4 DEF ContextRows, Summaries, SummaryFits, Apart, Spoken
<1>7. Named'
  BY <1>1, <1>3, <1>4, <1>5 DEF Named, Watermarks
<1>8. Phased'
  BY <1>1, <1>4 DEF Phased
<1>9. HasLatest' /\ Covers' /\ Unrepeated' /\ Omissions'
  BY <1>1 DEF ContextInv, HasLatest, Covers, Covered, InOrder, Unrepeated, Omissions
<1>10. HistoryComplete'
  BY <1>1, <1>4 DEF ContextInv, HistoryComplete
<1>11. Resumption'
  <2>1. bound' # 0 /\ bound' \in heard'
    BY <1>1, <1>2, <1>3, Parameters DEF Resumption
  <2>2. Compiled(bound') /\ manifest[bound'].resumed = 0
    BY <1>1, <1>2, <1>3 DEF Resumption
  <2>3. ASSUME NEW q \in Runs, status[q] = "running"
        PROVE  q \in heard' /\ Backend(q) = bound'
    BY <1>1, <1>3, <2>3 DEF Phased
  <2>. QED
    BY <1>1, <1>3, <1>4, <2>1, <2>2, <2>3 DEF Resumption
<1>12. ResumedKnows'
  <2>1. Others(bound') \subseteq agent'[bound'] \cup left
    <3>1. CASE bound = 0
      <4>1. bound' = r
        BY <1>3, <3>1
      <4>2. manifest[r].omitted \subseteq left
        BY DEF ContextInv, Omissions
      <4>3. Others(r) \subseteq manifest[r].shown \cup manifest[r].folded \cup
                                manifest[r].omitted \cup left
        BY <1>2, <3>1 DEF ContextInv, HistoryComplete
      <4>. QED
        BY <1>5, <4>1, <4>2, <4>3
    <3>2. CASE bound # 0
      BY <1>1, <1>3, <1>5, <3>2 DEF ResumedKnows
    <3>. QED
      BY <3>1, <3>2
  <2>2. ASSUME NEW n \in Numbers, message[n].run \in heard'
        PROVE  n \in agent'[bound']
    <3>1. CASE message[n].run = r
      BY <1>1, <1>5, <3>1, OnlyOwn
    <3>2. CASE message[n].run # r
      <4>1. bound # 0 /\ message[n].run \in heard
        BY <1>1, <2>2, <3>2 DEF Resumption
      <4>. QED
        BY <1>1, <1>3, <1>5, <4>1 DEF ResumedKnows
    <3>. QED
      BY <3>1, <3>2
  <2>. QED
    BY <1>1, <1>3, <1>4, <2>1, <2>2 DEF ResumedKnows
<1>. QED
  BY <1>6, <1>7, <1>8, <1>9, <1>10, <1>11, <1>12, <1>3, <1>4, <1>1, ContextParts
     DEF ContextInv, ContextTypeOK, ContextRows, Summaries, Named, Manifests,
            Watermarks, SummaryFits, Apart, Messages

-----------------------------------------------------------------------------
(* Summaries: what folding some messages into the latest one gives.        *)
LEMMA FoldedFacts ==
  ASSUME ContextRows, HasLatest, Summaries, Covers, NEW older \in SUBSET Numbers, older # {}
  PROVE  LET s == Folded(Latest, older)
         IN /\ SummaryFits(s, Numbers)
            /\ \A t \in summary : t.version < s.version
            /\ s.folded = Latest.folded \cup older
            /\ s.last \in older /\ \A n \in older : n <= s.last
            /\ s.count = Latest.count + Cardinality(older)
<1>. DEFINE s == Folded(Latest, older)
<1>1. /\ s.version = Latest.version + 1 /\ s.last = Max(older)
      /\ s.first = (IF Latest.version = 0 THEN Min(older) ELSE Latest.first)
      /\ s.count = Latest.count + Cardinality(older)
      /\ s.folded = Latest.folded \cup older
  BY DEF Folded
<1>2. /\ \A t \in summary : t.version <= Latest.version
      /\ Latest.version \in Nat /\ Latest.count \in Nat
      /\ Latest.folded \subseteq Numbers
      /\ Latest.version # 0 => Latest \in summary
  BY LatestOf
<1>3. Len(message) \in Nat
  BY DEF ContextRows
<1>4. Max(older) \in older /\ \A n \in older : n <= Max(older)
  BY <1>3, MaxOf DEF Numbers
<1>5. Min(older) \in older
  BY <1>3, MinOf DEF Numbers
<1>6. IsFiniteSet(older) /\ Cardinality(older) \in Nat \ {0}
  BY <1>3, FiniteNumbers, FS_EmptySet DEF Numbers
<1>7. {s.first, s.last} \subseteq s.folded /\ s.folded \subseteq Numbers
  BY <1>1, <1>2, <1>4, <1>5 DEF Summaries, SummaryFits
<1>8. \A t \in summary : t.version \in Nat
  BY DEF Summaries, SummaryFits
<1>9. s.version \in Nat \ {0} /\ s.count \in Nat \ {0} /\ \A t \in summary : t.version < s.version
  BY <1>1, <1>2, <1>6, <1>8
<1>. HIDE DEF s
<1>10. SummaryFits(s, Numbers)
  BY <1>7, <1>9 DEF SummaryFits
<1>. QED
  BY <1>1, <1>4, <1>9, <1>10 DEF s

\* Storing a summary that is newer than any.
LEMMA StoredLatest ==
  ASSUME NEW s, \A t \in summary : t.version < s.version,
         s.version \in Nat, \A t \in summary : t.version \in Nat,
         NEW kept \in SUBSET summary, summary' = kept \cup {s}
  PROVE  HasLatest'
<1>1. \A t \in kept \cup {s} : t.version <= s.version
  OBVIOUS
<1>. QED
  BY <1>1 DEF HasLatest

LEMMA StoredApart ==
  ASSUME Summaries, NEW s, SummaryFits(s, Numbers), Numbers' = Numbers,
         NEW kept \in SUBSET summary, kept \cap Clash(s) = {}, summary' = kept \cup {s}
  PROVE  Summaries'
<1>1. \A t \in kept : Apart(s, t) /\ Apart(t, s)
  BY DEF Clash, Apart
<1>. QED
  BY <1>1 DEF Summaries, SummaryFits, Apart

LEMMA CompactInv ==
  ASSUME ContextInv, NEW keep \in Keep, Compact(keep)
  PROVE  ContextInv'
<1>. DEFINE k == Len(message) - (IF Len(message) <= keep THEN 1 ELSE keep)
            new == Folded(Latest, 1..k)
            kept == summary \ Clash(new)
<1>1. /\ ContextRows /\ Summaries /\ Named /\ Spoken /\ Phased /\ HasLatest /\ Covers
      /\ compactions < MaxCompactions /\ compactions' = compactions + 1
      /\ Len(message) >= 2
      /\ summary' = kept \cup {new}
      /\ UNCHANGED <<message, status, phase, manifest, bound, watermark, crashes,
                     agent, heard, left>>
  BY ContextParts DEF ContextInv, Compact
<1>2. Len(message) \in Nat /\ keep \in Nat \ {0}
  BY <1>1, Parameters DEF ContextRows
<1>3. k \in Nat /\ 1 <= k /\ k <= Len(message)
  BY <1>1, <1>2
<1>. HIDE DEF k
<1>4. 1..k \in SUBSET Numbers /\ 1..k # {}
  <2>1. \A n \in 1..k : n \in 1..Len(message)
    BY <1>2, <1>3
  <2>2. 1 \in 1..k
    BY <1>3
  <2>. QED
    BY <2>1, <2>2 DEF Numbers
<1>5. /\ SummaryFits(new, Numbers)
      /\ \A t \in summary : t.version < new.version
      /\ new.folded = Latest.folded \cup (1..k)
      /\ new.last \in 1..k
  BY <1>1, <1>4, FoldedFacts
<1>. HIDE DEF new
<1>6. Numbers' = Numbers /\ compactions' # 0 /\ compactions' \in 0..MaxCompactions
  BY <1>1, Parameters DEF Numbers, ContextRows
<1>7. HasLatest'
  BY <1>1, <1>5, StoredLatest DEF Summaries, SummaryFits
<1>8. Summaries'
  <2>1. kept \in SUBSET summary /\ kept \cap Clash(new) = {}
    OBVIOUS
  <2>. HIDE DEF kept
  <2>. QED
    BY <1>1, <1>5, <1>6, <2>1, StoredApart
<1>9. Covers'
  <2>1. 1..new.last \subseteq new.folded
    BY <1>3, <1>5
  <2>. QED
    BY <1>1, <1>6, <2>1 DEF Covers, Covered
<1>10. ContextRows' /\ Named' /\ Spoken' /\ Phased'
  BY <1>1, <1>6 DEF ContextRows, Named, Spoken, Phased, Compiled
<1>11. HistoryComplete' /\ Omissions' /\ Resumption' /\ ResumedKnows'
  BY <1>1, <1>6 DEF ContextInv, HistoryComplete, Omissions, Resumption, ResumedKnows,
     Compiled,
                    Others, Own, Backend
<1>12. Unrepeated'
  BY <1>6 DEF Unrepeated
<1>. QED
  BY <1>7, <1>8, <1>9, <1>10, <1>11, <1>12, ContextParts
     DEF ContextInv, ContextTypeOK, ContextRows, Summaries, Named, Manifests,
            Watermarks, SummaryFits, Apart, Messages

(* The history that a prompt of a fresh AGY conversation tells, of which the *)
(* older messages may be folded first.                                       *)
LEMMA HistoryOf ==
  ASSUME ContextInv, NEW r \in Runs, status[r] = "running"
  PROVE  LET history == After(Latest.last, r)
         IN /\ history \subseteq Numbers
            /\ \A n \in Numbers \ {Own(r)} :
                 n \in history \/ n \in Latest.folded \cup left
            /\ compactions = 0 => /\ Latest.folded \cap history = {}
                                  /\ \A m \in Latest.folded, n \in history : m < n
<1>1. /\ ContextRows /\ Spoken /\ Len(message) \in Nat /\ Latest.folded \subseteq Numbers
      /\ Covered(Latest) /\ (compactions = 0 => InOrder(Latest))
      /\ Latest = NoSummary \/ Latest \in summary
  BY ContextParts, LatestOf DEF ContextInv, ContextRows
<1>2. Latest.last \in Nat
  BY <1>1, ContextParts DEF ContextInv, NoSummary, Summaries, SummaryFits, Numbers
<1>3. ASSUME NEW n \in Numbers \ {Own(r)}, n \notin After(Latest.last, r)
      PROVE  n \in Latest.folded \cup left
  <2>1. message[n].run # r
    BY <1>1, <1>3, OnlyOwn
  <2>2. ~(n > Latest.last)
    BY <1>3, <2>1 DEF After
  <2>3. n \in 1..Latest.last
    BY <1>1, <1>2, <1>3, <2>2 DEF Numbers
  <2>. QED
    BY <1>1, <2>3 DEF Covered
<1>4. ASSUME compactions = 0, NEW m \in Latest.folded, NEW n \in After(Latest.last, r)
      PROVE  m < n
  <2>1. m \in 1..Latest.last /\ n > Latest.last /\ n \in Nat
    BY <1>1, <1>4 DEF InOrder, After, Numbers
  <2>. QED
    BY <1>2, <2>1
<1>5. ASSUME compactions = 0, NEW m \in Latest.folded, m \in After(Latest.last, r)
      PROVE  FALSE
  BY <1>1, <1>4, <1>5 DEF Numbers
<1>6. After(Latest.last, r) \subseteq Numbers
  BY DEF After
<1>. QED
  BY <1>3, <1>4, <1>5, <1>6

\* What the summary of a compiler covers: all before its end but the message of
\* the run it is made for.
LEMMA CompilerFolds ==
  ASSUME ContextInv, NEW r \in Runs, status[r] = "running",
         NEW older, older = Older(After(Latest.last, r)), older # {}
  PROVE  LET s == Folded(Latest, older)
         IN /\ 1..s.last \subseteq s.folded \cup left \cup {Own(r)}
            /\ compactions = 0 => InOrder(s)
<1>. DEFINE s == Folded(Latest, older)
            history == After(Latest.last, r)
<1>1. /\ ContextRows /\ Summaries /\ HasLatest /\ Covers /\ Len(message) \in Nat
      /\ Latest.folded \subseteq Numbers /\ Latest.count \in Nat
      /\ compactions = 0 => InOrder(Latest)
  BY ContextParts, LatestOf DEF ContextInv, ContextRows
<1>2. /\ history \subseteq Numbers
      /\ \A n \in Numbers \ {Own(r)} : n \in history \/ n \in Latest.folded \cup left
      /\ compactions = 0 => /\ Latest.folded \cap history = {}
                            /\ \A m \in Latest.folded, n \in history : m < n
  BY HistoryOf
<1>. HIDE DEF history
<1>3. /\ older \subseteq history /\ older \subseteq Numbers
      /\ \A m \in history \ older, n \in older : n < m
  <2>1. history \in SUBSET (1..Len(message))
    BY <1>2 DEF Numbers
  <2>2. older = Older(history)
    BY DEF history
  <2>. QED
    BY <1>1, <1>2, <2>1, <2>2, FoldedFirst
<1>4. /\ s.folded = Latest.folded \cup older
      /\ s.last \in older /\ \A n \in older : n <= s.last
      /\ s.count = Latest.count + Cardinality(older)
  BY <1>1, <1>3, FoldedFacts
<1>. HIDE DEF s
<1>5. s.last \in Nat /\ s.last <= Len(message) /\ s.last \in history
  BY <1>1, <1>3, <1>4 DEF Numbers
<1>6. ASSUME NEW n \in 1..s.last
      PROVE  n \in s.folded \cup left \cup {Own(r)}
  <2>1. n \in Numbers
    BY <1>1, <1>5 DEF Numbers
  <2>2. CASE n \in history /\ n \notin older
    <3>1. s.last < n
      BY <1>3, <1>4, <2>2
    <3>. QED
      BY <1>5, <3>1
  <2>. QED
    BY <1>2, <1>4, <2>1, <2>2
<1>7. ASSUME compactions = 0 PROVE InOrder(s)
  <2>1. \A m \in Latest.folded \cup older : m \in Nat /\ 1 <= m
    BY <1>1, <1>3 DEF Numbers
  <2>2. \A m \in Latest.folded \cup older : m <= s.last
    BY <1>2, <1>4, <1>5, <1>7, <2>1
  <2>3. s.folded \subseteq 1..s.last
    BY <1>4, <1>5, <2>1, <2>2
  <2>4. IsFiniteSet(Latest.folded) /\ IsFiniteSet(older) /\ Latest.folded \cap older = {}
    BY <1>1, <1>2, <1>3, <1>7, FiniteNumbers DEF Numbers
  <2>5. /\ Cardinality(Latest.folded \cup older) =
             Cardinality(Latest.folded) + Cardinality(older) - Cardinality({})
        /\ Cardinality({}) = 0
        /\ Cardinality(Latest.folded) \in Nat /\ Cardinality(older) \in Nat
    BY <2>4, FS_Union, FS_EmptySet, FS_CardinalityType
  <2>6. Latest.count = Cardinality(Latest.folded)
    BY <1>1, <1>7 DEF InOrder
  <2>. QED
    BY <1>4, <2>3, <2>5, <2>6 DEF InOrder
<1>. QED
  BY <1>6, <1>7 DEF s

\* What the invariant needs to know of a compiled prompt.
PromptFits(r, p) ==
  LET told == left \cup p.manifest.omitted \cup
               UNION {({Own(r)} \cap 1..s.last) \ s.folded : s \in p.summary}
  IN /\ p.manifest \in Manifests(Numbers)
     /\ p.manifest.lifecycle # "none" /\ p.manifest.resumed = bound
     /\ bound = 0 =>
          (1..p.manifest.upto) \ {Own(r)} \subseteq
             p.manifest.shown \cup p.manifest.folded \cup told
     /\ compactions = 0 => p.manifest.shown \cap p.manifest.folded = {}
     /\ \/ p.summary = {}
        \/ \E s : /\ p.summary = {s} /\ SummaryFits(s, Numbers) /\ Clash(s) = {}
                  /\ \A t \in summary : t.version < s.version
                  /\ 1..s.last \subseteq s.folded \cup told
                  /\ compactions = 0 => InOrder(s)

LEMMA ResumedPrompt ==
  ASSUME ContextInv, NEW r \in Runs, bound # 0
  PROVE  PromptFits(r, Prompt(r, Latest.last))
<1>1. /\ bound \in Runs /\ Len(message) \in Nat
  BY ContextParts DEF ContextInv, ContextRows
<1>2. PICK m : m = [NoManifest EXCEPT !.lifecycle = "COMPILED", !.resumed = bound,
                                      !.upto = Len(message)]
  OBVIOUS
<1>3. Prompt(r, Latest.last) = [manifest |-> m, summary |-> {}]
  BY <1>2 DEF Prompt
<1>4. Len(message) \in Numbers \cup {0}
  BY <1>1 DEF Numbers
<1>5. /\ m \in Manifests(Numbers) /\ m.lifecycle = "COMPILED" /\ m.resumed = bound
      /\ m.shown = {} /\ m.folded = {}
  BY <1>1, <1>2, <1>4 DEF NoManifest, Manifests
<1>. QED
  BY <1>3, <1>5 DEF PromptFits

LEMMA FreshPrompt ==
  ASSUME ContextInv, NEW r \in Runs, status[r] = "running", bound = 0
  PROVE  PromptFits(r, Prompt(r, Latest.last))
<1>1. PICK history : history = After(Latest.last, r)
  OBVIOUS
<1>2. PICK older : older = Older(history)
  OBVIOUS
<1>3. PICK used : used = (IF older = {} THEN Latest ELSE Folded(Latest, older))
  OBVIOUS
<1>4. PICK shown : shown = Shown(history \ older, used.folded)
  OBVIOUS
<1>5. PICK m : m = [lifecycle |-> "COMPILED", resumed |-> 0,
                    shown |-> shown, folded |-> used.folded,
                    omitted |-> (history \ older) \ shown, upto |-> Len(message)]
  OBVIOUS
<1>6. PICK stored : stored = (IF older = {} \/ Clash(used) # {} THEN {} ELSE {used})
  OBVIOUS
<1>7. PICK p : p = Prompt(r, Latest.last)
  OBVIOUS
<1>8. p.manifest = m /\ p.summary = stored
  BY <1>1, <1>2, <1>3, <1>4, <1>5, <1>6, <1>7 DEF Prompt
<1>9. /\ ContextRows /\ Summaries /\ HasLatest /\ Covers /\ Spoken /\ Len(message) \in Nat
      /\ Latest.folded \subseteq Numbers
  BY ContextParts, LatestOf DEF ContextInv, ContextRows
<1>10. /\ history \subseteq Numbers
       /\ \A n \in Numbers \ {Own(r)} : n \in history \/ n \in Latest.folded \cup left
       /\ compactions = 0 => Latest.folded \cap history = {}
  BY <1>1, HistoryOf
<1>11. older \subseteq history /\ shown \subseteq history \ older
  BY <1>2, <1>4, <1>9, <1>10, FoldedFirst, ShownAmong DEF Numbers
<1>12. used.folded = Latest.folded \cup older
  <2>1. CASE older = {}
    BY <1>3, <2>1
  <2>2. CASE older # {}
    BY <1>3, <1>9, <1>10, <1>11, <2>2, FoldedFacts
  <2>. QED
    BY <2>1, <2>2
<1>13. /\ m \in Manifests(Numbers) /\ m.lifecycle = "COMPILED" /\ m.resumed = 0
       /\ m.shown = shown /\ m.folded = used.folded
       /\ m.omitted = (history \ older) \ shown /\ m.upto = Len(message)
  <2>1. Len(message) \in Numbers \cup {0}
    BY <1>9 DEF Numbers
  <2>2. used.folded \subseteq Numbers /\ shown \subseteq Numbers
    BY <1>9, <1>10, <1>11, <1>12
  <2>. QED
    BY <1>5, <1>10, <2>1, <2>2 DEF Manifests
<1>14. (1..m.upto) \ {Own(r)} \subseteq m.shown \cup m.folded \cup m.omitted \cup left
  BY <1>10, <1>12, <1>13 DEF Numbers
<1>15. compactions = 0 => m.shown \cap m.folded = {}
  BY <1>10, <1>11, <1>12, <1>13
<1>16. ASSUME stored # {}
       PROVE  /\ stored = {used} /\ SummaryFits(used, Numbers) /\ Clash(used) = {}
              /\ \A t \in summary : t.version < used.version
              /\ 1..used.last \subseteq used.folded \cup left \cup
                                         (({Own(r)} \cap 1..used.last) \ used.folded)
              /\ compactions = 0 => InOrder(used)
  <2>1. older # {} /\ Clash(used) = {} /\ stored = {used} /\ used = Folded(Latest, older)
    BY <1>3, <1>6, <1>16
  <2>2. SummaryFits(used, Numbers) /\ \A t \in summary : t.version < used.version
    BY <1>9, <1>10, <1>11, <2>1, FoldedFacts
  <2>3. /\ 1..used.last \subseteq used.folded \cup left \cup {Own(r)}
        /\ compactions = 0 => InOrder(used)
    BY <1>1, <1>2, <2>1, CompilerFolds
  <2>. QED
    BY <2>1, <2>2, <2>3
<1>. QED
  <2>1. CASE stored = {}
    BY <1>7, <1>8, <1>13, <1>14, <1>15, <2>1 DEF PromptFits
  <2>2. CASE stored # {}
    <3>1. UNION {({Own(r)} \cap 1..s.last) \ s.folded : s \in p.summary}
            = ({Own(r)} \cap 1..used.last) \ used.folded
      BY <1>8, <1>16, <2>2
    <3>. QED
      BY <1>7, <1>8, <1>13, <1>14, <1>15, <1>16, <2>2, <3>1 DEF PromptFits
  <2>. QED
    BY <2>1, <2>2

LEMMA CompileInv ==
  ASSUME ContextInv, NEW r \in Runs, Compile(r)
  PROVE  ContextInv'
<1>0. crashes' \in 0..MaxCrashes
  BY ContextParts DEF ContextInv, ContextRows, Compile
<1>1. CASE status[r] # "running"
  BY <1>0, <1>1, OverInv DEF Compile
<1>2. CASE status[r] = "running"
  <2>1. PICK p : p = Prompt(r, Latest.last)
    OBVIOUS
  <2>2. PICK kept : kept = left \cup p.manifest.omitted \cup
                    UNION {({Own(r)} \cap 1..s.last) \ s.folded : s \in p.summary}
    OBVIOUS
  <2>3. /\ ContextRows /\ Summaries /\ Named /\ Spoken /\ Phased /\ Resumption /\ HasLatest /\ Covers
        /\ phase[r] = "claimed"
        /\ manifest' = [manifest EXCEPT ![r] = p.manifest]
        /\ summary' = summary \cup p.summary
        /\ left' = kept
        /\ phase' = [phase EXCEPT ![r] = "compiled"]
        /\ UNCHANGED <<message, status, bound, watermark, compactions, crashes,
                       agent, heard>>
    BY <1>2, <2>1, <2>2, ContextParts DEF ContextInv, Compile, Prepared
  <2>4. PromptFits(r, p)
    BY <1>2, <2>1, ResumedPrompt, FreshPrompt
  <2>5. /\ p.manifest \in Manifests(Numbers)
        /\ p.manifest.lifecycle # "none" /\ p.manifest.resumed = bound
        /\ bound = 0 => (1..p.manifest.upto) \ {Own(r)} \subseteq
                           p.manifest.shown \cup p.manifest.folded \cup left'
        /\ compactions = 0 => p.manifest.shown \cap p.manifest.folded = {}
        /\ \/ p.summary = {}
           \/ \E s : /\ p.summary = {s} /\ SummaryFits(s, Numbers) /\ Clash(s) = {}
                     /\ \A t \in summary : t.version < s.version
                     /\ 1..s.last \subseteq s.folded \cup left'
                     /\ compactions = 0 => InOrder(s)
    BY <2>2, <2>3, <2>4 DEF PromptFits
  <2>6. /\ manifest'[r] = p.manifest /\ \A q \in Runs \ {r} : manifest'[q] = manifest[q]
        /\ manifest' \in [Runs -> Manifests(Numbers)]
        /\ left \subseteq left' /\ p.manifest.omitted \subseteq left'
    BY <2>2, <2>3, <2>5 DEF Named
  <2>7. Numbers' = Numbers /\ \A q \in Runs : Own(q)' = Own(q)
    BY <2>3 DEF Numbers, Own
  <2>8. r \notin heard /\ bound # r
    BY <2>3, Parameters DEF Phased, Resumption
  <2>9. Summaries' /\ HasLatest'
    <3>1. CASE p.summary = {}
      BY <2>3, <2>7, <3>1 DEF Summaries, SummaryFits, Apart, HasLatest
    <3>2. ASSUME NEW s, p.summary = {s}, SummaryFits(s, Numbers), Clash(s) = {},
                 \A t \in summary : t.version < s.version
          PROVE  Summaries' /\ HasLatest'
      <4>1. s.version \in Nat /\ \A t \in summary : t.version \in Nat
        BY <2>3, <3>2 DEF Summaries, SummaryFits
      <4>2. summary' = summary \cup {s} /\ summary \in SUBSET summary
            /\ summary \cap Clash(s) = {}
        BY <2>3, <3>2
      <4>3. HasLatest'
        BY <3>2, <4>1, <4>2, StoredLatest
      <4>4. Summaries'
        BY <2>3, <2>7, <3>2, <4>2, StoredApart
      <4>. QED
        BY <4>3, <4>4
    <3>. QED
      BY <2>5, <3>1, <3>2
  <2>10. Covers'
    <3>1. \A s \in summary : Covered(s)' /\ (compactions = 0 => InOrder(s))
      BY <2>3, <2>6 DEF Covers, Covered
    <3>2. \A s \in p.summary : Covered(s)' /\ (compactions = 0 => InOrder(s))
      BY <2>5 DEF Covered
    <3>. QED
      BY <2>3, <3>1, <3>2 DEF Covers, InOrder
  <2>11. left' \subseteq Numbers
    <3>1. Own(r) \in Numbers
      BY <1>2, <2>3, OwnOf
    <3>. QED
      BY <2>2, <2>3, <2>5, <3>1 DEF Named, Manifests
  <2>12. ContextRows' /\ Named' /\ Spoken'
    BY <2>3, <2>6, <2>7, <2>11 DEF ContextRows, Named, Spoken, Phases
  <2>13. Phased'
    BY <1>2, <2>3, <2>5, <2>6 DEF Phased, ContextRows, Compiled
  <2>14. HistoryComplete'
    <3>. SUFFICES ASSUME NEW q \in Runs, Compiled(q)', manifest'[q].resumed = 0
                  PROVE  Others(q)' \subseteq manifest'[q].shown \cup manifest'[q].folded \cup
                                              manifest'[q].omitted \cup left'
      BY DEF HistoryComplete
    <3>1. CASE q = r
      BY <2>5, <2>6, <2>7, <3>1 DEF Others
    <3>2. CASE q # r
      BY <2>6, <2>7, <3>2 DEF ContextInv, HistoryComplete, Compiled, Others
    <3>. QED
      BY <3>1, <3>2
  <2>15. Unrepeated' /\ Omissions'
    BY <2>3, <2>5, <2>6 DEF ContextInv, Unrepeated, Omissions
  <2>16. Resumption'
    <3>1. bound # 0 => bound \in Runs
      BY <2>3 DEF ContextRows
    <3>2. ASSUME NEW q \in Runs, status[q] = "running"
          PROVE  q = r
      BY <1>2, <2>3, <3>2 DEF Phased
    <3>. QED
      BY <2>3, <2>5, <2>6, <2>8, <3>1, <3>2 DEF Resumption, Compiled
  <2>17. ResumedKnows'
    <3>1. bound # 0 => Others(bound)' = Others(bound)
      BY <2>3, <2>6, <2>7, <2>8 DEF ContextRows, Others
    <3>. QED
      BY <2>3, <2>6, <2>7, <3>1 DEF ContextInv, ResumedKnows
  <2>. QED
    BY <2>3, <2>9, <2>10, <2>12, <2>13, <2>14, <2>15, <2>16, <2>17, ContextParts
       DEF ContextInv, ContextTypeOK, ContextRows, Summaries, Named, Manifests,
              Watermarks, SummaryFits, Apart, Messages
<1>. QED
  BY <1>1, <1>2

-----------------------------------------------------------------------------
LEMMA ContextPreserved == ContextInv /\ [ContextNext]_contextVars => ContextInv'
<1>. SUFFICES ASSUME ContextInv, [ContextNext]_contextVars PROVE ContextInv'
  OBVIOUS
<1>1. ASSUME NEW r \in Runs,
             \/ Submit(r) \/ Claim(r) \/ Compile(r) \/ Start(r) \/ Attach(r) \/ Hear(r)
             \/ Finish(r) \/ FailDispatch(r) \/ Cancel(r)
      PROVE  ContextInv'
  BY <1>1, SubmitInv, ClaimInv, CompileInv, StartInv, AttachInv, HearInv, FinishInv,
     FailDispatchInv, CancelInv
<1>2. ASSUME NEW keep \in Keep, Compact(keep)
      PROVE  ContextInv'
  BY <1>2, CompactInv
<1>3. CASE Crash
  BY <1>3, CrashInv
<1>4. CASE UNCHANGED contextVars
  BY <1>4 DEF contextVars, ContextInv, ContextTypeOK, Numbers, Spoken, Phased,
     HasLatest, Covers, Covered, InOrder,
              HistoryComplete, Unrepeated, Omissions, Resumption, ResumedKnows, Compiled,
              Others, Own, Backend
<1>. QED
  BY <1>1, <1>2, <1>3, <1>4 DEF ContextNext

LEMMA ContextAlways == ContextSpec => []ContextInv
BY ContextStarts, ContextPreserved, PTL DEF ContextSpec

\* Every message, manifest, summary and binding keeps its form, and the rows of
\* summaries stay apart, in every behaviour.
THEOREM ContextTyped == ContextSpec => []ContextTypeOK
<1>1. ContextInv => ContextTypeOK
  BY DEF ContextInv
<1>. QED
  BY <1>1, ContextAlways, PTL

\* However compactions of the user and of the compiler alternate, and wherever the
\* gateway dies, a fresh agent's prompt shows every earlier message or has a summary
\* that covers it, but for what its manifest reports or a compaction stepped over.
THEOREM NothingWithheld == ContextSpec => []HistoryComplete
<1>1. ContextInv => HistoryComplete
  BY DEF ContextInv
<1>. QED
  BY <1>1, ContextAlways, PTL

\* Unless the user compacts by hand, no prompt tells a message twice, and every
\* summary counts what it folds and leaves no gap.
THEOREM NothingRepeated == ContextSpec => []NothingTwice
<1>1. ASSUME ContextInv, compactions = 0, NEW s \in summary
      PROVE  s.count = Cardinality(s.folded) /\ (s.first..s.last) \ s.folded \subseteq left
  <2>1. Covered(s) /\ InOrder(s) /\ SummaryFits(s, Numbers)
    BY <1>1, ContextParts DEF ContextInv, Covers, Summaries
  <2>2. s.first \in Nat /\ s.last \in Nat /\ 1 <= s.first
    BY <2>1 DEF SummaryFits, Numbers
  <2>3. s.first..s.last \subseteq 1..s.last
    BY <2>2
  <2>. QED
    BY <2>1, <2>3 DEF Covered, InOrder
<1>2. ContextInv => NothingTwice
  BY <1>1 DEF ContextInv, NothingTwice, Unrepeated
<1>. QED
  BY <1>2, ContextAlways, PTL

\* The agent that is resumed without a history was given what it is taken to know,
\* in full or within a summary's range: whichever run began its conversation, and
\* whatever was asked and answered since.
THEOREM WhatIsResumed == ContextSpec => []ResumedKnows
<1>1. ContextInv => ResumedKnows
  BY DEF ContextInv
<1>. QED
  BY <1>1, ContextAlways, PTL
===============================================================================
