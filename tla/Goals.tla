-------------------------------- MODULE Goals --------------------------------
(***************************************************************************)
(* Persistent goals of one conversation: the routes that create, pause,    *)
(* resume and end a goal, and what RunManager._finalize does after a run   *)
(* has ended: count the turn, evaluate the acceptance criteria, record the *)
(* evaluation and go on with a continuation run (src/gravityclaw/goals.py, *)
(* manager.py, store.py, api.py).                                          *)
(*                                                                         *)
(* A run's life is the run manager's: here a run is queued, runs alone in  *)
(* its conversation, and ends in one of the ways RunManager.tla has for    *)
(* it.  Between a run's last transition and its evaluation _finalize gives *)
(* up the event loop once, so requests can come in between; the evaluation *)
(* is then one piece of code that the process can die in.                  *)
(***************************************************************************)
EXTENDS Gateway, FiniteSets

CONSTANTS MaxGoals,     \* bound: goals ever created
          MaxMessages,  \* bound: runs the user submits
          MaxResumes,   \* bound: resumptions of a paused goal
          Turns         \* max_turns of a goal

Goals == 1..MaxGoals
GoalStates == {"active", "paused", "completed", "cancelled", "failed"}
\* "stopped" stands for cancelled, interrupted and orphaned.
Ended == {"completed", "failed", "stopped"}
RunStates == {"queued", "running"} \cup Ended
Verdicts == {"continue", "done", "failed"}

ASSUME GoalsAssumption ==
  /\ {MaxGoals, MaxMessages, MaxResumes} \subseteq Nat
  /\ Turns \in Nat \ {0}

VARIABLES goal,     \* the rows of goals
          run,      \* the status of every run of the conversation
          sort,     \* the goal each run was made to continue, 0 for a message
          after,    \* ended runs whose follow-ups are still to come
          turns,    \* the rows of goal_evaluations
          messages, resumes,
          lost      \* auxiliary: a run ended, and nothing will follow it up

goalsVars == <<goal, run, sort, after, turns, messages, resumes, crashes, lost>>

NoGoal == [status |-> "none", criteria |-> FALSE, used |-> 0]

GoalRows ==
  [status : GoalStates \cup {"none"}, criteria : BOOLEAN, used : Nat]

GoalsTypeOK ==
  /\ goal \in [Goals -> GoalRows]
  /\ run \in [Runs -> RunStates \cup {"none"}]
  /\ sort \in [Runs -> 0..MaxGoals]
  /\ after \subseteq Runs
  /\ turns \subseteq [goal : Goals, run : Runs, turn : Nat, verdict : Verdicts]
  /\ messages \in 0..MaxMessages /\ resumes \in 0..MaxResumes
  /\ crashes \in 0..MaxCrashes
  /\ lost \in BOOLEAN

GoalsInit ==
  /\ goal = [g \in Goals |-> NoGoal]
  /\ run = [r \in Runs |-> "none"]
  /\ sort = [r \in Runs |-> 0]
  /\ after = {} /\ turns = {}
  /\ messages = 0 /\ resumes = 0 /\ crashes = 0
  /\ lost = FALSE

\* Store.get_active_goal: the goal that is active or paused, if there is one.
Current(g) == goal[g].status \in {"active", "paused"}
CurrentGoals == {g \in Goals : Current(g)}

\* RunManager.submit, with the number of the new run.
SubmitRun(g) ==
  \E r \in Runs :
    /\ \A q \in Runs : run[q] = "none" <=> q >= r
    /\ run' = [run EXCEPT ![r] = "queued"]
    /\ sort' = [sort EXCEPT ![r] = g]
    /\ lost' = FALSE

(***************************************************************************)
(* Requests.                                                               *)
(***************************************************************************)
Message ==
  /\ messages < MaxMessages
  /\ messages' = messages + 1
  /\ SubmitRun(0)
  /\ UNCHANGED <<goal, after, turns, resumes, crashes>>

CreateGoal(g) ==
  /\ CurrentGoals = {}
  /\ \A h \in Goals : goal[h] = NoGoal <=> h >= g
  /\ \E criteria \in BOOLEAN :
       goal' = [goal EXCEPT ![g] =
                  [status |-> "active", criteria |-> criteria, used |-> 0]]
  /\ UNCHANGED <<run, sort, after, turns, messages, resumes, crashes, lost>>

SetStatus(g, status) ==
  /\ goal' = [goal EXCEPT ![g].status = status]
  /\ UNCHANGED <<after, turns, messages, crashes>>

PauseGoal(g) ==
  /\ goal[g].status = "active"
  /\ SetStatus(g, "paused") /\ UNCHANGED <<run, sort, resumes, lost>>

ResumeGoal(g) ==
  /\ goal[g].status = "paused" /\ resumes < MaxResumes
  /\ resumes' = resumes + 1
  /\ SetStatus(g, "active") /\ SubmitRun(g)

CancelGoal(g) ==
  /\ goal[g].status \in GoalStates \ {"completed", "cancelled"}
  /\ SetStatus(g, "cancelled") /\ UNCHANGED <<run, sort, resumes, lost>>

CompleteGoal(g) ==
  /\ Current(g)
  /\ SetStatus(g, "completed") /\ UNCHANGED <<run, sort, resumes, lost>>

Request ==
  \/ Message
  \/ \E g \in Goals : \/ CreateGoal(g) \/ PauseGoal(g) \/ ResumeGoal(g)
                      \/ CancelGoal(g) \/ CompleteGoal(g)

(***************************************************************************)
(* Runs.                                                                   *)
(***************************************************************************)
Becomes(r, status) ==
  /\ run' = [run EXCEPT ![r] = status]
  /\ UNCHANGED <<goal, sort, turns, messages, resumes, crashes>>

Unfollowed(r, status) ==
  Becomes(r, status) /\ lost' = TRUE /\ UNCHANGED after

\* The oldest queued run of the conversation, while none of it is running.
StartRun(r) ==
  /\ run[r] = "queued"
  /\ \A q \in Runs : run[q] # "running" /\ (run[q] = "queued" => q >= r)
  /\ \/ Becomes(r, "running") /\ UNCHANGED <<after, lost>>
     \/ Unfollowed(r, "failed")                    \* the worker did not start

\* A slip: only a completed run is followed up.
FollowsCompleted(status) == status = "completed"

Follows(status) == status \in {"completed", "failed"}

\* The first half of _finalize: the outcome its events speak of.
RunEnds(r) ==
  /\ run[r] = "running"
  /\ \E status \in Ended :
       /\ Becomes(r, status)
       /\ after' = IF Follows(status) THEN after \cup {r} ELSE after
       /\ lost' = (lost \/ status = "stopped")

\* Every other way to end: cancelled, the worker gone, the monitor in error, the
\* sweep of reconcile.
RunStops(r) ==
  /\ run[r] \in {"queued", "running"}
  /\ \E status \in {"stopped", "failed"} :
       /\ run[r] = "queued" => status = "stopped"
       /\ Unfollowed(r, status)

\* Another settles a run whose monitor is between two awaits: _finalize ignores
\* that its own transition came too late, and the goal is evaluated by the outcome
\* its events speak of (a cancel request among them would end it there; it misses
\* one behind the first thousand).
RunIsOvertaken(r) ==
  /\ run[r] = "running"
  /\ Becomes(r, "stopped")
  /\ after' = after \cup {r} /\ UNCHANGED lost

RunStep(r) == StartRun(r) \/ RunEnds(r) \/ RunStops(r) \/ RunIsOvertaken(r)

(***************************************************************************)
(* _evaluate_goal.                                                         *)
(***************************************************************************)
\* The evaluator is handed the record _finalize began with, read while the run
\* was running: it never sees how the run ended.
Seen(r) == "running"

\* A slip: the budget is one turn too long.
ExhaustedLate(used) == used > Turns

Exhausted(used) == used >= Turns

\* GoalEvaluator.evaluate, after the turn was counted.
Verdict(criteria, used, seen, passed) ==
  IF criteria /\ seen # "failed" /\ passed THEN "done"
  ELSE IF Exhausted(used) THEN "failed" ELSE "continue"

Settled(status, verdict) ==
  IF verdict = "done" THEN "completed"
  ELSE IF verdict = "failed" THEN "failed" ELSE status

\* A slip: the goal is the one the run was submitted for.
GoalOfRun(r) == {g \in Goals : sort[r] = g /\ goal[g] # NoGoal}

GoalFor(r) == CurrentGoals

TurnOf(g) == goal[g].used + 1

\* What the commands and files the criteria name say: anything.
Checks == BOOLEAN

Judgement(r, g, verdict) ==
  [goal |-> g, run |-> r, turn |-> TurnOf(g), verdict |-> verdict]

\* The writes, in order: the count, the evaluation, and then the goal's status
\* or the continuation.  With fewer than three the process died.
Turn(r, g, verdict, written) ==
  /\ goal' = [goal EXCEPT
       ![g].used = IF written >= 1 THEN @ + 1 ELSE @,
       ![g].status = IF written = 3 THEN Settled(@, verdict) ELSE @]
  /\ turns' = IF written >= 2
              THEN turns \cup {Judgement(r, g, verdict)}
              ELSE turns
  /\ IF written = 3
     THEN /\ after' = after \ {r} /\ UNCHANGED crashes
          /\ IF verdict = "continue" THEN SubmitRun(g)
             ELSE UNCHANGED <<run, sort, lost>>
     ELSE /\ crashes < MaxCrashes /\ crashes' = crashes + 1
          /\ after' = {} /\ lost' = TRUE /\ UNCHANGED <<run, sort>>

Evaluate(r) ==
  /\ r \in after
  /\ \/ /\ GoalFor(r) = {}
        /\ after' = after \ {r}
        /\ UNCHANGED <<goal, run, sort, turns, crashes, lost>>
     \/ \E g \in GoalFor(r), passed \in Checks, written \in 0..3 :
          Turn(r, g, Verdict(goal[g].criteria, goal[g].used + 1, Seen(r), passed),
               written)
  /\ UNCHANGED <<messages, resumes>>

\* The process dies elsewhere: what was to follow a run is forgotten, and
\* reconciliation looks only at runs that are queued or running.
GatewayDies ==
  /\ crashes < MaxCrashes /\ crashes' = crashes + 1
  /\ after' = {} /\ lost' = (lost \/ after # {})
  /\ UNCHANGED <<goal, run, sort, turns, messages, resumes>>

Proceed == \E r \in Runs : StartRun(r) \/ RunEnds(r) \/ Evaluate(r)

GoalsNext ==
  \/ Request \/ GatewayDies
  \/ \E r \in Runs : RunStep(r) \/ Evaluate(r)

GoalsSpec == GoalsInit /\ [][GoalsNext]_goalsVars

\* The dispatcher and _finalize are tasks of the event loop and a worker ends by
\* itself or at its time limit.  Requests, crashes and lost workers owe nothing.
Fairness == WF_goalsVars(Proceed)

LiveSpec == GoalsSpec /\ Fairness

(***************************************************************************)
(* Properties.                                                             *)
(***************************************************************************)
\* A goal never takes more turns than it was given, one for each death of the
\* gateway between counting a turn and judging it apart: the chain of
\* continuations, the user's own messages and resumptions all draw on the one
\* budget.
TurnsWithinBudget == \A g \in Goals : goal[g].used <= Turns + crashes

\* Every counted turn has one evaluation, which names it and a run that ended,
\* and no run is a turn twice; only a death of the gateway leaves a gap.
EveryTurnJudged ==
  /\ \A g \in Goals :
       goal[g].used - Cardinality({t \in turns : t.goal = g}) \in 0..crashes
  /\ \A t, u \in turns : t.run = u.run \/ <<t.goal, t.turn>> = <<u.goal, u.turn>>
                           => t = u
  /\ \A t \in turns : /\ t.turn \in 1..goal[t.goal].used
                      /\ run[t.run] \in Ended

\* A goal that has ended takes no further turn and is not taken up again, also
\* when it ended while a run of it was queued, running or waiting to be judged.
EndedGoalsRest ==
  [][\A g \in Goals :
       goal[g].status \in {"completed", "cancelled", "failed"}
         => /\ goal'[g].used = goal[g].used
            /\ goal'[g].status \in {goal[g].status, "cancelled"}
            /\ \A r \in Runs : run[r] = "none" => sort'[r] # g]_goalsVars

\* An active goal that has taken a turn keeps going by itself until it is ended
\* or paused, unless a run of the conversation ended without a follow-up
\* (cancelled, interrupted, never started, or the gateway died).
GoalKeepsGoing ==
  \A g \in Goals : goal[g].status = "active" /\ goal[g].used > 0
                     ~> goal[g].status # "active" \/ lost

\* The code refutes this one (README, section 5): a failed run does not
\* complete a goal ("Run failed -- don't bother checking acceptance unless turns remain",
\* goals.py:71).
FailedRunEarnsNothing ==
  \A t \in turns : t.verdict = "done" => run[t.run] = "completed"

\* Nor does it keep this one: only a run that came to its own end takes a turn ("if
\* the completed run belongs to an active goal", manager.py:585).
OnlyFinishedRunsCount ==
  \A t \in turns : run[t.run] \in {"completed", "failed"}
==============================================================================
