---------------------------- MODULE PlanExecution ----------------------------
(***************************************************************************)
(* OrchestrationService.execute_plan: the tasks of a stored plan run level *)
(* by level, those of a level in parallel, and the next level starts when  *)
(* every promise of the previous one is settled.                           *)
(*                                                                         *)
(* Nothing stops a second execute_plan of the same plan, before or after   *)
(* the first has ended: both routes that call it only look the plan up.    *)
(* The executions (Runs) share the plan's status and its tasks' statuses,  *)
(* and keep the counters and the event stream to themselves.               *)
(*                                                                         *)
(* JavaScript runs one execution at a time between two awaits, so an       *)
(* action is the code from one await to the next: Start up to the first    *)
(* Promise.all, SettleTask the code after an agent's answer, NextLevel and *)
(* Finish the code after a level's Promise.all.                            *)
(***************************************************************************)
EXTENDS Naturals, FiniteSets

CONSTANTS Task,    \* the plan's tasks
          Runs,    \* the calls of execute_plan for it
          Plans    \* the plans considered, as left by create_plan

(* For each task: the tasks it depends on, its level (task_depths) and its *)
(* place in the order topological_sort returns.                            *)
PlanShape == [dependencies : [Task -> SUBSET Task],
              depth        : [Task -> Nat],
              position     : [Task -> Nat]]

ASSUME PlanAssumption ==
  /\ IsFiniteSet(Task)
  /\ Task # {}
  /\ Plans \subseteq PlanShape

VARIABLES
  plan,              \* the plan executed
  plan_status,       \* plan.status
  task_status,       \* task.status of each task of the plan
  phase,             \* of each run: not called, executing, returned
  next_depth,        \* the loop variable: the level a run looks at next
  last_event,        \* the last event a run has emitted about each task
  tasks_completed,
  tasks_failed,
  outcome            \* the status in the result a run returns

vars == <<plan, plan_status, task_status, phase, next_depth, last_event,
          tasks_completed, tasks_failed, outcome>>

TaskStatus == {"pending", "running", "completed", "failed", "skipped"}
TaskEvent  == {"none", "task_started", "task_completed", "task_failed", "task_skipped"}
Settled    == {"task_completed", "task_failed", "task_skipped"}

TypeOK ==
  /\ plan \in Plans
  /\ plan_status \in {"pending", "executing", "completed", "failed"}
  /\ task_status \in [Task -> TaskStatus]
  /\ phase \in [Runs -> {"idle", "executing", "returned"}]
  /\ next_depth \in [Runs -> Nat]
  /\ last_event \in [Runs -> [Task -> TaskEvent]]
  /\ tasks_completed \in [Runs -> Nat]
  /\ tasks_failed \in [Runs -> Nat]
  /\ outcome \in [Runs -> {"none", "completed", "partial", "failed"}]

Deps(t)    == plan.dependencies[t]
TasksAt(d) == {t \in Task : plan.depth[t] = d}
InFlight(r) == {t \in Task : last_event[r][t] = "task_started"}

-----------------------------------------------------------------------------
Init ==
  /\ plan \in Plans
  /\ plan_status = "pending"
  /\ task_status = [t \in Task |-> "pending"]
  /\ phase = [r \in Runs |-> "idle"]
  /\ next_depth = [r \in Runs |-> 0]
  /\ last_event = [r \in Runs |-> [t \in Task |-> "none"]]
  /\ tasks_completed = [r \in Runs |-> 0]
  /\ tasks_failed = [r \in Runs |-> 0]
  /\ outcome = [r \in Runs |-> "none"]

(* Mutation: levels can be passed over. *)
AnyLevelFrom(d, from) == TasksAt(d) # {} /\ from <= d

(* The loop passes over the depths no task has. *)
FirstLevelFrom(d, from) ==
  /\ TasksAt(d) # {}
  /\ \A t \in Task : plan.depth[t] >= from => plan.depth[t] >= d
  /\ from <= d

(* Mutation: any dependency that is not completed makes a task skipped. *)
DepsNotCompleted(t) == \E d \in Deps(t) : task_status[d] # "completed"

(* The level's tasks are looked at one after the other, and the ones       *)
(* already looked at have left the status an earlier run gave them.        *)
DepsFailed(t) ==
  \E d \in Deps(t) :
    /\ task_status[d] = "failed"
    /\ ~ (plan.depth[d] = plan.depth[t] /\ plan.position[d] < plan.position[t])

Skipped(d) == {t \in TasksAt(d) : DepsFailed(t)}

EnterLevel(r, d) ==
  /\ task_status' = [t \in Task |->
       IF t \notin TasksAt(d) THEN task_status[t]
       ELSE IF t \in Skipped(d) THEN "skipped" ELSE "running"]
  /\ last_event' = [last_event EXCEPT ![r] = [t \in Task |->
       IF t \notin TasksAt(d) THEN last_event[r][t]
       ELSE IF t \in Skipped(d) THEN "task_skipped" ELSE "task_started"]]
  /\ next_depth' = [next_depth EXCEPT ![r] = d + 1]
  /\ UNCHANGED <<plan, tasks_completed, tasks_failed, outcome>>

Start(r) ==
  /\ phase[r] = "idle"
  /\ phase' = [phase EXCEPT ![r] = "executing"]
  /\ plan_status' = "executing"
  /\ \E d \in {plan.depth[t] : t \in Task} :
       FirstLevelFrom(d, 0) /\ EnterLevel(r, d)

(* Mutation: the level's Promise.all is not awaited. *)
NextLevelUnawaited(r) ==
  /\ phase[r] = "executing"
  /\ \E d \in {plan.depth[t] : t \in Task} :
       FirstLevelFrom(d, next_depth[r]) /\ EnterLevel(r, d)
  /\ UNCHANGED <<plan_status, phase>>

NextLevel(r) ==
  /\ phase[r] = "executing"
  /\ InFlight(r) = {}
  /\ \E d \in {plan.depth[t] : t \in Task} :
       FirstLevelFrom(d, next_depth[r]) /\ EnterLevel(r, d)
  /\ UNCHANGED <<plan_status, phase>>

(* Mutations: a failure is not counted; a task that is running for any     *)
(* execution is settled.                                                   *)
SettleUncounted(r, t, success) ==
  /\ t \in InFlight(r)
  /\ task_status' = [task_status EXCEPT ![t] =
       IF success THEN "completed" ELSE "failed"]
  /\ last_event' = [last_event EXCEPT ![r][t] =
       IF success THEN "task_completed" ELSE "task_failed"]
  /\ tasks_completed' = [tasks_completed EXCEPT ![r] = IF success THEN @ + 1 ELSE @]
  /\ UNCHANGED <<tasks_failed, plan, plan_status, phase, next_depth, outcome>>
SettleByStatus(r, t, success) ==
  /\ task_status[t] = "running"
  /\ task_status' = [task_status EXCEPT ![t] =
       IF success THEN "completed" ELSE "failed"]
  /\ last_event' = [last_event EXCEPT ![r][t] =
       IF success THEN "task_completed" ELSE "task_failed"]
  /\ UNCHANGED <<tasks_completed, tasks_failed, plan, plan_status, phase,
                 next_depth, outcome>>

(* The agent answers (get_agent or execute_task can also throw, which is   *)
(* handled as an answer of failure).                                       *)
SettleTask(r, t, success) ==
  /\ t \in InFlight(r)
  /\ task_status' = [task_status EXCEPT ![t] =
       IF success THEN "completed" ELSE "failed"]
  /\ last_event' = [last_event EXCEPT ![r][t] =
       IF success THEN "task_completed" ELSE "task_failed"]
  /\ IF success
     THEN /\ tasks_completed' = [tasks_completed EXCEPT ![r] = @ + 1]
          /\ UNCHANGED tasks_failed
     ELSE /\ tasks_failed' = [tasks_failed EXCEPT ![r] = @ + 1]
          /\ UNCHANGED tasks_completed
  /\ UNCHANGED <<plan, plan_status, phase, next_depth, outcome>>

(* Mutation: the comparison admits equality. *)
VerdictNeverFailed(failed) ==
  IF failed = 0 THEN "completed"
  ELSE IF failed <= Cardinality(Task) THEN "partial" ELSE "failed"

Verdict(failed) ==
  IF failed = 0 THEN "completed"
  ELSE IF failed < Cardinality(Task) THEN "partial" ELSE "failed"

Ended(r) ==
  /\ phase[r] = "executing"
  /\ InFlight(r) = {}
  /\ \A t \in Task : plan.depth[t] < next_depth[r]

(* Mutation: the plan is told only of a success. *)
FinishSilent(r) ==
  /\ Ended(r)
  /\ phase' = [phase EXCEPT ![r] = "returned"]
  /\ outcome' = [outcome EXCEPT ![r] = Verdict(tasks_failed[r])]
  /\ plan_status' = IF tasks_failed[r] = 0 THEN "completed" ELSE plan_status
  /\ UNCHANGED <<plan, task_status, next_depth, last_event,
                 tasks_completed, tasks_failed>>

Finish(r) ==
  /\ Ended(r)
  /\ phase' = [phase EXCEPT ![r] = "returned"]
  /\ outcome' = [outcome EXCEPT ![r] = Verdict(tasks_failed[r])]
  /\ plan_status' = IF Verdict(tasks_failed[r]) = "completed"
                    THEN "completed" ELSE "failed"
  /\ UNCHANGED <<plan, task_status, next_depth, last_event,
                 tasks_completed, tasks_failed>>

Answer(r, t) == \E success \in BOOLEAN : SettleTask(r, t, success)

Step(r) == Start(r) \/ NextLevel(r) \/ Finish(r) \/ \E t \in Task : Answer(r, t)

Next == \E r \in Runs : Step(r)

(* An execution that has been entered goes on: awaits resume, and every    *)
(* agent answers in the end.  Nobody has to call execute_plan.             *)
Fairness ==
  \A r \in Runs :
    /\ WF_vars(NextLevel(r))
    /\ WF_vars(Finish(r))
    /\ \A t \in Task : WF_vars(Answer(r, t))

Spec == Init /\ [][Next]_vars /\ Fairness

-----------------------------------------------------------------------------
(* What the shape of a plan can promise: levels put a task above all it    *)
(* depends on.  calculate_task_depths ensures it for a graph with no       *)
(* cycle (LevelsSeparateIffAcyclic of PlanCreation).                       *)
LayeredPlan(p) ==
  \A t \in Task : \A d \in p.dependencies[t] : p.depth[d] < p.depth[t]

(* The action of run r that starts task t. *)
Launches(r, t) ==
  last_event[r][t] = "none" /\ last_event'[r][t] = "task_started"

-----------------------------------------------------------------------------
(* Properties of every execution, whatever other executions do. *)

(* execute_plan never starts a task of a layered plan before it has heard  *)
(* of everything the task depends on: the levels are a barrier.            *)
LaunchAfterDependenciesSettle ==
  [][LayeredPlan(plan) =>
       \A r \in Runs, t \in Task :
         Launches(r, t) => \A d \in Deps(t) : last_event[r][d] \in Settled]_vars

(* The stream a client follows tells one story per task: started then      *)
(* completed or failed, or skipped; never twice, and nothing after the     *)
(* execution has returned.                                                 *)
EventsInOrder ==
  [][\A r \in Runs, t \in Task :
       last_event'[r][t] # last_event[r][t] =>
         /\ phase'[r] = "executing"
         /\ \/ /\ last_event[r][t] = "none"
               /\ last_event'[r][t] \in {"task_started", "task_skipped"}
            \/ /\ last_event[r][t] = "task_started"
               /\ last_event'[r][t] \in {"task_completed", "task_failed"}]_vars

(* The summary that execute_plan returns agrees with its event stream:     *)
(* every task was settled, and the counts are those of the events.         *)
SummaryMatchesEvents ==
  \A r \in Runs :
    /\ tasks_completed[r] = Cardinality({t \in Task : last_event[r][t] = "task_completed"})
    /\ tasks_failed[r] = Cardinality({t \in Task : last_event[r][t] = "task_failed"})
    /\ phase[r] = "returned" => \A t \in Task : last_event[r][t] \in Settled

(* A plan does not stay "executing" when nobody executes it, nor a task    *)
(* "running" when no execution waits for it.                               *)
NothingLeftRunning ==
  /\ plan_status = "executing" => \E r \in Runs : phase[r] = "executing"
  /\ \A t \in Task :
       task_status[t] = "running" => \E r \in Runs : t \in InFlight(r)

-----------------------------------------------------------------------------
(* Properties of a layered plan that is executed once. *)

(* A task is started only if no dependency has failed, and skipped only if *)
(* one has.                                                                *)
SkipExactlyOnFailure ==
  [][\A r \in Runs, t \in Task :
       last_event[r][t] = "none" /\ last_event'[r][t] # "none" =>
         (last_event'[r][t] = "task_skipped"
            <=> \E d \in Deps(t) : last_event[r][d] = "task_failed")]_vars

(* The returned status says what happened: "completed" that every task     *)
(* was done, "failed" that every task was tried and failed, "partial"      *)
(* that some failed; and the plan's own status agrees.                     *)
OutcomeIsHonest ==
  \A r \in Runs : phase[r] = "returned" =>
    /\ outcome[r] = "completed" <=> \A t \in Task : task_status[t] = "completed"
    /\ outcome[r] = "failed" <=> \A t \in Task : task_status[t] = "failed"
    /\ plan_status = "completed" <=> outcome[r] = "completed"

(* What the comment "Check if dependencies succeeded" over the skip rule   *)
(* says: a started task has all its dependencies completed.                *)
DependenciesSucceeded ==
  [][\A r \in Runs, t \in Task :
       Launches(r, t) => \A d \in Deps(t) : task_status[d] = "completed"]_vars
=============================================================================
