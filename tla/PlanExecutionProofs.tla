------------------------- MODULE PlanExecutionProofs -------------------------
(***************************************************************************)
(* What holds of execute_plan for every plan and any number of executions. *)
(* Then of a plan executed once: what the statuses and the returned        *)
(* verdict mean, and that the execution implements PlanContract.  Then of  *)
(* execute_plan behind its routes: PlanStream implements PlanExecution,    *)
(* what the rows of agent_runs can say, and what a page shows.             *)
(***************************************************************************)
EXTENDS PlanRefinement, PlanStream, FiniteSetTheorems, WellFoundedInduction, TLAPS

(***************************************************************************)
(* The levels as a barrier, run by run: what lies below next_depth has     *)
(* been taken up, what lies more than one level below it is settled.       *)
(***************************************************************************)
TakenUpBelow ==
  \A r \in Runs, t \in Task :
    last_event[r][t] = "none" <=> plan.depth[t] >= next_depth[r]

SettledBelow ==
  \A r \in Runs, t \in Task :
    plan.depth[t] + 1 < next_depth[r] => last_event[r][t] \in Settled

IdleUntouched == \A r \in Runs : phase[r] = "idle" => next_depth[r] = 0

ReturnedSettled ==
  \A r \in Runs : phase[r] = "returned" => \A t \in Task : last_event[r][t] \in Settled

LevelInv ==
  TypeOK /\ TakenUpBelow /\ SettledBelow /\ IdleUntouched /\ ReturnedSettled

(* What every step of the loop that looks at a level does to a run's own   *)
(* state: the tasks of that level leave "none", the others stay.           *)
LEMMA LevelShape ==
  ASSUME TypeOK, NEW r \in Runs, NEW d, EnterLevel(r, d)
  PROVE  /\ plan' = plan
         /\ next_depth'[r] = d + 1
         /\ \A t \in Task : t \in TasksAt(d) =>
              /\ last_event'[r][t] = IF DepsFailed(t) THEN "task_skipped" ELSE "task_started"
              /\ task_status'[t] = IF DepsFailed(t) THEN "skipped" ELSE "running"
         /\ \A t \in Task : t \notin TasksAt(d) =>
              last_event'[r][t] = last_event[r][t] /\ task_status'[t] = task_status[t]
         /\ \A s \in Runs : s # r =>
              next_depth'[s] = next_depth[s] /\ last_event'[s] = last_event[s]
BY DEF EnterLevel, TypeOK, Skipped, TasksAt

LEMMA TypeInit == Init => TypeOK
BY DEF Init, TypeOK, TaskStatus, TaskEvent

LEMMA LevelType ==
  ASSUME TypeOK, NEW r \in Runs, NEW d \in {plan.depth[t] : t \in Task}, EnterLevel(r, d)
  PROVE  /\ plan' \in Plans
         /\ task_status' \in [Task -> TaskStatus]
         /\ next_depth' \in [Runs -> Nat]
         /\ last_event' \in [Runs -> [Task -> TaskEvent]]
         /\ tasks_completed' \in [Runs -> Nat]
         /\ tasks_failed' \in [Runs -> Nat]
         /\ outcome' \in [Runs -> {"none", "completed", "partial", "failed"}]
<1>1. d \in Nat
  BY PlanAssumption DEF TypeOK, PlanShape
<1>2. task_status' \in [Task -> TaskStatus]
  BY DEF EnterLevel, TypeOK, TaskStatus
<1>3. last_event' \in [Runs -> [Task -> TaskEvent]]
  <2> DEFINE events == [t \in Task |->
       IF t \notin TasksAt(d) THEN last_event[r][t]
       ELSE IF t \in Skipped(d) THEN "task_skipped" ELSE "task_started"]
  <2>1. events \in [Task -> TaskEvent]
    BY DEF TypeOK, TaskEvent
  <2>2. last_event' = [last_event EXCEPT ![r] = events]
    BY DEF EnterLevel
  <2> HIDE DEF events
  <2> QED BY <2>1, <2>2 DEF TypeOK
<1> QED BY <1>1, <1>2, <1>3 DEF EnterLevel, TypeOK

LEMMA TypeStep == TypeOK /\ [Next]_vars => TypeOK'
<1> SUFFICES ASSUME TypeOK, [Next]_vars PROVE TypeOK'
  OBVIOUS
<1>1. ASSUME NEW r \in Runs, Start(r) PROVE TypeOK'
  BY <1>1, LevelType DEF Start, TypeOK
<1>2. ASSUME NEW r \in Runs, NextLevel(r) PROVE TypeOK'
  BY <1>2, LevelType DEF NextLevel, TypeOK
<1>3. ASSUME NEW r \in Runs, NEW t \in Task, NEW success \in BOOLEAN, SettleTask(r, t, success)
      PROVE TypeOK'
  BY <1>3 DEF SettleTask, TypeOK, TaskStatus, TaskEvent
<1>4. ASSUME NEW r \in Runs, Finish(r) PROVE TypeOK'
  BY <1>4 DEF Finish, Ended, Verdict, TypeOK
<1>5. CASE UNCHANGED vars
  BY <1>5 DEF vars, TypeOK
<1> QED BY <1>1, <1>2, <1>3, <1>4, <1>5 DEF Next, Step, Answer

LEMMA LevelInit == Init => LevelInv
BY TypeInit, PlanAssumption
   DEF Init, LevelInv, TypeOK, PlanShape, TakenUpBelow, SettledBelow, IdleUntouched, ReturnedSettled

(* A run that looks at the first level not below next_depth, with nothing  *)
(* in flight, keeps the barrier.                                           *)
LEMMA LevelKept ==
  ASSUME LevelInv, TypeOK', NEW r \in Runs, NEW d \in {plan.depth[t] : t \in Task},
         InFlight(r) = {} \/ next_depth[r] = 0, phase[r] # "returned",
         FirstLevelFrom(d, next_depth[r]), EnterLevel(r, d),
         phase'[r] = "executing", \A s \in Runs : s # r => phase'[s] = phase[s]
  PROVE  LevelInv'
<1> USE DEF LevelInv
<1>0. d \in Nat /\ plan \in PlanShape /\ next_depth[r] \in Nat
  BY PlanAssumption DEF TypeOK, PlanShape
<1>1. \A t \in Task : plan.depth[t] \in Nat
  BY <1>0 DEF PlanShape
<1>2. \A t \in Task : plan.depth[t] < next_depth[r] =>
        last_event[r][t] \in Settled
  BY <1>0, <1>1 DEF TakenUpBelow, InFlight, TypeOK, TaskEvent, Settled
<1>3. ASSUME NEW s \in Runs, NEW t \in Task
      PROVE  /\ (last_event[s][t] = "none" <=> plan.depth[t] >= next_depth[s])'
             /\ (plan.depth[t] + 1 < next_depth[s] => last_event[s][t] \in Settled)'
  <2>1. CASE s # r
    BY <2>1, LevelShape DEF TakenUpBelow, SettledBelow
  <2>2. CASE s = r
    <3>1. CASE plan.depth[t] = d
      BY <1>0, <1>1, <2>2, <3>1, LevelShape DEF TasksAt
    <3>2. CASE plan.depth[t] # d
      <4>1. last_event'[r][t] = last_event[r][t] /\ plan' = plan /\ next_depth'[r] = d + 1
        BY <3>2, LevelShape DEF TasksAt
      <4>2. plan.depth[t] > d <=> plan.depth[t] >= next_depth[r]
        BY <1>0, <1>1, <3>2 DEF FirstLevelFrom
      <4>3. last_event[r][t] = "none" <=> plan.depth[t] >= next_depth[r]
        BY DEF TakenUpBelow
      <4> QED BY <1>0, <1>1, <1>2, <2>2, <4>1, <4>2, <4>3
    <3> QED BY <3>1, <3>2
  <2> QED BY <2>1, <2>2
<1>4. TakenUpBelow' /\ SettledBelow'
  BY <1>3, LevelShape DEF TakenUpBelow, SettledBelow
<1>5. IdleUntouched' /\ ReturnedSettled'
  BY LevelShape DEF IdleUntouched, ReturnedSettled
<1> QED BY <1>4, <1>5

LEMMA LevelStep == LevelInv /\ [Next]_vars => LevelInv'
<1> SUFFICES ASSUME LevelInv, [Next]_vars PROVE LevelInv'
  OBVIOUS
<1>0. TypeOK /\ TypeOK' /\ plan \in PlanShape
  BY TypeStep, PlanAssumption DEF LevelInv, TypeOK
<1>1. ASSUME NEW r \in Runs, Start(r) PROVE LevelInv'
  <2>1. next_depth[r] = 0 /\ phase[r] # "returned" /\ phase'[r] = "executing"
        /\ \A s \in Runs : s # r => phase'[s] = phase[s]
    BY <1>0, <1>1 DEF Start, LevelInv, IdleUntouched, TypeOK
  <2> QED BY <1>0, <1>1, <2>1, LevelKept DEF Start
<1>2. ASSUME NEW r \in Runs, NextLevel(r) PROVE LevelInv'
  <2>1. phase[r] # "returned" /\ phase'[r] = "executing"
        /\ \A s \in Runs : s # r => phase'[s] = phase[s]
    BY <1>2 DEF NextLevel
  <2> QED BY <1>0, <1>2, <2>1, LevelKept DEF NextLevel
<1>3. ASSUME NEW r \in Runs, NEW t \in Task, NEW success \in BOOLEAN, SettleTask(r, t, success)
      PROVE LevelInv'
  <2>1. \A s \in Runs, u \in Task :
          \/ last_event'[s][u] = last_event[s][u]
          \/ last_event[s][u] = "task_started" /\ last_event'[s][u] \in Settled
    BY <1>0, <1>3 DEF SettleTask, TypeOK, Settled, InFlight
  <2>2. UNCHANGED <<plan, phase, next_depth>>
    BY <1>3 DEF SettleTask
  <2> QED BY <1>0, <2>1, <2>2
          DEF LevelInv, TakenUpBelow, SettledBelow, IdleUntouched, ReturnedSettled, Settled
<1>4. ASSUME NEW r \in Runs, Finish(r) PROVE LevelInv'
  <2>1. \A t \in Task : last_event[r][t] \in Settled
    BY <1>0, <1>4 DEF Finish, Ended, LevelInv, TakenUpBelow, InFlight, TypeOK, TaskEvent, Settled, PlanShape
  <2>2. UNCHANGED <<plan, next_depth, last_event>>
    BY <1>4 DEF Finish, Ended
  <2>3. \A s \in Runs : phase'[s] = IF s = r THEN "returned" ELSE phase[s]
    BY <1>0, <1>4 DEF Finish, Ended, TypeOK
  <2> QED BY <1>0, <2>1, <2>2, <2>3
          DEF LevelInv, TakenUpBelow, SettledBelow, IdleUntouched, ReturnedSettled
<1>5. CASE UNCHANGED vars
  BY <1>0, <1>5 DEF vars, LevelInv, TakenUpBelow, SettledBelow, IdleUntouched, ReturnedSettled
<1> QED BY <1>1, <1>2, <1>3, <1>4, <1>5 DEF Next, Step, Answer

(* The barrier holds of every execution of every plan, cyclic or not,      *)
(* with any number of executions in progress.                              *)
THEOREM Barrier == Spec => []LevelInv
BY LevelInit, LevelStep, PTL DEF Spec

-----------------------------------------------------------------------------
(* Types, for every plan and any number of executions. *)
THEOREM TypeCorrect == Spec => []TypeOK
BY TypeInit, TypeStep, PTL DEF Spec

-----------------------------------------------------------------------------
(* What a step does to what a run has said of a task. *)
LEMMA EventStep ==
  ASSUME LevelInv, [Next]_vars, NEW r \in Runs, NEW t \in Task,
         last_event'[r][t] # last_event[r][t]
  PROVE  /\ phase'[r] = "executing"
         /\ \/ /\ last_event[r][t] = "none"
               /\ last_event'[r][t] \in {"task_started", "task_skipped"}
               /\ \A u \in Task : plan.depth[u] < plan.depth[t] => last_event[r][u] \in Settled
            \/ /\ last_event[r][t] = "task_started"
               /\ last_event'[r][t] \in {"task_completed", "task_failed"}
<1>0. TypeOK /\ plan \in PlanShape /\ next_depth[r] \in Nat
  BY PlanAssumption DEF LevelInv, TypeOK
<1>1. ASSUME NEW d \in {plan.depth[u] : u \in Task}, EnterLevel(r, d),
             FirstLevelFrom(d, next_depth[r]), InFlight(r) = {} \/ next_depth[r] = 0
      PROVE  /\ last_event[r][t] = "none"
             /\ last_event'[r][t] \in {"task_started", "task_skipped"}
             /\ \A u \in Task : plan.depth[u] < plan.depth[t] => last_event[r][u] \in Settled
  <2>1. t \in TasksAt(d) /\ last_event'[r][t] \in {"task_started", "task_skipped"}
    BY <1>0, <1>1, LevelShape
  <2>2. \A u \in Task : plan.depth[u] \in Nat
    BY <1>0 DEF PlanShape
  <2>3. plan.depth[t] = d /\ last_event[r][t] = "none"
    BY <2>1, <1>1 DEF TasksAt, FirstLevelFrom, LevelInv, TakenUpBelow
  <2>4. ASSUME NEW u \in Task, plan.depth[u] < d PROVE last_event[r][u] \in Settled
    <3>1. plan.depth[u] < next_depth[r]
      BY <1>0, <1>1, <2>2, <2>3, <2>4 DEF FirstLevelFrom
    <3>2. last_event[r][u] # "none" /\ next_depth[r] # 0
      BY <1>0, <2>2, <3>1 DEF LevelInv, TakenUpBelow
    <3> QED BY <1>0, <1>1, <3>2 DEF InFlight, TypeOK, TaskEvent, Settled
  <2> QED BY <2>1, <2>3, <2>4
<1>2. ASSUME NEW s \in Runs, Start(s) PROVE s = r
  BY <1>0, <1>2, LevelShape DEF Start
<1>3. ASSUME NEW s \in Runs, NextLevel(s) PROVE s = r
  BY <1>0, <1>3, LevelShape DEF NextLevel
<1>4. CASE Start(r)
  BY <1>0, <1>1, <1>4 DEF Start, LevelInv, IdleUntouched, TypeOK
<1>5. CASE NextLevel(r)
  BY <1>1, <1>5 DEF NextLevel
<1>6. ASSUME NEW s \in Runs, NEW u \in Task, NEW success \in BOOLEAN, SettleTask(s, u, success)
      PROVE  /\ phase'[r] = "executing"
             /\ last_event[r][t] = "task_started"
             /\ last_event'[r][t] \in {"task_completed", "task_failed"}
  <2>1. last_event[r][t] = "task_started" /\ last_event'[r][t] \in {"task_completed", "task_failed"}
    BY <1>0, <1>6 DEF SettleTask, InFlight, TypeOK
  <2>2. phase[r] # "idle"
    BY <1>0, <2>1 DEF LevelInv, IdleUntouched, TakenUpBelow, PlanShape
  <2>3. phase[r] # "returned"
    BY <2>1 DEF LevelInv, ReturnedSettled, Settled
  <2>4. phase[r] = "executing"
    BY <1>0, <2>2, <2>3 DEF TypeOK
  <2> QED BY <1>6, <2>1, <2>4 DEF SettleTask
<1>7. ASSUME NEW s \in Runs, Finish(s) PROVE FALSE
  BY <1>7 DEF Finish, Ended
<1>8. CASE UNCHANGED vars
  BY <1>8 DEF vars
<1> QED BY <1>2, <1>3, <1>4, <1>5, <1>6, <1>7, <1>8 DEF Next, Step, Answer

LEMMA OrderedStep ==
  LevelInv /\ [Next]_vars =>
    [\A r \in Runs, t \in Task :
       last_event'[r][t] # last_event[r][t] =>
         /\ phase'[r] = "executing"
         /\ \/ /\ last_event[r][t] = "none"
               /\ last_event'[r][t] \in {"task_started", "task_skipped"}
            \/ /\ last_event[r][t] = "task_started"
               /\ last_event'[r][t] \in {"task_completed", "task_failed"}]_vars
BY EventStep

(* The stream of every execution tells one story per task. *)
THEOREM OrderedEvents == Spec => EventsInOrder
BY OrderedStep, Barrier, PTL DEF Spec, EventsInOrder

LEMMA LaunchStep ==
  LevelInv /\ [Next]_vars =>
    [LayeredPlan(plan) =>
       \A r \in Runs, t \in Task :
         Launches(r, t) => \A d \in Deps(t) : last_event[r][d] \in Settled]_vars
<1> SUFFICES ASSUME LevelInv, [Next]_vars, LayeredPlan(plan), NEW r \in Runs, NEW t \in Task,
                    Launches(r, t), NEW d \in Deps(t)
             PROVE  last_event[r][d] \in Settled
  OBVIOUS
<1>1. d \in Task
  BY PlanAssumption DEF LevelInv, TypeOK, PlanShape, Deps
<1>2. plan.depth[d] < plan.depth[t]
  BY DEF LayeredPlan, Deps
<1> QED BY <1>1, <1>2, EventStep DEF Launches

(* No execution of a layered plan starts a task before it has heard of     *)
(* everything the task depends on.                                         *)
THEOREM LaunchOrder == Spec => LaunchAfterDependenciesSettle
BY LaunchStep, Barrier, PTL DEF Spec, LaunchAfterDependenciesSettle

-----------------------------------------------------------------------------
(* The number of tasks an execution has heard a given end of. *)
Told(r, e) == {t \in Task : last_event[r][t] = e}

CountInv ==
  \A r \in Runs :
    /\ tasks_completed[r] = Cardinality(Told(r, "task_completed"))
    /\ tasks_failed[r] = Cardinality(Told(r, "task_failed"))

LEMMA CountInit == Init => CountInv
<1> SUFFICES ASSUME Init, NEW r \in Runs
             PROVE  /\ tasks_completed[r] = Cardinality(Told(r, "task_completed"))
                    /\ tasks_failed[r] = Cardinality(Told(r, "task_failed"))
  BY DEF CountInv
<1>1. Told(r, "task_completed") = {} /\ Told(r, "task_failed") = {}
  BY DEF Init, Told
<1> QED BY <1>1, FS_EmptySet DEF Init

(* Looking at a level does not change what a run has heard the end of. *)
LEMMA LevelTells ==
  ASSUME LevelInv, [Next]_vars, NEW r \in Runs, NEW d, EnterLevel(r, d), CountInv,
         \A t \in TasksAt(d) : last_event[r][t] = "none"
  PROVE  CountInv'
<1> USE DEF LevelInv
<1>1. \A s \in Runs, t \in Task, e \in {"task_completed", "task_failed"} :
        last_event'[s][t] = e <=> last_event[s][t] = e
  BY LevelShape DEF TasksAt
<1>2. \A s \in Runs : \A e \in {"task_completed", "task_failed"} : Told(s, e)' = Told(s, e)
  BY <1>1 DEF Told
<1>3. \A s \in Runs : Told(s, "task_completed")' = Told(s, "task_completed")
                    /\ Told(s, "task_failed")' = Told(s, "task_failed")
  BY <1>2
<1> QED BY <1>3 DEF CountInv, EnterLevel

LEMMA CountStep == LevelInv /\ CountInv /\ [Next]_vars => CountInv'
<1> SUFFICES ASSUME LevelInv, CountInv, [Next]_vars PROVE CountInv'
  OBVIOUS
<1>0. TypeOK /\ plan \in PlanShape
  BY PlanAssumption DEF LevelInv, TypeOK
<1>1. ASSUME NEW r \in Runs, Start(r) PROVE CountInv'
  <2>1. PICK d \in {plan.depth[t] : t \in Task} : FirstLevelFrom(d, 0) /\ EnterLevel(r, d)
    BY <1>1 DEF Start
  <2>2. \A t \in TasksAt(d) : last_event[r][t] = "none"
    BY <1>0, <1>1, <2>1 DEF Start, TasksAt, LevelInv, IdleUntouched, TakenUpBelow, FirstLevelFrom
  <2> QED BY <2>1, <2>2, LevelTells
<1>2. ASSUME NEW r \in Runs, NextLevel(r) PROVE CountInv'
  <2>1. PICK d \in {plan.depth[t] : t \in Task} :
          FirstLevelFrom(d, next_depth[r]) /\ EnterLevel(r, d)
    BY <1>2 DEF NextLevel
  <2>2. \A t \in TasksAt(d) : last_event[r][t] = "none"
    BY <2>1 DEF TasksAt, LevelInv, TakenUpBelow, FirstLevelFrom
  <2> QED BY <2>1, <2>2, LevelTells
<1>3. ASSUME NEW r \in Runs, NEW t \in Task, NEW success \in BOOLEAN, SettleTask(r, t, success)
      PROVE CountInv'
  <2> DEFINE e == IF success THEN "task_completed" ELSE "task_failed"
             o == IF success THEN "task_failed" ELSE "task_completed"
  <2>1. last_event[r][t] = "task_started" /\ last_event'[r][t] = e
    BY <1>0, <1>3 DEF SettleTask, InFlight, TypeOK
  <2>2. \A s \in Runs, u \in Task :
          s # r \/ u # t => last_event'[s][u] = last_event[s][u]
    BY <1>0, <1>3 DEF SettleTask, TypeOK
  <2>3. \A s \in Runs : s # r => Told(s, "task_completed")' = Told(s, "task_completed")
                               /\ Told(s, "task_failed")' = Told(s, "task_failed")
    BY <2>2 DEF Told
  <2>4. Told(r, "task_completed")' = Told(r, "task_completed") \cup (IF success THEN {t} ELSE {})
    BY <2>1, <2>2 DEF Told
  <2>5. Told(r, "task_failed")' = Told(r, "task_failed") \cup (IF success THEN {} ELSE {t})
    BY <2>1, <2>2 DEF Told
  <2>6. /\ IsFiniteSet(Told(r, "task_completed")) /\ t \notin Told(r, "task_completed")
        /\ IsFiniteSet(Told(r, "task_failed")) /\ t \notin Told(r, "task_failed")
    BY <2>1, PlanAssumption, FS_Subset DEF Told
  <2>7. CASE success = TRUE
    <3>1. Cardinality(Told(r, "task_completed") \cup {t}) = Cardinality(Told(r, "task_completed")) + 1
      BY <2>6, FS_AddElement
    <3>2. Told(r, "task_completed")' = Told(r, "task_completed") \cup {t}
          /\ Told(r, "task_failed")' = Told(r, "task_failed")
      BY <2>4, <2>5, <2>7
    <3>3. \A s \in Runs : tasks_failed'[s] = tasks_failed[s]
                        /\ tasks_completed'[s] = tasks_completed[s] + (IF s = r THEN 1 ELSE 0)
      BY <1>0, <1>3, <2>7 DEF SettleTask, TypeOK
    <3>4. ASSUME NEW s \in Runs
          PROVE  /\ tasks_completed'[s] = Cardinality(Told(s, "task_completed")')
                 /\ tasks_failed'[s] = Cardinality(Told(s, "task_failed")')
      <4>1. CASE s = r
        BY <1>0, <3>1, <3>2, <3>3, <4>1 DEF CountInv, TypeOK
      <4>2. CASE s # r
        BY <1>0, <2>3, <3>3, <4>2 DEF CountInv, TypeOK
      <4> QED BY <4>1, <4>2
    <3> QED BY <3>4 DEF CountInv
  <2>8. CASE success = FALSE
    <3>1. Cardinality(Told(r, "task_failed") \cup {t}) = Cardinality(Told(r, "task_failed")) + 1
      BY <2>6, FS_AddElement
    <3>2. Told(r, "task_failed")' = Told(r, "task_failed") \cup {t}
          /\ Told(r, "task_completed")' = Told(r, "task_completed")
      BY <2>4, <2>5, <2>8
    <3>3. \A s \in Runs : tasks_completed'[s] = tasks_completed[s]
                        /\ tasks_failed'[s] = tasks_failed[s] + (IF s = r THEN 1 ELSE 0)
      BY <1>0, <1>3, <2>8 DEF SettleTask, TypeOK
    <3>4. ASSUME NEW s \in Runs
          PROVE  /\ tasks_completed'[s] = Cardinality(Told(s, "task_completed")')
                 /\ tasks_failed'[s] = Cardinality(Told(s, "task_failed")')
      <4>1. CASE s = r
        BY <1>0, <3>1, <3>2, <3>3, <4>1 DEF CountInv, TypeOK
      <4>2. CASE s # r
        BY <1>0, <2>3, <3>3, <4>2 DEF CountInv, TypeOK
      <4> QED BY <4>1, <4>2
    <3> QED BY <3>4 DEF CountInv
  <2> QED BY <2>7, <2>8
<1>4. ASSUME NEW r \in Runs, Finish(r) PROVE CountInv'
  BY <1>4 DEF Finish, Ended, CountInv, Told
<1>5. CASE UNCHANGED vars
  BY <1>5 DEF vars, CountInv, Told
<1> QED BY <1>1, <1>2, <1>3, <1>4, <1>5 DEF Next, Step, Answer

LEMMA Counted == LevelInv /\ CountInv => SummaryMatchesEvents
BY DEF LevelInv, ReturnedSettled, CountInv, Told, SummaryMatchesEvents

(* The summary an execution returns agrees with its event stream. *)
THEOREM Summary == Spec => []SummaryMatchesEvents
BY Counted, CountInit, CountStep, Barrier, PTL DEF Spec

LEMMA OrphanInit == Init => NothingLeftRunning
BY DEF Init, NothingLeftRunning

LEMMA OrphanStep == LevelInv /\ NothingLeftRunning /\ [Next]_vars => NothingLeftRunning'
<1> SUFFICES ASSUME LevelInv, NothingLeftRunning, [Next]_vars PROVE NothingLeftRunning'
  OBVIOUS
<1>0. TypeOK /\ plan \in PlanShape
  BY PlanAssumption DEF LevelInv, TypeOK
<1>1. ASSUME NEW r \in Runs, NEW d, EnterLevel(r, d), phase'[r] = "executing",
             \A t \in TasksAt(d) : last_event[r][t] = "none"
      PROVE  NothingLeftRunning'
  <2>1. ASSUME NEW t \in Task, task_status'[t] = "running"
        PROVE  \E s \in Runs : last_event'[s][t] = "task_started"
    <3>1. CASE t \in TasksAt(d)
      BY <1>0, <1>1, <2>1, <3>1, LevelShape
    <3>2. CASE t \notin TasksAt(d)
      BY <1>0, <1>1, <2>1, <3>2, LevelShape DEF NothingLeftRunning, InFlight
    <3> QED BY <3>1, <3>2
  <2> QED BY <1>1, <2>1 DEF NothingLeftRunning, InFlight
<1>2. ASSUME NEW r \in Runs, Start(r) PROVE NothingLeftRunning'
  <2>1. PICK d \in {plan.depth[t] : t \in Task} : FirstLevelFrom(d, 0) /\ EnterLevel(r, d)
    BY <1>2 DEF Start
  <2>2. \A t \in TasksAt(d) : last_event[r][t] = "none"
    BY <1>0, <1>2, <2>1 DEF Start, TasksAt, LevelInv, IdleUntouched, TakenUpBelow, FirstLevelFrom
  <2>3. phase'[r] = "executing"
    BY <1>0, <1>2 DEF Start, TypeOK
  <2> QED BY <1>1, <2>1, <2>2, <2>3
<1>3. ASSUME NEW r \in Runs, NextLevel(r) PROVE NothingLeftRunning'
  <2>1. PICK d \in {plan.depth[t] : t \in Task} :
          FirstLevelFrom(d, next_depth[r]) /\ EnterLevel(r, d)
    BY <1>3 DEF NextLevel
  <2>2. \A t \in TasksAt(d) : last_event[r][t] = "none"
    BY <2>1 DEF TasksAt, LevelInv, TakenUpBelow, FirstLevelFrom
  <2> QED BY <1>1, <1>3, <2>1, <2>2 DEF NextLevel
<1>4. ASSUME NEW r \in Runs, NEW t \in Task, NEW success \in BOOLEAN, SettleTask(r, t, success)
      PROVE NothingLeftRunning'
  <2>1. task_status'[t] # "running"
        /\ \A v \in Task : v # t => task_status'[v] = task_status[v]
        /\ \A s \in Runs, u \in Task : u # t => last_event'[s][u] = last_event[s][u]
    BY <1>0, <1>4 DEF SettleTask, TypeOK
  <2> QED BY <1>4, <2>1 DEF SettleTask, NothingLeftRunning, InFlight
<1>5. ASSUME NEW r \in Runs, Finish(r) PROVE NothingLeftRunning'
  BY <1>5 DEF Finish, Ended, NothingLeftRunning, InFlight
<1>6. CASE UNCHANGED vars
  BY <1>6 DEF vars, NothingLeftRunning, InFlight
<1> QED BY <1>2, <1>3, <1>4, <1>5, <1>6 DEF Next, Step, Answer

(* Nothing is left executing or running when nobody waits for it. *)
THEOREM NoOrphans == Spec => []NothingLeftRunning
BY OrphanInit, OrphanStep, Barrier, PTL DEF Spec

-----------------------------------------------------------------------------
(* What the execution has said of a task and the task's status say the     *)
(* same: the reason one execution is simpler than two.                     *)
Agree(e, s) ==
  \/ e = "none" /\ s = "pending"
  \/ e = "task_started" /\ s = "running"
  \/ e = "task_completed" /\ s = "completed"
  \/ e = "task_failed" /\ s = "failed"
  \/ e = "task_skipped" /\ s = "skipped"

StatusesAgree == \A r \in Runs, t \in Task : Agree(last_event[r][t], task_status[t])

SkipsCaused ==
  \A t \in Task : task_status[t] = "skipped" => \E d \in Deps(t) : task_status[d] = "failed"

VerdictStands ==
  \A r \in Runs :
    /\ phase[r] # "returned" => outcome[r] = "none"
    /\ phase[r] = "returned" =>
         /\ outcome[r] = Verdict(tasks_failed[r])
         /\ plan_status = "completed" <=> outcome[r] = "completed"

SoleInv == LevelInv /\ CountInv /\ StatusesAgree /\ SkipsCaused /\ VerdictStands

LEMMA SoleInit == Init => SoleInv
<1> SUFFICES ASSUME Init PROVE SoleInv
  OBVIOUS
<1>1. StatusesAgree /\ SkipsCaused /\ VerdictStands
  BY DEF Init, StatusesAgree, Agree, SkipsCaused, VerdictStands
<1> QED BY <1>1, LevelInit, CountInit DEF SoleInv

(* A run that looks at a level skips exactly the tasks with a failed       *)
(* dependency, whatever their place in the level: none of the level has    *)
(* failed yet.                                                             *)
LEMMA SkipRule ==
  ASSUME SoleInv, NEW r \in Runs, NEW d, FirstLevelFrom(d, next_depth[r]),
         NEW t \in TasksAt(d)
  PROVE  /\ last_event[r][t] = "none" /\ task_status[t] = "pending"
         /\ DepsFailed(t) <=> \E u \in Deps(t) : task_status[u] = "failed"
<1>0. TypeOK /\ plan \in PlanShape /\ t \in Task /\ plan.depth[t] = d /\ Deps(t) \subseteq Task
  BY PlanAssumption DEF SoleInv, LevelInv, TypeOK, TasksAt, PlanShape, Deps
<1>1. \A u \in Task : plan.depth[u] = d => last_event[r][u] = "none" /\ task_status[u] = "pending"
  BY <1>0 DEF SoleInv, LevelInv, TakenUpBelow, FirstLevelFrom, StatusesAgree, Agree
<1> QED BY <1>0, <1>1 DEF DepsFailed

(* Where a run of the only execution looks at a level. *)
LEMMA Looks ==
  ASSUME SoleInv, NEW r \in Runs, Start(r) \/ NextLevel(r)
  PROVE  \E d \in {plan.depth[t] : t \in Task} :
           /\ FirstLevelFrom(d, next_depth[r])
           /\ EnterLevel(r, d)
           /\ InFlight(r) = {} \/ next_depth[r] = 0
BY DEF Start, NextLevel, SoleInv, LevelInv, IdleUntouched, TypeOK

LEMMA SoleLevel ==
  ASSUME SoleInv, NEW one, Runs = {one}, Start(one) \/ NextLevel(one)
  PROVE  StatusesAgree' /\ SkipsCaused' /\ VerdictStands'
<1>0. TypeOK /\ plan \in PlanShape /\ one \in Runs
  BY PlanAssumption DEF SoleInv, LevelInv, TypeOK
<1>1. PICK d \in {plan.depth[t] : t \in Task} :
        FirstLevelFrom(d, next_depth[one]) /\ EnterLevel(one, d)
  BY <1>0, Looks
<1>2. plan' = plan /\ UNCHANGED <<tasks_failed, outcome>>
  BY <1>1 DEF EnterLevel
<1>3. ASSUME NEW t \in Task PROVE Agree(last_event'[one][t], task_status'[t])
  <2>1. CASE t \in TasksAt(d)
    BY <1>0, <1>1, <2>1, LevelShape DEF Agree
  <2>2. CASE t \notin TasksAt(d)
    BY <1>0, <1>1, <2>2, LevelShape DEF SoleInv, StatusesAgree
  <2> QED BY <2>1, <2>2
<1>4. ASSUME NEW t \in Task, task_status[t] = "failed" PROVE task_status'[t] = "failed"
  BY <1>0, <1>1, <1>4, SkipRule, LevelShape
<1>5. ASSUME NEW t \in Task, task_status'[t] = "skipped"
      PROVE  \E u \in Deps(t) : task_status[u] = "failed"
  <2>1. CASE t \in TasksAt(d)
    BY <1>0, <1>1, <1>5, <2>1, SkipRule, LevelShape
  <2>2. CASE t \notin TasksAt(d)
    BY <1>0, <1>1, <1>5, <2>2, LevelShape DEF SoleInv, SkipsCaused
  <2> QED BY <2>1, <2>2
<1>6. \A t \in Task : Deps(t) \subseteq Task /\ Deps(t)' = Deps(t)
  BY <1>0, <1>2 DEF PlanShape, Deps
<1>7. phase[one] # "returned" /\ phase'[one] # "returned"
  BY <1>0 DEF Start, NextLevel, TypeOK
<1> QED BY <1>2, <1>3, <1>4, <1>5, <1>6, <1>7
        DEF StatusesAgree, SkipsCaused, SoleInv, VerdictStands

LEMMA SoleStep ==
  ASSUME NEW one, Runs = {one}
  PROVE  SoleInv /\ [Next]_vars => SoleInv'
<1> SUFFICES ASSUME SoleInv, [Next]_vars PROVE SoleInv'
  OBVIOUS
<1>0. TypeOK /\ plan \in PlanShape /\ one \in Runs
  BY PlanAssumption DEF SoleInv, LevelInv, TypeOK
<1>1. LevelInv' /\ CountInv'
  BY LevelStep, CountStep DEF SoleInv
<1>2. CASE Start(one) \/ NextLevel(one)
  BY <1>1, <1>2, SoleLevel DEF SoleInv
<1>3. ASSUME NEW t \in Task, NEW success \in BOOLEAN, SettleTask(one, t, success) PROVE SoleInv'
  <2>1. last_event[one][t] = "task_started" /\ task_status[t] = "running"
    BY <1>3 DEF SettleTask, InFlight, SoleInv, StatusesAgree, Agree
  <2>2. /\ last_event'[one][t] = (IF success THEN "task_completed" ELSE "task_failed")
        /\ task_status'[t] = (IF success THEN "completed" ELSE "failed")
        /\ \A u \in Task : u # t => /\ last_event'[one][u] = last_event[one][u]
                                    /\ task_status'[u] = task_status[u]
    BY <1>0, <1>3 DEF SettleTask, TypeOK
  <2>3. StatusesAgree'
    BY <2>1, <2>2 DEF SoleInv, StatusesAgree, Agree
  <2>4. SkipsCaused'
    <3>1. \A u \in Task : task_status[u] = "failed" => task_status'[u] = "failed"
      BY <2>1, <2>2
    <3>2. \A u \in Task : task_status'[u] = "skipped" => task_status[u] = "skipped"
      BY <2>2
    <3>3. \A u \in Task : Deps(u) \subseteq Task /\ Deps(u)' = Deps(u)
      BY <1>0, <1>3 DEF SettleTask, PlanShape, Deps
    <3> QED BY <3>1, <3>2, <3>3 DEF SoleInv, SkipsCaused
  <2>5. phase[one] # "returned" /\ UNCHANGED <<phase, outcome>>
    BY <1>0, <1>3, <2>1 DEF SettleTask, SoleInv, LevelInv, ReturnedSettled, Settled
  <2> QED BY <1>1, <2>3, <2>4, <2>5 DEF SoleInv, VerdictStands
<1>4. CASE Finish(one)
  <2>1. /\ phase'[one] = "returned" /\ outcome'[one] = Verdict(tasks_failed[one])
        /\ plan_status' = (IF outcome'[one] = "completed" THEN "completed" ELSE "failed")
        /\ UNCHANGED <<plan, task_status, last_event, tasks_failed>>
    BY <1>0, <1>4 DEF Finish, Ended, TypeOK
  <2>2. StatusesAgree' /\ SkipsCaused'
    BY <2>1 DEF SoleInv, StatusesAgree, SkipsCaused, Deps
  <2>3. VerdictStands'
    BY <2>1 DEF VerdictStands, Verdict
  <2> QED BY <1>1, <2>2, <2>3 DEF SoleInv
<1>5. CASE UNCHANGED vars
  <2>1. StatusesAgree' /\ SkipsCaused' /\ VerdictStands'
    BY <1>5 DEF vars, SoleInv, StatusesAgree, SkipsCaused, VerdictStands, Deps, Verdict
  <2> QED BY <1>1, <2>1 DEF SoleInv
<1> QED BY <1>2, <1>3, <1>4, <1>5 DEF Next, Step, Answer

LEMMA SoleExecution ==
  ASSUME NEW one, Runs = {one}
  PROVE  Spec => []SoleInv
BY SoleInit, SoleStep, PTL DEF Spec

-----------------------------------------------------------------------------
(* A single execution skips a task if and only if a dependency has failed  *)
(* when the task's turn comes.                                             *)
THEOREM SkipsExactly ==
  ASSUME NEW one, Runs = {one}
  PROVE  Spec => SkipExactlyOnFailure
<1>1. SoleInv /\ [Next]_vars =>
        [\A r \in Runs, t \in Task :
           last_event[r][t] = "none" /\ last_event'[r][t] # "none" =>
             (last_event'[r][t] = "task_skipped"
                <=> \E d \in Deps(t) : last_event[r][d] = "task_failed")]_vars
  <2> SUFFICES ASSUME SoleInv, [Next]_vars, NEW t \in Task,
                      last_event[one][t] = "none", last_event'[one][t] # "none"
               PROVE  last_event'[one][t] = "task_skipped"
                        <=> \E d \in Deps(t) : last_event[one][d] = "task_failed"
    OBVIOUS
  <2>0. TypeOK /\ plan \in PlanShape /\ one \in Runs /\ Deps(t) \subseteq Task
    BY PlanAssumption DEF SoleInv, LevelInv, TypeOK, PlanShape, Deps
  <2>1. Start(one) \/ NextLevel(one)
    <3>1. ASSUME NEW u \in Task, NEW success \in BOOLEAN, SettleTask(one, u, success) PROVE FALSE
      BY <2>0, <3>1 DEF SettleTask, InFlight, TypeOK
    <3> QED BY <3>1 DEF Next, Step, Answer, Finish, vars
  <2>2. PICK d \in {plan.depth[u] : u \in Task} :
          FirstLevelFrom(d, next_depth[one]) /\ EnterLevel(one, d)
    BY <2>0, <2>1, Looks
  <2>3. t \in TasksAt(d)
    BY <2>0, <2>2, LevelShape
  <2>4. last_event'[one][t] = "task_skipped" <=> \E u \in Deps(t) : task_status[u] = "failed"
    BY <2>0, <2>2, <2>3, SkipRule, LevelShape
  <2>5. \A u \in Task : task_status[u] = "failed" <=> last_event[one][u] = "task_failed"
    BY <2>0 DEF SoleInv, StatusesAgree, Agree
  <2> QED BY <2>0, <2>4, <2>5
<1> QED BY <1>1, SoleExecution, PTL DEF Spec, SkipExactlyOnFailure

(* What a returned verdict stands for, in the statuses of the tasks. *)
LEMMA VerdictMeaning ==
  ASSUME SoleInv, NEW one, Runs = {one}, \A t \in Task : last_event[one][t] \in Settled
  PROVE  /\ Verdict(tasks_failed[one]) = "completed" <=> \A t \in Task : task_status[t] = "completed"
         /\ Verdict(tasks_failed[one]) = "failed" <=> \A t \in Task : task_status[t] = "failed"
         /\ Verdict(tasks_failed[one]) \in {"completed", "partial", "failed"}
<1> DEFINE F == Told(one, "task_failed")
<1>0. TypeOK /\ one \in Runs /\ F \subseteq Task /\ tasks_failed[one] = Cardinality(F)
  BY DEF SoleInv, LevelInv, CountInv, Told
<1>1. /\ IsFiniteSet(F) /\ Cardinality(F) \in Nat /\ Cardinality(Task) \in Nat
      /\ Cardinality(F) <= Cardinality(Task)
      /\ Cardinality(F) = Cardinality(Task) => F = Task
      /\ Cardinality(F) = 0 <=> F = {}
  <2>1. IsFiniteSet(Task) /\ IsFiniteSet(F)
    BY <1>0, PlanAssumption, FS_Subset
  <2> QED BY <2>1, <1>0, FS_Subset, FS_CardinalityType, FS_EmptySet
<1>2. \A t \in Task : t \in F <=> task_status[t] = "failed"
  BY <1>0 DEF Told, SoleInv, StatusesAgree, Agree
<1>3. \A t \in Task : task_status[t] \in {"completed", "failed", "skipped"}
  BY <1>0 DEF SoleInv, StatusesAgree, Agree, Settled
<1>4. F = {} <=> \A t \in Task : task_status[t] = "completed"
  <2>1. \A t \in Task : Deps(t) \subseteq Task
    BY PlanAssumption DEF SoleInv, LevelInv, TypeOK, PlanShape, Deps
  <2>2. F = {} => \A t \in Task : task_status[t] # "skipped"
    BY <1>2, <2>1 DEF SoleInv, SkipsCaused
  <2> HIDE DEF F
  <2> QED BY <1>0, <1>2, <1>3, <2>2
<1>5. F = Task <=> \A t \in Task : task_status[t] = "failed"
  <2> HIDE DEF F
  <2> QED BY <1>0, <1>2
<1>6. Task # {} /\ Cardinality(Task) # 0
  BY PlanAssumption, FS_EmptySet
<1> HIDE DEF F
<1> QED BY <1>0, <1>1, <1>4, <1>5, <1>6 DEF Verdict

(* The status a single execution returns says what happened to the tasks,  *)
(* and the plan's own status agrees.                                       *)
THEOREM HonestOutcome ==
  ASSUME NEW one, Runs = {one}
  PROVE  Spec => []OutcomeIsHonest
<1>1. SoleInv => OutcomeIsHonest
  <2> SUFFICES ASSUME SoleInv, phase[one] = "returned"
               PROVE  /\ outcome[one] = "completed" <=> \A t \in Task : task_status[t] = "completed"
                      /\ outcome[one] = "failed" <=> \A t \in Task : task_status[t] = "failed"
                      /\ plan_status = "completed" <=> outcome[one] = "completed"
    BY DEF OutcomeIsHonest
  <2>1. \A t \in Task : last_event[one][t] \in Settled
    BY DEF SoleInv, LevelInv, ReturnedSettled
  <2>2. outcome[one] = Verdict(tasks_failed[one]) /\ (plan_status = "completed" <=> outcome[one] = "completed")
    BY DEF SoleInv, VerdictStands
  <2> QED BY <2>1, <2>2, VerdictMeaning
<1> QED BY <1>1, SoleExecution, PTL

-----------------------------------------------------------------------------
(* A single execution of layered plans implements the contract: looking at *)
(* a level takes its tasks up together, an answer concludes one task, the  *)
(* return is the report.                                                   *)
THEOREM Implements ==
  ASSUME NEW one, Runs = {one}, \A p \in Plans : LayeredPlan(p)
  PROVE  Spec => ContractSafe
<1>0. TheRun = one /\ one \in Runs
  BY DEF TheRun
<1>1. Init => Contract!Init
  BY <1>0, PlanAssumption DEF Init, Contract!Init, PlanShape
<1>2. SoleInv /\ [Next]_vars => [Contract!Next]_(Contract!vars)
  <2> SUFFICES ASSUME SoleInv, [Next]_vars
               PROVE  Contract!Next \/ UNCHANGED Contract!vars
    OBVIOUS
  <2>0. TypeOK /\ plan \in PlanShape /\ LayeredPlan(plan)
    BY PlanAssumption DEF SoleInv, LevelInv, TypeOK
  <2>1. CASE Start(one) \/ NextLevel(one)
    <3>1. PICK d \in {plan.depth[t] : t \in Task} :
            /\ FirstLevelFrom(d, next_depth[one])
            /\ EnterLevel(one, d)
            /\ InFlight(one) = {} \/ next_depth[one] = 0
      BY <1>0, <2>1, Looks
    <3>2. TasksAt(d) # {} /\ TasksAt(d) \in SUBSET Task
      BY <3>1 DEF FirstLevelFrom, TasksAt
    <3>3. ASSUME NEW t \in TasksAt(d) PROVE Contract!Eligible(t)
      <4>1. t \in Task /\ plan.depth[t] = d /\ Deps(t) \subseteq Task
        BY <2>0 DEF TasksAt, PlanShape, Deps
      <4>2. ASSUME NEW u \in Deps(t) PROVE task_status[u] \in {"completed", "failed", "skipped"}
        <5>1. u \in Task /\ plan.depth[u] < d /\ plan.depth[u] \in Nat
          BY <2>0, <4>1 DEF LayeredPlan, Deps, PlanShape
        <5>2. plan.depth[u] < next_depth[one] /\ next_depth[one] \in Nat
          BY <1>0, <2>0, <3>1, <4>1, <5>1 DEF FirstLevelFrom, PlanShape, TypeOK
        <5>3. last_event[one][u] # "none" /\ next_depth[one] # 0
          BY <1>0, <5>1, <5>2 DEF SoleInv, LevelInv, TakenUpBelow
        <5>4. last_event[one][u] # "task_started"
          BY <3>1, <5>1, <5>3 DEF InFlight
        <5> QED BY <1>0, <5>1, <5>3, <5>4 DEF SoleInv, StatusesAgree, Agree
      <4>3. task_status[t] = "pending"
        BY <1>0, <3>1, SkipRule
      <4> QED BY <4>2, <4>3 DEF Contract!Eligible, Contract!Over, Deps
    <3>4. task_status' = [t \in Task |->
            IF t \notin TasksAt(d) THEN task_status[t]
            ELSE IF \E u \in plan.dependencies[t] : task_status[u] = "failed"
                 THEN "skipped" ELSE "running"]
      <4>1. \A t \in TasksAt(d) : t \in Skipped(d)
              <=> \E u \in plan.dependencies[t] : task_status[u] = "failed"
        BY <1>0, <3>1, SkipRule DEF Skipped, Deps
      <4> QED BY <3>1, <4>1 DEF EnterLevel
    <3>5. UNCHANGED <<plan.dependencies, outcome[TheRun]>>
      BY <3>1 DEF EnterLevel
    <3>6. Contract!TakeUp(TasksAt(d))
      BY <3>2, <3>3, <3>4, <3>5 DEF Contract!TakeUp
    <3> QED BY <3>2, <3>6 DEF Contract!Next
  <2>2. ASSUME NEW t \in Task, NEW success \in BOOLEAN, SettleTask(one, t, success)
        PROVE  Contract!Next
    <3>1. task_status[t] = "running"
      BY <1>0, <2>2 DEF SettleTask, InFlight, SoleInv, StatusesAgree, Agree
    <3>2. \E s \in {"completed", "failed"} : task_status' = [task_status EXCEPT ![t] = s]
      BY <2>2 DEF SettleTask
    <3>3. UNCHANGED <<plan.dependencies, outcome[TheRun]>>
      BY <2>2 DEF SettleTask
    <3> QED BY <3>1, <3>2, <3>3 DEF Contract!Next, Contract!Conclude
  <2>3. CASE Finish(one)
    <3>1. \A t \in Task : last_event[one][t] \in Settled
      BY <1>0, <2>0, <2>3 DEF Finish, Ended, SoleInv, LevelInv, TakenUpBelow, InFlight, TypeOK,
                              TaskEvent, Settled, PlanShape
    <3>2. \A t \in Task : task_status[t] \in {"completed", "failed", "skipped"}
      BY <1>0, <3>1 DEF SoleInv, StatusesAgree, Agree, Settled
    <3>3. outcome[TheRun] = "none" /\ outcome'[TheRun] = Verdict(tasks_failed[one])
      BY <1>0, <2>0, <2>3 DEF Finish, Ended, TypeOK, SoleInv, VerdictStands
    <3>4. Task # {}
      BY PlanAssumption
    <3>5. Verdict(tasks_failed[one]) =
            IF \A t \in Task : task_status[t] = "completed" THEN "completed"
            ELSE IF \A t \in Task : task_status[t] = "failed" THEN "failed"
            ELSE "partial"
      BY <3>1, <3>4, VerdictMeaning
    <3>6. UNCHANGED <<plan.dependencies, task_status>>
      BY <2>3 DEF Finish, Ended
    <3>7. Contract!Report
      BY <3>2, <3>3, <3>5, <3>6 DEF Contract!Report, Contract!Over
    <3> QED BY <3>7 DEF Contract!Next
  <2>4. CASE UNCHANGED vars
    BY <2>4 DEF vars, Contract!vars
  <2> QED BY <2>1, <2>2, <2>3, <2>4 DEF Next, Step, Answer
<1> QED BY <1>1, <1>2, SoleExecution, PTL DEF Spec, ContractSafe, Contract!SafeSpec
-----------------------------------------------------------------------------
(* Behind the routes, with connections that break and a server that is     *)
(* restarted, every step is one of execute_plan's or none.                 *)
LEMMA StreamStep == [StreamNext]_svars => [Next]_vars
<1> SUFFICES ASSUME [StreamNext]_svars PROVE Next \/ UNCHANGED vars
  OBVIOUS
<1>1. ASSUME NEW r \in Runs, Execute(r) \/ Proceed(r) \/ Conclude(r) PROVE Next
  BY <1>1 DEF Execute, Proceed, Conclude, Next, Step
<1>2. ASSUME NEW r \in Runs, NEW inserted \in BOOLEAN,
             ExecuteUnknown(r) \/ LogRun(r, inserted) \/ ReadEnd(r) \/ Break(r)
      PROVE UNCHANGED vars
  BY <1>2 DEF ExecuteUnknown, LogRun, ReadEnd, Break
<1>3. CASE Restart \/ UNCHANGED svars
  BY <1>3 DEF Restart, svars
<1> QED BY <1>1, <1>2, <1>3 DEF StreamNext

(* What holds of execute_plan holds of it behind the routes. *)
THEOREM StreamImplements == StreamSpec => Init /\ [][Next]_vars
BY StreamStep, PTL DEF StreamSpec, StreamInit

(* Behind the routes too an execution's summary agrees with its events,    *)
(* nothing stays running that nobody waits for, a task's events come in    *)
(* order and no task of a layered plan starts before what it depends on    *)
(* has ended, whatever connections break and if the server is restarted.   *)
THEOREM StreamedExecutions ==
  StreamSpec => /\ [](SummaryMatchesEvents /\ NothingLeftRunning)
                /\ EventsInOrder
                /\ LaunchAfterDependenciesSettle
<1>1. Init /\ [][Next]_vars => [](LevelInv /\ CountInv /\ NothingLeftRunning)
  BY LevelInit, LevelStep, CountInit, CountStep, OrphanInit, OrphanStep, PTL
<1> QED BY <1>1, StreamImplements, Counted, OrderedStep, LaunchStep, PTL
        DEF EventsInOrder, LaunchAfterDependenciesSettle

(* A task's status tells of a failure only if some execution heard of it,  *)
(* and a task is skipped only behind a failure some execution heard of.    *)
FailuresHeard ==
  \A t \in Task : task_status[t] = "failed" => \E q \in Runs : last_event[q][t] = "task_failed"

SkipsHeard ==
  \A r \in Runs, t \in Task : last_event[r][t] = "task_skipped" =>
    \E q \in Runs : \E d \in Deps(t) : last_event[q][d] = "task_failed"

OutcomeKept == \A r \in Runs : phase[r] = "returned" => outcome[r] = Verdict(tasks_failed[r])

RowsReport ==
  \A r \in Runs : row[r] = "completed" => phase[r] = "returned" /\ outcome[r] = "completed"

CauseInv == LevelInv /\ CountInv /\ FailuresHeard /\ SkipsHeard /\ OutcomeKept

(* What an execution has heard the failure of stays failed to it. *)
LEMMA FailureStays ==
  ASSUME LevelInv, [Next]_vars, NEW r \in Runs, NEW t \in Task, last_event[r][t] = "task_failed"
  PROVE  last_event'[r][t] = "task_failed"
BY EventStep

LEMMA DepsStay ==
  ASSUME LevelInv, [Next]_vars, NEW t \in Task
  PROVE  Deps(t)' = Deps(t) /\ Deps(t) \subseteq Task
<1>1. plan' = plan
  BY DEF Next, Step, Answer, Start, NextLevel, EnterLevel, SettleTask, Finish, Ended, vars
<1> QED BY <1>1, PlanAssumption DEF Deps, LevelInv, TypeOK, PlanShape

(* Where failures and skips come from. *)
LEMMA CauseStep == CauseInv /\ [Next]_vars => FailuresHeard' /\ SkipsHeard'
<1> SUFFICES ASSUME CauseInv, [Next]_vars PROVE FailuresHeard' /\ SkipsHeard'
  OBVIOUS
<1>0. TypeOK /\ LevelInv
  BY DEF CauseInv, LevelInv
<1>1. ASSUME NEW t \in Task, task_status'[t] = "failed"
      PROVE  \E q \in Runs : last_event'[q][t] = "task_failed"
  <2>1. CASE task_status[t] = "failed"
    BY <1>0, <2>1, FailureStays DEF CauseInv, FailuresHeard
  <2>2. CASE task_status[t] # "failed"
    <3>1. ASSUME NEW r \in Runs, Start(r) \/ NextLevel(r) PROVE FALSE
      <4>1. PICK d \in {plan.depth[u] : u \in Task} : EnterLevel(r, d)
        BY <3>1 DEF Start, NextLevel
      <4> QED BY <1>0, <1>1, <2>2, <4>1, LevelShape
    <3>2. ASSUME NEW r \in Runs, NEW u \in Task, NEW success \in BOOLEAN, SettleTask(r, u, success)
          PROVE  last_event'[r][t] = "task_failed"
      BY <1>0, <1>1, <2>2, <3>2 DEF SettleTask, TypeOK
    <3>3. ASSUME NEW r \in Runs, Finish(r) PROVE FALSE
      BY <1>1, <2>2, <3>3 DEF Finish, Ended
    <3>4. CASE UNCHANGED vars
      BY <1>1, <2>2, <3>4 DEF vars
    <3> QED BY <3>1, <3>2, <3>3, <3>4 DEF Next, Step, Answer
  <2> QED BY <2>1, <2>2
<1>2. ASSUME NEW r \in Runs, NEW t \in Task, last_event'[r][t] = "task_skipped"
      PROVE  \E q \in Runs : \E d \in Deps(t) : last_event'[q][d] = "task_failed"
  <2>1. CASE last_event[r][t] = "task_skipped"
    BY <1>0, <2>1, FailureStays, DepsStay DEF CauseInv, SkipsHeard
  <2>2. CASE last_event[r][t] # "task_skipped"
    <3>1. ASSUME NEW s \in Runs, Start(s) \/ NextLevel(s) PROVE DepsFailed(t)
      <4>1. PICK d \in {plan.depth[u] : u \in Task} : EnterLevel(s, d)
        BY <3>1 DEF Start, NextLevel
      <4>2. s = r /\ t \in TasksAt(d)
        BY <1>0, <1>2, <2>2, <4>1, LevelShape
      <4>3. last_event'[r][t] = IF DepsFailed(t) THEN "task_skipped" ELSE "task_started"
        BY <1>0, <4>1, <4>2, LevelShape
      <4> QED BY <1>2, <4>3
    <3>2. ASSUME NEW s \in Runs, NEW u \in Task, NEW success \in BOOLEAN, SettleTask(s, u, success)
          PROVE  FALSE
      BY <1>0, <1>2, <2>2, <3>2 DEF SettleTask, TypeOK
    <3>3. ASSUME NEW s \in Runs, Finish(s) PROVE FALSE
      BY <1>2, <2>2, <3>3 DEF Finish, Ended
    <3>4. ASSUME UNCHANGED vars PROVE FALSE
      BY <1>2, <2>2, <3>4 DEF vars
    <3>5. PICK s \in Runs : Start(s) \/ NextLevel(s)
      BY <3>2, <3>3, <3>4 DEF Next, Step, Answer
    <3>6. PICK d \in Deps(t) : task_status[d] = "failed"
      BY <3>1, <3>5 DEF DepsFailed
    <3> QED BY <1>0, <3>6, FailureStays, DepsStay DEF CauseInv, FailuresHeard
  <2> QED BY <2>1, <2>2
<1> QED BY <1>0, <1>1, <1>2, DepsStay DEF FailuresHeard, SkipsHeard

(* A verdict is not changed after the return. *)
LEMMA OutcomeStep == CauseInv /\ [Next]_vars => OutcomeKept'
<1> SUFFICES ASSUME CauseInv, [Next]_vars, NEW r \in Runs, phase'[r] = "returned"
             PROVE  outcome'[r] = Verdict(tasks_failed'[r])
  BY DEF OutcomeKept, Verdict
<1>0. TypeOK /\ LevelInv /\ OutcomeKept
  BY DEF CauseInv, LevelInv
<1>1. ASSUME NEW s \in Runs, Start(s) \/ NextLevel(s) PROVE outcome'[r] = Verdict(tasks_failed'[r])
  BY <1>0, <1>1 DEF Start, NextLevel, EnterLevel, TypeOK, OutcomeKept
<1>2. ASSUME NEW s \in Runs, NEW t \in Task, NEW success \in BOOLEAN, SettleTask(s, t, success)
      PROVE  outcome'[r] = Verdict(tasks_failed'[r])
  <2>1. phase[r] = "returned" /\ outcome' = outcome
    BY <1>2 DEF SettleTask
  <2>2. s # r
    BY <1>0, <1>2, <2>1 DEF SettleTask, InFlight, LevelInv, ReturnedSettled, Settled
  <2>3. tasks_failed'[r] = tasks_failed[r]
    BY <1>0, <1>2, <2>2 DEF SettleTask, TypeOK
  <2> QED BY <1>0, <2>1, <2>3 DEF OutcomeKept
<1>3. ASSUME NEW s \in Runs, Finish(s) PROVE outcome'[r] = Verdict(tasks_failed'[r])
  BY <1>0, <1>3 DEF Finish, Ended, TypeOK, OutcomeKept
<1>4. CASE UNCHANGED vars
  BY <1>0, <1>4 DEF vars, OutcomeKept
<1> QED BY <1>1, <1>2, <1>3, <1>4 DEF Next, Step, Answer

(* A returned outcome stays, and with it what a row reports. *)
LEMMA RowStep == CauseInv /\ RowsReport /\ [StreamNext]_svars => RowsReport'
<1> SUFFICES ASSUME CauseInv, RowsReport, [StreamNext]_svars, NEW r \in Runs, row'[r] = "completed"
             PROVE  phase'[r] = "returned" /\ outcome'[r] = "completed"
  BY DEF RowsReport
<1>0. TypeOK /\ LevelInv
  BY DEF CauseInv, LevelInv
<1>1. ASSUME phase[r] = "returned", outcome[r] = "completed"
      PROVE  phase'[r] = "returned" /\ outcome'[r] = "completed"
  BY <1>0, <1>1, StreamStep
     DEF Next, Step, Answer, Start, NextLevel, EnterLevel, SettleTask, Finish, Ended, vars, TypeOK
<1>2. CASE row[r] = "completed"
  BY <1>1, <1>2 DEF RowsReport
<1>3. CASE row[r] # "completed"
  <2>1. PICK s \in Runs, inserted \in BOOLEAN : LogRun(s, inserted)
    BY <1>3 DEF StreamNext, svars, Restart, Execute, ExecuteUnknown, Proceed, Conclude, ReadEnd, Break
  <2>2. s = r /\ inserted /\ RowStatus(outcome[s]) = "completed"
    BY <1>3, <2>1 DEF LogRun
  <2> QED BY <2>1, <2>2, <1>1 DEF LogRun, RowStatus
<1> QED BY <1>2, <1>3

(* For every plan, cyclic or not, any number of pages and plain requests:  *)
(* a completed row stands for a whole plan, but for tasks behind another   *)
(* execution's failure.                                                    *)
THEOREM WholeRows == StreamSpec => []CompletedRowIsWhole
<1>1. StreamInit => CauseInv /\ RowsReport
  <2> SUFFICES ASSUME StreamInit PROVE FailuresHeard /\ SkipsHeard /\ OutcomeKept /\ RowsReport
    BY LevelInit, CountInit DEF CauseInv, StreamInit
  <2> QED BY DEF StreamInit, Init, FailuresHeard, SkipsHeard, OutcomeKept, RowsReport
<1>2. CauseInv /\ RowsReport /\ [StreamNext]_svars => CauseInv' /\ RowsReport'
  BY StreamStep, LevelStep, CountStep, CauseStep, OutcomeStep, RowStep DEF CauseInv
<1>3. CauseInv /\ RowsReport => CompletedRowIsWhole
  <2> SUFFICES ASSUME CauseInv, RowsReport, NEW r \in Runs, row[r] = "completed",
                      NEW t \in Task, last_event[r][t] # "task_completed"
               PROVE  /\ last_event[r][t] = "task_skipped"
                      /\ \E q \in Runs \ {r} : \E d \in Deps(t) : last_event[q][d] = "task_failed"
    BY DEF CompletedRowIsWhole
  <2>1. phase[r] = "returned" /\ outcome[r] = "completed" /\ TypeOK
    BY DEF RowsReport, CauseInv, LevelInv
  <2>2. tasks_failed[r] = 0
    BY <2>1 DEF CauseInv, OutcomeKept, Verdict
  <2>3. Told(r, "task_failed") = {}
    <3>1. IsFiniteSet(Told(r, "task_failed"))
      BY PlanAssumption, FS_Subset DEF Told
    <3> QED BY <2>2, <3>1, FS_EmptySet DEF CauseInv, CountInv
  <2>4. \A u \in Task : last_event[r][u] \in Settled /\ last_event[r][u] # "task_failed"
    BY <2>1, <2>3 DEF CauseInv, LevelInv, ReturnedSettled, Told
  <2>5. last_event[r][t] = "task_skipped"
    BY <2>4 DEF Settled
  <2>6. Deps(t) \subseteq Task
    BY <2>1, PlanAssumption DEF Deps, TypeOK, PlanShape
  <2> QED BY <2>4, <2>5, <2>6 DEF CauseInv, SkipsHeard
<1> QED BY <1>1, <1>2, <1>3, PTL DEF StreamSpec

-----------------------------------------------------------------------------
(* What a page is sent, against what the run has said.  A connection that  *)
(* breaks cuts the story short; until then the latest of what was written  *)
(* about a task is the run's last event of it, and once a task is told to  *)
(* have ended that is how it ended.                                        *)
Tells(m, t) == m.task = t /\ TaskNews(m)

NeverAhead(r, t) ==
  \A i \in DOMAIN sent[r] :
    Tells(sent[r][i], t) /\ sent[r][i].type # "task_started" => sent[r][i].type = last_event[r][t]

UpToDate(r, t) ==
  IF last_event[r][t] \in {"none", "task_skipped"}
  THEN \A i \in DOMAIN sent[r] : ~ Tells(sent[r][i], t)
  ELSE \E i \in DOMAIN sent[r] :
         /\ Tells(sent[r][i], t)
         /\ \A j \in DOMAIN sent[r] :
              i <= j /\ Tells(sent[r][j], t) => sent[r][j].type = last_event[r][t]

StoryTold ==
  \A r \in Pages, t \in Task :
    NeverAhead(r, t) /\ (connection[r] # "broken" => UpToDate(r, t))

StreamInv == LevelInv /\ StreamTypeOK /\ StoryTold

(* The messages of a step say which of the run's last events are new, and  *)
(* nothing else of tasks.                                                  *)
Reports(r, new) ==
  /\ \A i \in DOMAIN new : TaskNews(new[i]) =>
       /\ last_event'[r][new[i].task] # last_event[r][new[i].task]
       /\ new[i].type = last_event'[r][new[i].task]
  /\ \A t \in Task : last_event'[r][t] # last_event[r][t] =>
       \E i \in DOMAIN new : new[i] = About(last_event'[r][t], t)

LEMMA LinesReport ==
  ASSUME LevelInv, [Next]_vars, NEW r \in Runs, NEW told \in TaskMessages(r)
  PROVE  told \in Seq(Message) /\ Reports(r, told)
<1>1. IsFiniteSet(ToldNow(r)) /\ ToldNow(r) \subseteq Task
  BY PlanAssumption, FS_Subset DEF ToldNow
<1>2. PICK line \in Lines(ToldNow(r)) :
        told = [i \in DOMAIN line |-> About(last_event'[r][line[i]], line[i])]
  BY DEF TaskMessages
<1>3. /\ line \in [1..Cardinality(ToldNow(r)) -> ToldNow(r)]
      /\ \A t \in ToldNow(r) : \E i \in DOMAIN line : line[i] = t
  BY <1>2 DEF Lines, Range
<1>4. Cardinality(ToldNow(r)) \in Nat
  BY <1>1, FS_CardinalityType
<1>5. ASSUME NEW t \in ToldNow(r) PROVE About(last_event'[r][t], t) \in Message
  <2>1. last_event'[r][t] \in TaskEvent \ {"none"}
    BY EventStep DEF ToldNow, TaskEvent
  <2> QED BY <2>1 DEF About, Message, MessageType, ToldNow
<1>6. told \in [1..Cardinality(ToldNow(r)) -> Message]
  BY <1>2, <1>3, <1>5
<1>7. Reports(r, told)
  BY <1>2, <1>3 DEF Reports, About, ToldNow
<1> QED BY <1>4, <1>6, <1>7

LEMMA PlanMessages ==
  ASSUME NEW type \in {"plan_started", "plan_completed", "result", "error"}
  PROVE  /\ ThePlan(type) \in Seq(Message) /\ DOMAIN ThePlan(type) = {1}
         /\ ~ TaskNews(ThePlan(type)[1])
BY DEF ThePlan, About, Message, MessageType, TaskNews

LEMMA OneThenMore ==
  ASSUME NEW S, NEW a \in Seq(S), NEW b \in Seq(S)
  PROVE  Len(a) = 1 =>
           /\ a \o b \in Seq(S)
           /\ Len(a \o b) = 1 + Len(b)
           /\ (a \o b)[1] = a[1]
           /\ \A i \in 1..Len(b) : (a \o b)[1 + i] = b[i]
<1>1. /\ a \o b \in Seq(S)
      /\ Len(a \o b) = Len(a) + Len(b)
      /\ \A i \in 1..Len(a) : (a \o b)[i] = a[i]
      /\ \A i \in 1..Len(b) : (a \o b)[Len(a) + i] = b[i]
  OBVIOUS
<1>2. 1 \in 1..1
  OBVIOUS
<1> QED BY <1>1, <1>2, Zenon

(* A run's step is silent about the others. *)
LEMMA OwnEvents ==
  ASSUME TypeOK, NEW s \in Runs, Step(s), NEW r \in Runs, r # s
  PROVE  last_event'[r] = last_event[r]
BY DEF Step, Start, NextLevel, EnterLevel, Finish, Answer, SettleTask, TypeOK

LEMMA SilentReports ==
  ASSUME NEW r, last_event'[r] = last_event[r], NEW new,
         \A i \in DOMAIN new : ~ TaskNews(new[i])
  PROVE  Reports(r, new)
BY DEF Reports

(* A step of the stream writes what the run has to tell, or finds the      *)
(* connection broken, or breaks it.                                        *)
LEMMA StepWrites ==
  ASSUME LevelInv, StreamTypeOK, [StreamNext]_svars, NEW r \in Pages
  PROVE  \/ connection'[r] = "broken" /\ sent'[r] = sent[r]
         \/ /\ connection[r] # "broken"
            /\ \E new \in Seq(Message) : sent'[r] = sent[r] \o new /\ Reports(r, new)
<1> DEFINE Written == \/ connection'[r] = "broken" /\ sent'[r] = sent[r]
                      \/ /\ connection[r] # "broken"
                         /\ \E new \in Seq(Message) : sent'[r] = sent[r] \o new /\ Reports(r, new)
<1>0. /\ r \in Runs /\ TypeOK /\ [Next]_vars
      /\ connection \in [Runs -> {"none", "open", "ended", "broken"}]
      /\ sent \in [Runs -> Seq(Message)]
  BY StreamAssumption, StreamStep DEF LevelInv, StreamTypeOK
<1>1. ASSUME last_event'[r] = last_event[r], sent'[r] = sent[r],
             connection[r] = "broken" => connection'[r] = "broken"
      PROVE  Written
  <2>1. <<>> \in Seq(Message) /\ sent'[r] = sent[r] \o <<>>
    BY <1>0, <1>1
  <2>2. Reports(r, <<>>)
    BY <1>1, SilentReports
  <2> QED BY <1>1, <2>1, <2>2
<1>2. ASSUME NEW new \in Seq(Message), Reports(r, new), Write(r, new),
             connection[r] = "broken" => connection'[r] = "broken"
      PROVE  Written
  BY <1>0, <1>2 DEF Write
<1>3. ASSUME NEW s \in Runs, s # r, NEW new, Write(s, new) PROVE sent'[r] = sent[r]
  BY <1>0, <1>3 DEF Write
<1>4. ASSUME NEW s \in Runs, s # r, NEW next, Ask(s, next) PROVE connection'[r] = connection[r]
  BY <1>0, <1>4 DEF Ask
<1>5. ASSUME NEW s \in Runs, Execute(s) PROVE Written
  <2>1. Step(s) /\ Ask(s, "open")
    BY <1>5 DEF Execute, Step
  <2>2. PICK told \in TaskMessages(s) : Write(s, ThePlan("plan_started") \o told)
    BY <1>5 DEF Execute
  <2>3. CASE s # r
    BY <1>0, <1>1, <1>3, <1>4, <2>1, <2>2, <2>3, OwnEvents
  <2>4. CASE s = r
    <3> DEFINE new == ThePlan("plan_started") \o told
    <3>1. told \in Seq(Message) /\ Reports(r, told)
      BY <1>0, <2>2, <2>4, LinesReport
    <3>2. ThePlan("plan_started") \in Seq(Message) /\ Len(ThePlan("plan_started")) = 1
      BY PlanMessages DEF ThePlan
    <3>3. new \in Seq(Message) /\ Len(new) = 1 + Len(told)
      BY <3>1, <3>2, OneThenMore, Zenon
    <3>4. ~ TaskNews(new[1])
      <4>1. new[1] = ThePlan("plan_started")[1]
        BY <3>1, <3>2, OneThenMore, Zenon
      <4> QED BY <4>1, PlanMessages
    <3>5. \A i \in 1..Len(told) : new[1 + i] = told[i]
      BY <3>1, <3>2, OneThenMore, Zenon
    <3>6. \A i \in 1..Len(new) : i = 1 \/ (i - 1 \in 1..Len(told) /\ new[i] = told[i - 1])
      BY <3>1, <3>3, <3>5
    <3> HIDE DEF new
    <3>7. Reports(r, new)
      <4>1. ASSUME NEW t \in Task, last_event'[r][t] # last_event[r][t]
            PROVE  \E i \in DOMAIN new : new[i] = About(last_event'[r][t], t)
        <5>1. PICK i \in 1..Len(told) : told[i] = About(last_event'[r][t], t)
          BY <3>1, <4>1 DEF Reports
        <5> QED BY <3>1, <3>3, <3>5, <5>1
      <4>2. ASSUME NEW i \in DOMAIN new, TaskNews(new[i])
            PROVE  /\ last_event'[r][new[i].task] # last_event[r][new[i].task]
                   /\ new[i].type = last_event'[r][new[i].task]
        <5>1. i - 1 \in DOMAIN told /\ new[i] = told[i - 1]
          BY <3>1, <3>3, <3>4, <3>6, <4>2
        <5> QED BY <3>1, <4>2, <5>1 DEF Reports
      <4> QED BY <4>1, <4>2 DEF Reports
    <3>8. Write(r, new) /\ connection[r] # "broken"
      BY <2>1, <2>2, <2>4 DEF new, Ask
    <3> QED BY <1>2, <3>3, <3>7, <3>8
  <2> QED BY <2>3, <2>4
<1>6. ASSUME NEW s \in Runs, ExecuteUnknown(s) PROVE Written
  <2>1. last_event' = last_event /\ Ask(s, "ended") /\ Write(s, ThePlan("error"))
    BY <1>6 DEF ExecuteUnknown, vars
  <2>2. CASE s # r
    BY <1>1, <1>3, <1>4, <2>1, <2>2
  <2>3. CASE s = r
    <3>1. connection[r] # "broken"
      BY <2>1, <2>3 DEF Ask
    <3>2. Reports(r, ThePlan("error"))
      BY <2>1, PlanMessages, SilentReports
    <3> QED BY <1>2, <2>1, <2>3, <3>1, <3>2, PlanMessages
  <2> QED BY <2>2, <2>3
<1>7. ASSUME NEW s \in Runs, Proceed(s) PROVE Written
  <2>1. Step(s) /\ connection' = connection
    BY <1>7 DEF Proceed, Step
  <2>2. PICK told \in TaskMessages(s) : Write(s, told)
    BY <1>7 DEF Proceed
  <2>3. CASE s # r
    BY <1>0, <1>1, <1>3, <2>1, <2>2, <2>3, OwnEvents
  <2>4. CASE s = r
    BY <1>0, <1>2, <2>1, <2>2, <2>4, LinesReport
  <2> QED BY <2>3, <2>4
<1>8. ASSUME NEW s \in Runs, Conclude(s) PROVE Written
  <2> DEFINE new == ThePlan("plan_completed") \o ThePlan("result")
  <2>1. last_event' = last_event /\ connection' = connection /\ Write(s, new)
    BY <1>8 DEF Conclude, Finish
  <2>2. new \in Seq(Message) /\ \A i \in DOMAIN new : ~ TaskNews(new[i])
    <3>1. /\ ThePlan("plan_completed") \in Seq(Message) /\ ThePlan("result") \in Seq(Message)
          /\ Len(ThePlan("plan_completed")) = 1 /\ Len(ThePlan("result")) = 1
      BY PlanMessages DEF ThePlan
    <3>2. Len(new) = 2 /\ new[1] = ThePlan("plan_completed")[1] /\ new[1 + 1] = ThePlan("result")[1]
      BY <3>1, OneThenMore
    <3> QED BY <3>1, <3>2, PlanMessages
  <2> HIDE DEF new
  <2>3. CASE s # r
    BY <1>1, <1>3, <2>1, <2>3
  <2>4. CASE s = r
    BY <1>2, <2>1, <2>2, <2>4, SilentReports
  <2> QED BY <2>3, <2>4
<1>9. ASSUME NEW s \in Runs, NEW inserted \in BOOLEAN, LogRun(s, inserted) PROVE Written
  <2> DEFINE new == IF inserted THEN <<>> ELSE ThePlan("error")
  <2>1. last_event' = last_event /\ Write(s, new)
    BY <1>9 DEF LogRun, vars
  <2>2. connection[r] = "broken" => connection'[r] = "broken"
    BY <1>0, <1>9 DEF LogRun, End
  <2>3. new \in Seq(Message) /\ \A i \in DOMAIN new : ~ TaskNews(new[i])
    BY PlanMessages
  <2> HIDE DEF new
  <2>4. CASE s # r
    BY <1>1, <1>3, <2>1, <2>2, <2>4
  <2>5. CASE s = r
    BY <1>2, <2>1, <2>2, <2>3, <2>5, SilentReports
  <2> QED BY <2>4, <2>5
<1>10. ASSUME NEW s \in Runs, Break(s) PROVE Written
  BY <1>0, <1>1, <1>10 DEF Break, vars
<1>11. CASE Restart
  BY <1>0, <1>1, <1>11 DEF Restart, vars
<1>12. ASSUME NEW s \in Runs, ReadEnd(s) PROVE Written
  BY <1>1, <1>12 DEF ReadEnd, vars
<1>13. CASE UNCHANGED svars
  BY <1>1, <1>13 DEF svars, vars
<1> QED BY <1>5, <1>6, <1>7, <1>8, <1>9, <1>10, <1>11, <1>12, <1>13 DEF StreamNext

LEMMA StreamTypes == LevelInv /\ StreamTypeOK /\ [StreamNext]_svars => StreamTypeOK'
<1> SUFFICES ASSUME LevelInv, StreamTypeOK, [StreamNext]_svars PROVE StreamTypeOK'
  OBVIOUS
<1>1. TypeOK'
  BY StreamStep, LevelStep DEF LevelInv
<1>2. sent' \in [Runs -> Seq(Message)]
  <2>1. ASSUME NEW r \in Pages PROVE sent'[r] \in Seq(Message)
    <3>1. sent[r] \in Seq(Message)
      BY StreamAssumption DEF StreamTypeOK
    <3>2. \A new \in Seq(Message) : sent[r] \o new \in Seq(Message)
      BY <3>1
    <3> QED BY <3>1, <3>2, StepWrites, Zenon
  <2>2. ASSUME NEW s \in Runs, NEW new, Write(s, new)
        PROVE  /\ sent' \in [Runs -> Seq(Message)] <=> \A r \in Pages : sent'[r] \in Seq(Message)
    BY <2>2, StreamAssumption DEF Write, StreamTypeOK
  <2>3. ASSUME sent' = sent PROVE sent' \in [Runs -> Seq(Message)]
    BY <2>3 DEF StreamTypeOK
  <2>4. sent' = sent \/ \E s \in Runs : \E new : Write(s, new)
    BY DEF StreamNext, svars, Restart, Execute, ExecuteUnknown, Proceed, Conclude, LogRun, ReadEnd, Break
  <2> QED BY <2>1, <2>2, <2>3, <2>4
<1>3. /\ stored' \in BOOLEAN
      /\ connection' \in [Runs -> {"none", "open", "ended", "broken"}]
      /\ answer' \in [Runs -> {"none", "pending", "success", "error"}]
      /\ is_executing' \in [Runs -> BOOLEAN]
      /\ row' \in [Runs -> {"none", "completed", "failed", "refused"}]
  <2> USE DEF StreamTypeOK
  <2>1. ASSUME NEW r \in Runs, NEW next \in {"open", "ended"}, Ask(r, next)
        PROVE  /\ connection' \in [Runs -> {"none", "open", "ended", "broken"}]
               /\ is_executing' \in [Runs -> BOOLEAN]
    <3>1. is_executing' \in [Runs -> BOOLEAN]
      <4>1. (r \in Pages) \in BOOLEAN
        OBVIOUS
      <4> QED BY <2>1, <4>1, Zenon DEF Ask
    <3> QED BY <2>1, <3>1 DEF Ask
  <2>8. ASSUME NEW r \in Runs, Execute(r) \/ ExecuteUnknown(r) PROVE <1>3
    BY <2>1, <2>8 DEF Execute, ExecuteUnknown
  <2>2. ASSUME NEW r \in Runs, Proceed(r) \/ Conclude(r) PROVE <1>3
    BY <2>2 DEF Proceed, Conclude
  <2>3. ASSUME NEW r \in Runs, NEW inserted \in BOOLEAN, LogRun(r, inserted) PROVE <1>3
    BY <2>3 DEF LogRun, End, RowStatus
  <2>4. ASSUME NEW r \in Runs, ReadEnd(r) PROVE <1>3
    <3>1. HasResult(r) \in BOOLEAN
      BY DEF HasResult
    <3> QED BY <2>4, <3>1 DEF ReadEnd
  <2>5. ASSUME NEW r \in Runs, Break(r) PROVE <1>3
    BY <2>5 DEF Break
  <2>6. CASE Restart
    BY <2>6 DEF Restart
  <2>7. CASE UNCHANGED svars
    BY <2>7 DEF svars
  <2> QED BY <2>2, <2>3, <2>4, <2>5, <2>6, <2>7, <2>8 DEF StreamNext
<1> QED BY <1>1, <1>2, <1>3 DEF StreamTypeOK

(* What was read of a task stays true of it, and what is new is written    *)
(* behind it.                                                              *)
LEMMA StoryStep ==
  ASSUME StreamInv, [StreamNext]_svars, NEW r \in Pages, NEW t \in Task
  PROVE  NeverAhead(r, t)' /\ (connection'[r] # "broken" => UpToDate(r, t)')
<1>0. /\ r \in Runs /\ LevelInv /\ TypeOK /\ [Next]_vars /\ NeverAhead(r, t)
      /\ connection[r] # "broken" => UpToDate(r, t)
      /\ sent[r] \in Seq(Message)
  BY StreamAssumption, StreamStep DEF StreamInv, StoryTold, LevelInv, StreamTypeOK
<1>1. last_event'[r][t] = last_event[r][t]
      \/ /\ last_event[r][t] = "none"
         /\ last_event'[r][t] \in {"task_started", "task_skipped"}
      \/ /\ last_event[r][t] = "task_started"
         /\ last_event'[r][t] \in {"task_completed", "task_failed"}
  BY <1>0, EventStep
<1>2. ASSUME NEW i \in DOMAIN sent[r], Tells(sent[r][i], t), sent[r][i].type # "task_started"
      PROVE  sent[r][i].type = last_event'[r][t]
  BY <1>0, <1>1, <1>2 DEF NeverAhead, Tells, TaskNews
<1>3. CASE connection'[r] = "broken" /\ sent'[r] = sent[r]
  BY <1>2, <1>3 DEF NeverAhead
<1>4. ASSUME connection[r] # "broken", NEW new \in Seq(Message),
             sent'[r] = sent[r] \o new, Reports(r, new)
      PROVE  NeverAhead(r, t)' /\ UpToDate(r, t)'
  <2> DEFINE n == Len(sent[r])
             m == Len(new)
  <2>1. /\ n \in Nat /\ m \in Nat /\ DOMAIN sent[r] = 1..n /\ DOMAIN new = 1..m
        /\ DOMAIN sent'[r] = 1..(n + m)
        /\ \A i \in 1..n : sent'[r][i] = sent[r][i]
        /\ \A i \in 1..m : sent'[r][n + i] = new[i]
    BY <1>0, <1>4
  <2> HIDE DEF n, m
  <2>2. \A i \in 1..(n + m) : i \in 1..n \/ (i - n \in 1..m /\ sent'[r][i] = new[i - n])
    BY <2>1
  <2>3. ASSUME NEW i \in 1..m, Tells(new[i], t)
        PROVE  new[i].type = last_event'[r][t] /\ last_event'[r][t] # last_event[r][t]
    BY <1>4, <2>1, <2>3 DEF Reports, Tells
  <2>4. NeverAhead(r, t)'
    <3> SUFFICES ASSUME NEW i \in 1..(n + m), Tells(sent'[r][i], t), sent'[r][i].type # "task_started"
                 PROVE  sent'[r][i].type = last_event'[r][t]
      BY <2>1 DEF NeverAhead, Tells, TaskNews
    <3>1. CASE i \in 1..n
      BY <1>2, <2>1, <3>1
    <3>2. CASE i \notin 1..n
      BY <2>2, <2>3, <3>2
    <3> QED BY <3>1, <3>2
  <2>5. UpToDate(r, t)' <=>
          IF last_event'[r][t] \in {"none", "task_skipped"}
          THEN \A i \in 1..(n + m) : ~ Tells(sent'[r][i], t)
          ELSE \E i \in 1..(n + m) :
                 /\ Tells(sent'[r][i], t)
                 /\ \A j \in 1..(n + m) :
                      i <= j /\ Tells(sent'[r][j], t) => sent'[r][j].type = last_event'[r][t]
    BY <2>1, Zenon DEF UpToDate, Tells, TaskNews
  <2>6. CASE last_event'[r][t] = last_event[r][t]
    <3>1. ASSUME NEW i \in 1..(n + m), Tells(sent'[r][i], t) PROVE i \in 1..n /\ Tells(sent[r][i], t)
      BY <2>1, <2>2, <2>3, <2>6, <3>1
    <3>2. CASE last_event[r][t] \in {"none", "task_skipped"}
      <4>1. \A i \in 1..(n + m) : ~ Tells(sent'[r][i], t)
        BY <1>0, <1>4, <2>1, <3>1, <3>2 DEF UpToDate
      <4> QED BY <2>4, <2>6, <2>5, <3>2, <4>1
    <3>3. CASE last_event[r][t] \notin {"none", "task_skipped"}
      <4>1. PICK i \in 1..n : /\ Tells(sent[r][i], t)
                              /\ \A j \in 1..n : i <= j /\ Tells(sent[r][j], t) =>
                                   sent[r][j].type = last_event[r][t]
        BY <1>0, <1>4, <2>1, <3>3 DEF UpToDate
      <4>2. \A j \in 1..(n + m) : i <= j /\ Tells(sent'[r][j], t) =>
              sent'[r][j].type = last_event'[r][t]
        BY <2>1, <2>6, <3>1, <4>1
      <4>3. i \in 1..(n + m) /\ Tells(sent'[r][i], t)
        BY <2>1, <4>1
      <4> QED BY <2>4, <2>6, <2>5, <3>3, <4>2, <4>3
    <3> QED BY <3>2, <3>3
  <2>7. CASE last_event'[r][t] # last_event[r][t]
    <3>1. CASE last_event'[r][t] = "task_skipped"
      <4>1. \A i \in 1..n : ~ Tells(sent[r][i], t)
        BY <1>0, <1>1, <1>4, <2>1, <2>7, <3>1 DEF UpToDate
      <4>2. \A i \in 1..m : ~ Tells(new[i], t)
        BY <2>3, <3>1 DEF Tells, TaskNews
      <4>3. \A i \in 1..(n + m) : ~ Tells(sent'[r][i], t)
        BY <2>1, <2>2, <4>1, <4>2
      <4> QED BY <2>4, <2>5, <3>1, <4>3
    <3>2. CASE last_event'[r][t] # "task_skipped"
      <4>1. last_event'[r][t] \in {"task_started", "task_completed", "task_failed"}
        BY <1>1, <2>7, <3>2
      <4>2. PICK k \in 1..m : new[k] = About(last_event'[r][t], t)
        BY <1>4, <2>1, <2>7 DEF Reports
      <4>3. n + k \in 1..(n + m) /\ Tells(sent'[r][n + k], t)
        BY <2>1, <4>1, <4>2 DEF Tells, TaskNews, About
      <4>4. \A j \in 1..(n + m) : n + k <= j /\ Tells(sent'[r][j], t) =>
              sent'[r][j].type = last_event'[r][t]
        BY <2>1, <2>2, <2>3
      <4> QED BY <2>4, <2>5, <4>1, <4>3, <4>4
    <3> QED BY <3>1, <3>2
  <2> QED BY <2>4, <2>6, <2>7
<1>5. CASE connection[r] # "broken" /\ \E new \in Seq(Message) : sent'[r] = sent[r] \o new /\ Reports(r, new)
  BY <1>4, <1>5
<1> QED BY <1>3, <1>5, StepWrites DEF StreamInv

(* A set of numbers that is not empty has a least one, and a bounded one a *)
(* greatest.                                                               *)
LEMMA LeastOf ==
  ASSUME NEW S \in SUBSET Nat, S # {}
  PROVE  \E m \in S : \A k \in S : m <= k
<1>1. \A i, j \in Nat : j < i => <<j, i>> \in OpToRel(<, Nat)
  <2> SUFFICES ASSUME NEW i \in Nat, NEW j \in Nat, j < i PROVE <<j, i>> \in OpToRel(<, Nat)
    OBVIOUS
  <2>1. <<j, i>> \in Nat \X Nat /\ <<j, i>>[1] = j /\ <<j, i>>[2] = i
    OBVIOUS
  <2> QED BY <2>1, Zenon DEF OpToRel
<1>2. \E R : IsWellFoundedOn(R, Nat) /\ \A i, j \in Nat : j < i => <<j, i>> \in R
  BY <1>1, NatLessThanWellFounded, Zenon
<1>3. PICK R : IsWellFoundedOn(R, Nat) /\ \A i, j \in Nat : j < i => <<j, i>> \in R
  BY <1>2, Zenon
<1>4. PICK m \in S : \A k \in S : <<k, m>> \notin R
  BY <1>3, WFMin, Zenon
<1>5. \A k \in S : ~ (k < m)
  BY <1>3, <1>4, Zenon
<1> QED BY <1>4, <1>5

LEMMA MaxOf ==
  ASSUME NEW n \in Nat, NEW S \in SUBSET (1..n), S # {}
  PROVE  Max(S) \in S /\ \A k \in S : k <= Max(S)
<1> DEFINE Bounds == {m \in Nat : \A k \in S : k <= m}
<1>1. Bounds \subseteq Nat /\ Bounds # {}
  <2>1. n \in Bounds
    OBVIOUS
  <2> QED BY <2>1
<1>2. PICK m \in Bounds : \A k \in Bounds : m <= k
  BY <1>1, LeastOf
<1>3. m \in Nat /\ \A k \in S : k <= m
  BY <1>2
<1>4. m \in S
  <2> SUFFICES ASSUME m \notin S PROVE FALSE
    OBVIOUS
  <2>1. PICK k \in S : k \in 1..n /\ k <= m
    BY <1>3
  <2>2. m # 0 /\ m - 1 \in Nat /\ ~ (m <= m - 1)
    BY <1>3, <2>1
  <2>3. m - 1 \in Bounds
    BY <1>3, <2>2
  <2> QED BY <1>2, <2>2, <2>3
<1> QED BY <1>3, <1>4 DEF Max

(* The events of a step can always be put in the order of the sort: the    *)
(* routes hold no execution up.                                            *)
LEMMA LinesExist ==
  ASSUME TypeOK, NEW S \in SUBSET Task
  PROVE  Lines(S) # {}
<1> DEFINE Sizes == {n \in Nat : \E T \in SUBSET Task : Cardinality(T) = n /\ Lines(T) = {}}
<1>1. \A t \in Task : plan.position[t] \in Nat
  BY PlanAssumption DEF TypeOK, PlanShape
<1>2. \A T \in SUBSET Task : IsFiniteSet(T) /\ Cardinality(T) \in Nat
  BY PlanAssumption, FS_Subset, FS_CardinalityType
<1> SUFFICES ASSUME Lines(S) = {} PROVE FALSE
  OBVIOUS
<1>3. Sizes \subseteq Nat /\ Sizes # {}
  BY <1>2
<1>4. PICK n \in Sizes : \A k \in Sizes : n <= k
  BY <1>3, LeastOf
<1>5. PICK T \in SUBSET Task : Cardinality(T) = n /\ Lines(T) = {}
  BY <1>4
<1>6. T # {}
  <2> SUFFICES ASSUME T = {} PROVE FALSE
    OBVIOUS
  <2>1. Cardinality(T) = 0
    BY FS_EmptySet
  <2>2. <<>> \in [1..0 -> T] /\ Range(<<>>) = T
    BY DEF Range
  <2>3. <<>> \in Lines(T)
    BY <2>1, <2>2 DEF Lines
  <2> QED BY <1>5, <2>3
<1>7. PICK t \in T : \A u \in T : plan.position[t] <= plan.position[u]
  <2> DEFINE Places == {plan.position[u] : u \in T}
  <2>1. Places \subseteq Nat /\ Places # {}
    BY <1>1, <1>5, <1>6
  <2>2. PICK m \in Places : \A k \in Places : m <= k
    BY <2>1, LeastOf
  <2> QED BY <2>2
<1> DEFINE m == Cardinality(T \ {t})
<1>8. m \in Nat /\ Cardinality(T) = m + 1 /\ T \ {t} \in SUBSET Task
  BY <1>2, <1>5, <1>7, FS_RemoveElement
<1>9. Lines(T \ {t}) # {}
  <2> SUFFICES ASSUME Lines(T \ {t}) = {} PROVE FALSE
    OBVIOUS
  <2>1. m \in Sizes
    BY <1>8
  <2>2. n = m + 1
    BY <1>5, <1>8
  <2>3. n <= m
    BY <1>4, <2>1
  <2> HIDE DEF m
  <2> QED BY <1>8, <2>2, <2>3
<1>10. PICK f : f \in Lines(T \ {t})
  BY <1>9
<1> HIDE DEF m
<1>11. /\ f \in [1..m -> T \ {t}]
       /\ \A u \in T \ {t} : \E i \in 1..m : f[i] = u
       /\ \A i, j \in 1..m : i < j => plan.position[f[i]] <= plan.position[f[j]]
  BY <1>10 DEF Lines, Range, m
<1> DEFINE g == [i \in 1..(m + 1) |-> IF i = 1 THEN t ELSE f[i - 1]]
<1>12. g \in [1..(m + 1) -> T]
  BY <1>7, <1>8, <1>11
<1>13. g[1] = t /\ \A i \in 1..m : g[i + 1] = f[i]
  BY <1>8, <1>11
<1>14. \A i \in 2..(m + 1) : i - 1 \in 1..m /\ g[i] = f[i - 1]
  BY <1>8
<1> HIDE DEF g
<1>15. Range(g) = T
  <2>1. ASSUME NEW u \in T PROVE \E i \in 1..(m + 1) : g[i] = u
    <3>1. CASE u = t
      BY <1>8, <1>13, <3>1
    <3>2. CASE u # t
      <4>1. PICK i \in 1..m : f[i] = u
        BY <1>11, <3>2
      <4>2. i + 1 \in 1..(m + 1)
        BY <1>8
      <4> QED BY <1>13, <4>1, <4>2
    <3> QED BY <3>1, <3>2
  <2> QED BY <1>12, <2>1 DEF Range
<1>16. ASSUME NEW i \in 1..(m + 1), NEW j \in 1..(m + 1), i < j
       PROVE  plan.position[g[i]] <= plan.position[g[j]]
  <2>1. CASE i = 1
    BY <1>7, <1>12, <1>13, <2>1
  <2>2. CASE i # 1
    <3>1. i \in 2..(m + 1) /\ j \in 2..(m + 1) /\ i - 1 < j - 1
      BY <1>8, <1>16, <2>2
    <3> QED BY <1>11, <1>14, <3>1
  <2> QED BY <2>1, <2>2
<1>17. g \in Lines(T)
  BY <1>8, <1>12, <1>15, <1>16 DEF Lines
<1> QED BY <1>5, <1>17

(* What onTaskUpdate is told in a step can always be written to the page:  *)
(* TaskMessages never leaves Execute or Proceed without a successor.       *)
LEMMA LinesOfStep == TypeOK => \A r \in Runs : TaskMessages(r) # {}
<1> SUFFICES ASSUME TypeOK, NEW r \in Runs PROVE TaskMessages(r) # {}
  OBVIOUS
<1>1. ToldNow(r) \in SUBSET Task
  BY DEF ToldNow
<1>2. PICK line : line \in Lines(ToldNow(r))
  BY <1>1, LinesExist
<1> QED BY <1>2 DEF TaskMessages

(* What a page shows when it has read n messages is the type of one of     *)
(* them, the last of those about the task.                                 *)
LEMMA ShownType ==
  ASSUME StreamTypeOK, NEW r \in Pages, NEW t \in Task, NEW n \in 0..Len(sent[r])
  PROVE  \/ /\ Shown(r, t, n) = "pending"
            /\ \A i \in 1..n : ~ Tells(sent[r][i], t)
         \/ \E i \in 1..n : /\ Tells(sent[r][i], t)
                            /\ Shown(r, t, n) = sent[r][i].type
                            /\ \A j \in 1..n : Tells(sent[r][j], t) => j <= i
<1>1. Len(sent[r]) \in Nat /\ n \in Nat
  BY StreamAssumption DEF StreamTypeOK
<1>2. TaskEvents(r, t, n) = {i \in 1..n : Tells(sent[r][i], t)}
  BY DEF TaskEvents, ExecutionEvents, HasPlanId, Tells, TaskNews
<1>3. CASE TaskEvents(r, t, n) = {}
  BY <1>2, <1>3 DEF Shown
<1>4. CASE TaskEvents(r, t, n) # {}
  <2> DEFINE i == Max(TaskEvents(r, t, n))
  <2>1. i \in TaskEvents(r, t, n) /\ \A j \in TaskEvents(r, t, n) : j <= i
    BY <1>1, <1>2, <1>4, MaxOf
  <2>2. Shown(r, t, n) = sent[r][i].type
    BY <1>4 DEF Shown
  <2> HIDE DEF i
  <2> QED BY <1>2, <2>1, <2>2
<1> QED BY <1>3, <1>4

LEMMA StoryShown == StreamInv => PageTellsTheRun
<1> SUFFICES ASSUME StreamInv, NEW r \in Pages, NEW t \in Task
             PROVE  /\ \A n \in 0..Len(sent[r]) :
                         Shown(r, t, n) \notin {"pending", "task_started"} =>
                           Shown(r, t, n) = last_event[r][t]
                    /\ connection[r] = "ended" /\ phase[r] = "returned" =>
                         Shown(r, t, Len(sent[r])) =
                           IF last_event[r][t] = "task_skipped" THEN "pending" ELSE last_event[r][t]
  BY DEF PageTellsTheRun
<1>0. /\ r \in Runs /\ StreamTypeOK /\ LevelInv /\ NeverAhead(r, t)
      /\ connection[r] # "broken" => UpToDate(r, t)
      /\ Len(sent[r]) \in Nat /\ DOMAIN sent[r] = 1..Len(sent[r])
  BY StreamAssumption DEF StreamInv, StoryTold, StreamTypeOK
<1>1. ASSUME NEW n \in 0..Len(sent[r]), Shown(r, t, n) \notin {"pending", "task_started"}
      PROVE  Shown(r, t, n) = last_event[r][t]
  <2>1. PICK i \in 1..n : Tells(sent[r][i], t) /\ Shown(r, t, n) = sent[r][i].type
    BY <1>0, <1>1, ShownType
  <2>2. i \in DOMAIN sent[r]
    BY <1>0
  <2> QED BY <1>0, <1>1, <2>1, <2>2 DEF NeverAhead
<1>2. ASSUME connection[r] = "ended", phase[r] = "returned"
      PROVE  Shown(r, t, Len(sent[r])) =
               IF last_event[r][t] = "task_skipped" THEN "pending" ELSE last_event[r][t]
  <2> DEFINE n == Len(sent[r])
  <2>1. n \in 0..Len(sent[r]) /\ UpToDate(r, t) /\ last_event[r][t] \in Settled
    BY <1>0, <1>2 DEF LevelInv, ReturnedSettled
  <2>2. CASE last_event[r][t] = "task_skipped"
    <3>1. \A i \in 1..n : ~ Tells(sent[r][i], t)
      BY <1>0, <2>1, <2>2 DEF UpToDate
    <3>2. Shown(r, t, n) = "pending"
      BY <1>0, <2>1, <3>1, ShownType
    <3> QED BY <2>2, <3>2
  <2>3. CASE last_event[r][t] # "task_skipped"
    <3>1. PICK i \in 1..n : /\ Tells(sent[r][i], t)
                            /\ \A j \in 1..n : i <= j /\ Tells(sent[r][j], t) =>
                                 sent[r][j].type = last_event[r][t]
      BY <1>0, <2>1, <2>3 DEF UpToDate, Settled
    <3>2. PICK k \in 1..n : /\ Tells(sent[r][k], t)
                            /\ Shown(r, t, n) = sent[r][k].type
                            /\ \A j \in 1..n : Tells(sent[r][j], t) => j <= k
      BY <1>0, <2>1, <3>1, ShownType
    <3> QED BY <1>0, <2>3, <3>1, <3>2
  <2> QED BY <2>2, <2>3
<1> QED BY <1>1, <1>2

LEMMA StreamInvInit == StreamInit => StreamInv
<1> SUFFICES ASSUME StreamInit PROVE StreamTypeOK /\ StoryTold
  BY LevelInit DEF StreamInv, StreamInit
<1>1. StreamTypeOK
  BY TypeInit DEF StreamInit, StreamTypeOK
<1>2. \A r \in Pages, t \in Task : last_event[r][t] = "none" /\ sent[r] = <<>>
  BY StreamAssumption DEF StreamInit, Init
<1>3. \A r \in Pages, t \in Task : NeverAhead(r, t) /\ UpToDate(r, t)
  BY <1>2 DEF NeverAhead, UpToDate
<1> QED BY <1>1, <1>3 DEF StoryTold

LEMMA StreamInvStep == StreamInv /\ [StreamNext]_svars => StreamInv'
<1> SUFFICES ASSUME StreamInv, [StreamNext]_svars PROVE StreamInv'
  OBVIOUS
<1>1. LevelInv' /\ StreamTypeOK'
  BY StreamStep, LevelStep, StreamTypes DEF StreamInv
<1>2. StoryTold'
  BY StoryStep DEF StoryTold
<1> QED BY <1>1, <1>2 DEF StreamInv

(* For every plan, any number of pages and plain requests, connections     *)
(* that break and a server that is restarted: types, and that no page      *)
(* shows a task ahead of the execution it asked for, or otherwise than it  *)
(* ended once the whole stream is read.                                    *)
THEOREM StreamTypeCorrect == StreamSpec => []StreamTypeOK
<1>1. StreamInv => StreamTypeOK
  BY DEF StreamInv
<1> QED BY <1>1, StreamInvInit, StreamInvStep, PTL DEF StreamSpec

(* What a page shows. *)
THEOREM PagesTellTheRun == StreamSpec => []PageTellsTheRun
BY StreamInvInit, StreamInvStep, StoryShown, PTL DEF StreamSpec
=============================================================================
