---------------------------- MODULE PlanContract ----------------------------
(***************************************************************************)
(* What executing a dependency graph once promises, without levels,        *)
(* counters or events: tasks are taken up in any order and in any groups,  *)
(* each when everything it depends on is settled; one with a failed        *)
(* dependency is skipped; and when all are settled a report is made.       *)
(***************************************************************************)
EXTENDS Naturals

CONSTANT Task

VARIABLES dependencies,   \* [Task -> SUBSET Task], fixed
          state,          \* of each task
          report

vars == <<dependencies, state, report>>

Over == {"completed", "failed", "skipped"}

Init ==
  /\ dependencies \in [Task -> SUBSET Task]
  /\ state = [t \in Task |-> "pending"]
  /\ report = "none"

Eligible(t) ==
  /\ state[t] = "pending"
  /\ \A d \in dependencies[t] : state[d] \in Over

TakeUp(S) ==
  /\ S # {}
  /\ \A t \in S : Eligible(t)
  /\ state' = [t \in Task |->
       IF t \notin S THEN state[t]
       ELSE IF \E d \in dependencies[t] : state[d] = "failed"
            THEN "skipped" ELSE "running"]
  /\ UNCHANGED <<dependencies, report>>

Conclude(t) ==
  /\ state[t] = "running"
  /\ \E s \in {"completed", "failed"} : state' = [state EXCEPT ![t] = s]
  /\ UNCHANGED <<dependencies, report>>

Report ==
  /\ report = "none"
  /\ \A t \in Task : state[t] \in Over
  /\ report' = IF \A t \in Task : state[t] = "completed" THEN "completed"
               ELSE IF \A t \in Task : state[t] = "failed" THEN "failed"
               ELSE "partial"
  /\ UNCHANGED <<dependencies, state>>

Next ==
  \/ \E S \in SUBSET Task : TakeUp(S)
  \/ \E t \in Task : Conclude(t)
  \/ Report

SafeSpec == Init /\ [][Next]_vars

Begun == \E t \in Task : state[t] # "pending"

(* Once begun, the work is carried through. *)
Spec == SafeSpec /\ WF_vars(Begun /\ Next)
=============================================================================
