--------------------------- MODULE PlanRefinement ---------------------------
(***************************************************************************)
(* execute_plan, called once, against the contract of PlanContract: the    *)
(* tasks' statuses are the contract's states, the status in the returned   *)
(* result is its report.                                                   *)
(***************************************************************************)
EXTENDS PlanExecution

(* The run whose execution is held against the contract: the only one. *)
TheRun == CHOOSE r \in Runs : TRUE

Contract == INSTANCE PlanContract WITH
  dependencies <- plan.dependencies,
  state        <- task_status,
  report       <- outcome[TheRun]

(* One execution of an acyclic plan does only what the contract allows. *)
ContractSafe == Contract!SafeSpec

(* One execution of an acyclic plan does what the contract promises, and   *)
(* carries through what it has begun.                                      *)
ContractSpec == Contract!Spec
=============================================================================
