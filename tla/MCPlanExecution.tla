--------------------------- MODULE MCPlanExecution ---------------------------
EXTENDS PlanRefinement, TaskGraph

(* The plan create_plan and the two graph algorithms make of a graph. *)
ShapeOf(deps) ==
  LET order == TopologicalSort(deps)
  IN  [dependencies |-> [t \in DOMAIN deps |-> DependsOn(deps, t)],
       depth        |-> TaskDepths(deps),
       position     |-> [t \in DOMAIN deps |-> CHOOSE i \in DOMAIN order : order[i] = t]]

(* The graphs without cycles, up to renaming the tasks. *)
AcyclicGraphs ==
  {[t \in Task |-> Listed([i \in Task |-> i], g[t])] :
     g \in {h \in [Task -> SUBSET Task] : \A t \in Task : h[t] \subseteq 1..(t - 1)}}

AcyclicPlans == {ShapeOf(g) : g \in AcyclicGraphs}

(* Cycles of one, two and three tasks, one with a task behind it, and one  *)
(* whose walk gives two tasks on the cycle different levels.               *)
CyclicGraphs ==
  {<< <<1>>, <<>>, <<1>> >>,
   << <<2>>, <<1>>, <<>> >>,
   << <<2>>, <<1>>, <<1, 2>> >>,
   << <<3>>, <<1>>, <<2>> >>,
   << <<>>, <<1, 3>>, <<2>> >>}

MixedPlans == AcyclicPlans \cup {ShapeOf(g) : g \in CyclicGraphs}
=============================================================================
