----------------------------- MODULE MCPlanStream -----------------------------
EXTENDS PlanStream, MCPlanExecution

(* A chain, and a cycle of two with a task behind it. *)
ChainAndCycle == {ShapeOf(g) : g \in {<< <<>>, <<1>>, <<2>> >>, << <<2>>, <<1>>, <<2>> >>}}
=============================================================================
