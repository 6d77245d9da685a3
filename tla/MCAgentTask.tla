----------------------------- MODULE MCAgentTask -----------------------------
EXTENDS AgentTask, TLC

CONSTANTS k1, k2, ta, tb

(* Two tasks, of different tenants. *)
MCOwner == k1 :> ta @@ k2 :> tb
=============================================================================
