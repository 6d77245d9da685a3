---------------------------- MODULE PlanCreation ----------------------------
(***************************************************************************)
(* OrchestrationService.create_plan: a command is decomposed by the        *)
(* language model into named tasks, each task is assigned to an agent by   *)
(* capability, dependency names become task ids, and the plan is stored.   *)
(*                                                                         *)
(* The decomposition is whatever JSON array the model answers with: names  *)
(* can repeat, a dependency can name no task or the task itself.           *)
(***************************************************************************)
EXTENDS TaskGraph, SequencesExt

CONSTANTS Decompositions,   \* the answers of decompose_financial_task
          Profiles,         \* agent_runtime.get_all_profiles(), in order
          MaxPlans          \* bound on the plans one behaviour creates

(* Decompositions have the type decompose_financial_task declares: on an   *)
(* answer without these arrays create_plan throws before it stores a plan. *)
ASSUME PlanCreationAssumption ==
  /\ Decompositions \subseteq
       Seq([name : STRING, dependencies : Seq(STRING), required_capabilities : Seq(STRING)])
  /\ Profiles # <<>>
  /\ MaxPlans \in Nat

VARIABLE plans              \* the plans map, in creation order

-----------------------------------------------------------------------------
(* Capabilities asked for that a profile has, counted with repetition. *)
Overlap(capabilities, profile) ==
  Len(SelectSeq(capabilities, LAMBDA c : c \in profile.capabilities))

(* best_match starts at the first profile and moves only on a strictly     *)
(* better score.  The score's divisor is the same for every profile; for   *)
(* an empty request it is 0/0, which beats nothing, as overlap 0 does.     *)
AssignAgent(capabilities) ==
  LET Better(best, p) ==
        IF Overlap(capabilities, p) > Overlap(capabilities, best)
        THEN p ELSE best
  IN  FoldLeft(Better, Profiles[1], Profiles).id

(* task_name_to_id: a Map built from pairs, where the last of two equal    *)
(* names wins.                                                             *)
TaskNameToId(decomposed, name) ==
  Max({i \in DOMAIN decomposed : decomposed[i].name = name})

KnownName(decomposed, name) ==
  \E i \in DOMAIN decomposed : decomposed[i].name = name

(* Mutation: only the names of earlier tasks are known when a task is      *)
(* mapped.                                                                 *)
MapEarlier(decomposed, t) ==
  LET earlier == SubSeq(decomposed, 1, t - 1)
      asked   == decomposed[t].dependencies
      known   == Listed(asked, {i \in DOMAIN asked : KnownName(earlier, asked[i])})
  IN  [i \in DOMAIN known |-> TaskNameToId(earlier, asked[known[i]])]

(* Names that no task bears are filtered out. *)
MapDependencies(decomposed, t) ==
  LET asked == decomposed[t].dependencies
      known == Listed(asked, {i \in DOMAIN asked : KnownName(decomposed, asked[i])})
  IN  [i \in DOMAIN known |-> TaskNameToId(decomposed, asked[known[i]])]

NewPlan(decomposed) ==
  [decomposed |-> decomposed,
   agents     |-> [t \in DOMAIN decomposed |->
                     AssignAgent(decomposed[t].required_capabilities)],
   dependencies |-> [t \in DOMAIN decomposed |->
                       MapDependencies(decomposed, t)]]

-----------------------------------------------------------------------------
Init == plans = <<>>

CreatePlan(decomposed) ==
  /\ Len(plans) < MaxPlans
  /\ plans' = Append(plans, NewPlan(decomposed))

Next == \E decomposed \in Decompositions : CreatePlan(decomposed)

Spec == Init /\ [][Next]_plans

-----------------------------------------------------------------------------
Created == Range(plans)

(* execute_plan walks the tasks in topological_sort's order: on a graph    *)
(* without cycles it lists every task once and each after everything it    *)
(* depends on; on a graph with one the plan's own order is kept.           *)
OrderRespectsDependencies ==
  \A p \in Created :
    LET deps  == p.dependencies
        order == TopologicalSort(deps)
        Pos(t) == CHOOSE i \in DOMAIN order : order[i] = t
    IN  /\ Range(order) = DOMAIN deps
        /\ Len(order) = Len(deps)
        /\ IF Acyclic(deps)
           THEN \A t \in DOMAIN deps : \A d \in DependsOn(deps, t) : Pos(d) < Pos(t)
           ELSE order = [t \in DOMAIN deps |-> t]

(* The level calculate_task_depths gives a task is the length of the       *)
(* longest chain of dependencies below it, so that execute_plan's levels   *)
(* are as few as the graph allows and each one has work.                   *)
DepthIsLongestChain ==
  \A p \in Created :
    Acyclic(p.dependencies) =>
      \A t \in DOMAIN p.dependencies :
        TaskDepths(p.dependencies)[t] = LongestChain(p.dependencies, t)

(* Levels separate a task from its dependencies exactly when the graph has *)
(* no cycle: with one, execute_plan runs some task without waiting for a   *)
(* dependency, and still runs every task (no level exceeds the task count).*)
LevelsSeparateIffAcyclic ==
  \A p \in Created :
    LET depth == TaskDepths(p.dependencies)
    IN  /\ Layered(p.dependencies, depth) <=> Acyclic(p.dependencies)
        /\ \A t \in DOMAIN depth : depth[t] \in 0..Len(depth)

(* deps are, in its order, the tasks that task t asked for by name; of the *)
(* tasks that bear one name the last is meant.                             *)
Resolves(named, t, deps) ==
  LET asked == named[t].dependencies
      Bears(i, name) == i \in DOMAIN named /\ named[i].name = name
  IN  \E place \in [DOMAIN deps -> DOMAIN asked] :
        /\ \A i, j \in DOMAIN deps : i < j => place[i] < place[j]
        /\ Range(place) = {i \in DOMAIN asked : \E j \in DOMAIN named : Bears(j, asked[i])}
        /\ \A i \in DOMAIN deps :
             /\ Bears(deps[i], asked[place[i]])
             /\ \A j \in DOMAIN named : Bears(j, asked[place[i]]) => j <= deps[i]

(* Resolving names loses nothing but the names of no task: a task's        *)
(* dependencies are, in its order, the tasks it asked for by name.  Where  *)
(* a name is repeated that is the last task of the name, and nothing can   *)
(* depend on the others.                                                   *)
NamesResolve ==
  \A p \in Created : \A t \in DOMAIN p.decomposed :
    Resolves(p.decomposed, t, p.dependencies[t])
=============================================================================
