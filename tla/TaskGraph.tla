------------------------------ MODULE TaskGraph ------------------------------
(***************************************************************************)
(* The two graph algorithms of src/agents/orchestration_service.ts: the    *)
(* order in which a plan's tasks are executed (topological_sort) and the   *)
(* level each of them runs at (calculate_task_depths).                     *)
(*                                                                         *)
(* A plan's tasks are their positions 1..n in plan.tasks.  deps[t] is the  *)
(* sequence task.dependencies: a dependency can be listed twice, a task    *)
(* can depend on itself and the graph can have cycles, since nothing       *)
(* checks what the language model returns.                                 *)
(*                                                                         *)
(* A loop is a function of the number of its turns, and calculate_depth    *)
(* one of the number of calls that may be nested.                          *)
(***************************************************************************)
EXTENDS Integers, Sequences, FiniteSetsExt

DependsOn(deps, t) == Range(deps[t])

-----------------------------------------------------------------------------
(* topological_sort *)

(* The elements of a finite set, those of a smaller key first. *)
InOrder(S, key) ==
  CHOOSE line \in [1..Cardinality(S) -> S] :
    /\ Range(line) = S
    /\ \A i, j \in DOMAIN line : i < j => key[line[i]] <= key[line[j]]

(* Some places of a sequence, from the first to the last. *)
Listed(seq, S) == InOrder(S, [i \in DOMAIN seq |-> i])

(* Mutation: a task is queued as soon as one dependency is done. *)
ReleasedEarly(deps, t, done) ==
  Listed(deps, {i \in DOMAIN deps \ done : t \in DependsOn(deps, i)})

(* The tasks whose in-degree reaches zero when t is taken off the queue,   *)
(* in the order of t's adjacency list, which create_plan fills task by     *)
(* task.                                                                   *)
Released(deps, t, done) ==
  Listed(deps, {i \in DOMAIN deps : /\ t \in DependsOn(deps, i)
                                    /\ DependsOn(deps, i) \subseteq done})

Roots(deps) == Listed(deps, {t \in DOMAIN deps : deps[t] = <<>>})

(* A turn of the loop, while the queue is not empty. *)
Turn(deps, at) ==
  IF at.queue = <<>> THEN at
  ELSE LET t      == Head(at.queue)
           sorted == Append(at.sorted, t)
       IN  [queue  |-> Tail(at.queue) \o Released(deps, t, Range(sorted)),
            sorted |-> sorted]

(* Every turn sorts a task: there are no more turns than tasks. *)
Kahn(deps) ==
  LET turn[n \in 0..Len(deps)] ==
        IF n = 0 THEN [queue |-> Roots(deps), sorted |-> <<>>] ELSE Turn(deps, turn[n - 1])
  IN  turn[Len(deps)]

(* A graph with a cycle keeps the tasks that lie on it, or behind it, out  *)
(* of Kahn's result; the code then falls back to the original order.       *)
TopologicalSort(deps) ==
  LET sorted == Kahn(deps).sorted
  IN  IF Len(sorted) # Len(deps) THEN [t \in DOMAIN deps |-> t] ELSE sorted

-----------------------------------------------------------------------------
(* calculate_task_depths *)

(* Mutations: the depth of the first, or of the last, dependency is kept. *)
FirstDepth(max_dep_depth, dep_depth) ==
  IF max_dep_depth = -1 THEN dep_depth ELSE max_dep_depth
LastDepth(max_dep_depth, dep_depth) == dep_depth

Deeper(max_dep_depth, dep_depth) == Max({max_dep_depth, dep_depth})

(* The walk's state: the visited set and the depths found so far. *)
Memo(deps) == [visited : SUBSET DOMAIN deps, depths : [DOMAIN deps -> Nat]]

(* The loop over the dependencies of a task just visited, each answered by *)
(* a call of calculate.                                                    *)
LookAtDeps(deps, calculate, memo, t) ==
  LET look[i \in 0..Len(deps[t])] ==
        IF i = 0 THEN [memo |-> [memo EXCEPT !.visited = @ \cup {t}], max |-> -1]
        ELSE LET before == look[i - 1]
                 after  == calculate[before.memo][deps[t][i]]
             IN  [memo |-> after,
                  max  |-> Deeper(before.max, after.depths[deps[t][i]])]
  IN  look[Len(deps[t])]

(* A task met again while its call is under way answers with the 0 it was  *)
(* initialised to.                                                         *)
CalculateDepth(deps, calculate, memo, t) ==
  IF t \in memo.visited THEN memo
  ELSE LET end == LookAtDeps(deps, calculate, memo, t)
       IN  [end.memo EXCEPT !.depths[t] = end.max + 1]

(* Every call but the innermost visits a task: no more of them are nested  *)
(* than there are tasks.                                                   *)
Calculation(deps) ==
  LET Call(calculate) ==
        [memo \in Memo(deps) |-> [t \in DOMAIN deps |-> CalculateDepth(deps, calculate, memo, t)]]
      calculate[n \in 0..Len(deps)] ==
        IF n = 0 THEN [memo \in Memo(deps) |-> [t \in DOMAIN deps |-> memo]]
        ELSE Call(calculate[n - 1])
  IN  calculate[Len(deps)]

TaskDepths(deps) ==
  LET memo[t \in 0..Len(deps)] ==
        IF t = 0 THEN [visited |-> {}, depths |-> [d \in DOMAIN deps |-> 0]]
        ELSE Calculation(deps)[memo[t - 1]][t]
  IN  memo[Len(deps)].depths

-----------------------------------------------------------------------------
(* Reference definitions, independent of the code. *)

(* No cycle: every non-empty set of tasks has one that depends on no       *)
(* other of the set.                                                       *)
Acyclic(deps) ==
  \A S \in SUBSET DOMAIN deps :
    S # {} => \E t \in S : DependsOn(deps, t) \cap S = {}

(* The chains of dependencies that end in t. *)
Chains(deps, t) ==
  UNION {{c \in [1..k -> DOMAIN deps] :
            /\ c[k] = t
            /\ \A i \in 1..(k - 1) : c[i] \in DependsOn(deps, c[i + 1])} :
         k \in 1..Len(deps)}

LongestChain(deps, t) == Max({Len(c) : c \in Chains(deps, t)}) - 1

(* Every dependency runs at a lower level than the task that needs it. *)
Layered(deps, depth) ==
  \A t \in DOMAIN deps : \A d \in DependsOn(deps, t) : depth[d] < depth[t]
=============================================================================
