---------------------------- MODULE AgentRuntime ----------------------------
(***************************************************************************)
(* AgentRuntime of src/agents/index.ts: agents created when first asked    *)
(* for, kept in a Map, listed and stopped all together.                    *)
(*                                                                         *)
(* get_agent looks the agent up, awaits its start and only then enters it  *)
(* in the Map, so two requests for the same agent can both find it         *)
(* missing; execute_plan makes such requests side by side for the tasks of *)
(* one level.  An orchestrator is created anew for each of them; a worker  *)
(* is the worker registry's one instance, started again.  An id neither    *)
(* knows throws and changes nothing: it is left out.                       *)
(***************************************************************************)
EXTENDS Naturals, Sequences, FiniteSets, SequencesExt

CONSTANTS Orchestrator,   \* ids of create_agent, the CEO included
          Worker,         \* ids of the worker registry
          Request,        \* the calls of get_agent
          None

ASSUME RuntimeAssumption ==
  /\ Orchestrator \cap Worker = {}
  /\ Request \cap Worker = {}
  /\ None \notin Orchestrator \cup Worker \cup Request

AgentId == Orchestrator \cup Worker

(* A worker's instance is named for the worker, an orchestrator's for the  *)
(* request that created it.                                                *)
Instance == Worker \cup Request

VARIABLES
  agents,        \* the Map: its entries in the order of their keys
  is_connected,  \* of each instance
  pc,            \* of each request
  asked, handed, \* what a request asks for, and is answered with
  cursor,        \* how far stop_all's iteration has come
  stopping,      \* "no", "under way", "done"
  raced          \* history: the agents a start of which overlapped another
                 \* start of the same agent, or stop_all

vars == <<agents, is_connected, pc, asked, handed, cursor, stopping, raced>>

TypeOK ==
  /\ agents \in Seq([id : AgentId, instance : Instance])
  /\ \A i, j \in DOMAIN agents : agents[i].id = agents[j].id => i = j
  /\ is_connected \in [Instance -> BOOLEAN]
  /\ pc \in [Request -> {"new", "starting", "started", "returned"}]
  /\ asked \in [Request -> AgentId \cup {None}]
  /\ handed \in [Request -> Instance \cup {None}]
  /\ cursor \in 0..Len(agents)
  /\ stopping \in {"no", "under way", "done"}
  /\ raced \subseteq AgentId

Holds(id) == \E i \in DOMAIN agents : agents[i].id = id
Get(id)   == agents[CHOOSE i \in DOMAIN agents : agents[i].id = id].instance

(* Map.set: the value of a key already there is replaced in its place. *)
Set(id, instance) ==
  LET entry == [id |-> id, instance |-> instance]
  IN  IF Holds(id)
      THEN [i \in DOMAIN agents |-> IF agents[i].id = id THEN entry ELSE agents[i]]
      ELSE Append(agents, entry)

InstanceFor(q, id) == IF id \in Worker THEN id ELSE q

Starting(id) == {q \in Request : pc[q] \in {"starting", "started"} /\ asked[q] = id}

-----------------------------------------------------------------------------
Init ==
  /\ agents = <<>>
  /\ is_connected = [i \in Instance |-> FALSE]
  /\ pc = [q \in Request |-> "new"]
  /\ asked = [q \in Request |-> None]
  /\ handed = [q \in Request |-> None]
  /\ cursor = 0
  /\ stopping = "no"
  /\ raced = {}

(* get_agent finds the agent, ... (none is asked for after stop_all: the   *)
(* process exits.)                                                         *)
Found(q, id) ==
  /\ pc[q] = "new"
  /\ stopping # "done"
  /\ Holds(id)
  /\ asked' = [asked EXCEPT ![q] = id]
  /\ handed' = [handed EXCEPT ![q] = Get(id)]
  /\ pc' = [pc EXCEPT ![q] = "returned"]
  /\ UNCHANGED <<agents, is_connected, cursor, stopping, raced>>

(* Mutation: the Map is not consulted. *)
CreateAlways(q, id) ==
  /\ pc[q] = "new" /\ stopping # "done"
  /\ asked' = [asked EXCEPT ![q] = id]
  /\ pc' = [pc EXCEPT ![q] = "starting"]
  /\ raced' = IF Starting(id) # {} \/ stopping = "under way"
              THEN raced \cup {id} ELSE raced
  /\ UNCHANGED <<agents, is_connected, handed, cursor, stopping>>

(* ... or creates it and begins its start. *)
Create(q, id) ==
  /\ pc[q] = "new"
  /\ stopping # "done"
  /\ ~ Holds(id)
  /\ asked' = [asked EXCEPT ![q] = id]
  /\ pc' = [pc EXCEPT ![q] = "starting"]
  /\ raced' = IF Starting(id) # {} \/ stopping = "under way"
              THEN raced \cup {id} ELSE raced
  /\ UNCHANGED <<agents, is_connected, handed, cursor, stopping>>

(* start, after on_start. *)
Started(q) ==
  /\ pc[q] = "starting"
  /\ is_connected' = [is_connected EXCEPT ![InstanceFor(q, asked[q])] = TRUE]
  /\ pc' = [pc EXCEPT ![q] = "started"]
  /\ UNCHANGED <<agents, asked, handed, cursor, stopping, raced>>

(* get_agent after the await; a request whose agent another one has        *)
(* entered meanwhile overwrites the entry.                                 *)
Register(q) ==
  /\ pc[q] = "started"
  /\ agents' = Set(asked[q], InstanceFor(q, asked[q]))
  /\ handed' = [handed EXCEPT ![q] = InstanceFor(q, asked[q])]
  /\ pc' = [pc EXCEPT ![q] = "returned"]
  /\ UNCHANGED <<is_connected, asked, cursor, stopping, raced>>

(* Mutations: the loop ends after the first stop and the rest is cleared   *)
(* unstopped; the loop takes the first entry again after each stop.        *)
StopNextSkipping ==
  /\ stopping # "done"
  /\ cursor < Len(agents)
  /\ is_connected' = [is_connected EXCEPT ![agents[cursor + 1].instance] = FALSE]
  /\ cursor' = Len(agents)
  /\ stopping' = "under way"
  /\ raced' = raced \cup {id \in AgentId : Starting(id) # {}}
  /\ UNCHANGED <<agents, pc, asked, handed>>
StopNextRestarting ==
  /\ stopping # "done"
  /\ cursor < Len(agents)
  /\ is_connected' = [is_connected EXCEPT ![agents[1].instance] = FALSE]
  /\ stopping' = "under way"
  /\ UNCHANGED <<agents, pc, asked, handed, cursor, raced>>

(* stop_all: one stop after the other, over an iterator that also meets    *)
(* the entries added on the way.                                           *)
StopNext ==
  /\ stopping # "done"
  /\ cursor < Len(agents)
  /\ is_connected' = [is_connected EXCEPT ![agents[cursor + 1].instance] = FALSE]
  /\ cursor' = cursor + 1
  /\ stopping' = "under way"
  /\ raced' = raced \cup {id \in AgentId : Starting(id) # {}}
  /\ UNCHANGED <<agents, pc, asked, handed>>

StopEnd ==
  /\ stopping # "done"
  /\ cursor = Len(agents)
  /\ agents' = <<>>
  /\ cursor' = 0
  /\ stopping' = "done"
  /\ raced' = raced \cup {id \in AgentId : Starting(id) # {}}
  /\ UNCHANGED <<is_connected, pc, asked, handed>>

Next ==
  \/ \E q \in Request :
       \/ \E id \in AgentId : Found(q, id) \/ Create(q, id)
       \/ Started(q) \/ Register(q)
  \/ StopNext \/ StopEnd

Fairness ==
  /\ \A q \in Request : WF_vars(Started(q)) /\ WF_vars(Register(q))
  /\ WF_vars(stopping = "under way" /\ (StopNext \/ StopEnd))

Spec == Init /\ [][Next]_vars /\ Fairness

-----------------------------------------------------------------------------
(* Two requests for one agent are answered with two instances only if      *)
(* starts of it overlapped: a caller that comes later shares the tenant,   *)
(* status and current task of the one before.                              *)
OneInstanceUnlessRaced ==
  \A p, q \in Request :
    /\ handed[p] # None /\ handed[q] # None
    /\ asked[p] = asked[q]
    /\ handed[p] # handed[q]
    => asked[p] \in raced

(* stop_all leaves an instance running only of an agent whose start        *)
(* overlapped another one or stop_all itself: the entry it had was         *)
(* overwritten, or is made after the loop.                                 *)
ShutdownStopsAllUnlessRaced ==
  stopping = "done" =>
    \A q \in Request :
      asked[q] # None /\ is_connected[InstanceFor(q, asked[q])] => asked[q] \in raced

(* stop_all ends although agents may be entered into the Map it iterates,  *)
(* and every request under way is answered.                                *)
ShutdownEnds ==
  /\ stopping = "under way" ~> stopping = "done"
  /\ \A q \in Request : pc[q] = "starting" ~> pc[q] = "returned"
=============================================================================
