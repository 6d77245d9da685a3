------------------------------ MODULE Delegation ------------------------------
(***************************************************************************)
(* The CEO agent of src/agents/clawkeeper.ts and the leads it delegates    *)
(* to: routing by capability, workflows, the three attempts of             *)
(* delegate_to, the policy both agents evaluate, the completions they wait *)
(* for (complete of src/core/llm-client.ts) and the traces of their tasks  *)
(* (src/core/observability.ts).                                            *)
(*                                                                         *)
(* The CEO and each lead are one shared object.  Of BaseAgent only         *)
(* current_tenant matters here (AgentTask has the rest); it holds the      *)
(* context object of a request, written as that request.  An action is the *)
(* code between two awaits, except that an agent's outcome entry is        *)
(* written in the action that follows it: nothing here reads it.           *)
(***************************************************************************)
EXTENDS AgentPolicy, Sequences

CONSTANTS Request,
          context,        \* the tenant_context execute_task is called with
          task,           \* its task: [tenant, needs, amount, flagged, approved]
          Complex,        \* the requests is_complex_request holds of
          Decompositions, \* what the LLM may answer: sequences of [needs, flagged]
          CEO,
          Routes,         \* the tests of route_to_orchestrator, in order
          granted,        \* the capabilities each agent is configured with
          MaxRetries,     \* maxRetries of delegate_to
          MaxCalls,       \* max_retries of complete
          Nobody

Agent == {CEO} \cup {Routes[i].lead : i \in DOMAIN Routes}

TaskRecord == [tenant : {context[k].tenant : k \in Request}, needs : SUBSET Capability,
               amount : Nat, flagged : BOOLEAN, approved : BOOLEAN]

ASSUME DelegationAssumption ==
  /\ MaxRetries \in Nat
  /\ MaxCalls \in Nat \ {0}
  /\ Nobody \notin Request
  /\ Complex \subseteq Request
  /\ task \in [Request -> TaskRecord]
  /\ Decompositions \subseteq Seq([needs : SUBSET Capability, flagged : BOOLEAN])
  /\ Routes \in Seq([needs : SUBSET Capability, lead : Agent \ {CEO}])

VARIABLES
  current_tenant, \* of each agent: the request whose context it holds
  active_traces,  \* the Map by task id, as the set of its traces
  open,           \* the traces started and not ended
  pc,
  nodes,          \* the tasks a request is routed as: itself, or its workflow
  results,        \* their outcomes so far
  try,            \* retries + 1 of the delegation under way
  calls,          \* attempt of the completion under way
  handed,         \* the context the delegation under way passed to its lead
  answer,
  attempts,       \* history: how each attempt of each delegation ended
  worked_as,      \* history: the contexts leads have worked under for a request
  joined          \* history: the requests accepted while another was under way

traces == <<active_traces, open>>
history == <<attempts, worked_as, joined>>
vars == <<current_tenant, traces, pc, nodes, results, try, calls, handed, answer, history>>

-----------------------------------------------------------------------------
(* The lead of the first test that the task's capabilities meet; the CEO   *)
(* itself where none does.                                                 *)
Lead(needs) ==
  LET met == {i \in DOMAIN Routes : Routes[i].needs \cap needs # {}}
  IN  IF met = {} THEN CEO
      ELSE Routes[CHOOSE i \in met : \A j \in met : i <= j].lead

(* The task being routed and its id: a workflow's tasks have fresh ones. *)
Step(k)   == Len(results[k]) + 1
Node(k)   == nodes[k][Step(k)]
NodeId(k) == <<k, IF k \in Complex THEN Step(k) ELSE 0>>
OwnId(k)  == <<k, 0>>

(* orchestrate_workflow spreads the request's task into each subtask, and  *)
(* with it the request's input, approval and tenant.                       *)
Subtasks(k, parts) ==
  [i \in DOMAIN parts |->
     [task[k] EXCEPT !.needs = parts[i].needs, !.flagged = parts[i].flagged]]

(* start_trace: an entry with the same id is replaced, and stays open. *)
StartTrace(id, agent, n) ==
  LET trace == [id |-> id, agent |-> agent, try |-> n]
  IN  /\ active_traces' = {t \in active_traces : t.id # id} \cup {trace}
      /\ open' = open \cup {trace}

(* Mutation: the entry stays in the Map. *)
EndTraceOnly(id) ==
  /\ open' = {t \in open : t \notin active_traces \/ t.id # id}
  /\ UNCHANGED active_traces

EndTrace(id) ==
  /\ open' = {t \in open : t \notin active_traces \/ t.id # id}
  /\ active_traces' = {t \in active_traces : t.id # id}

-----------------------------------------------------------------------------
(* The agents have been created and started, and were never used. *)
Init ==
  /\ current_tenant = [a \in Agent |-> Nobody]
  /\ active_traces = {} /\ open = {}
  /\ pc = [k \in Request |-> "new"]
  /\ nodes = [k \in Request |-> <<>>]
  /\ results = [k \in Request |-> <<>>]
  /\ try = [k \in Request |-> 1]
  /\ calls = [k \in Request |-> 1]
  /\ handed = [k \in Request |-> Nobody]
  /\ answer = [k \in Request |-> "none"]
  /\ attempts = {}
  /\ worked_as = [k \in Request |-> {}]
  /\ joined = [k \in Request |-> {}]

UnderWay == {k \in Request : pc[k] \notin {"new", "done"}}

(* The CEO's execute_task returns. *)
End(k, outcome) ==
  /\ pc' = [pc EXCEPT ![k] = "done"]
  /\ answer' = [answer EXCEPT ![k] = outcome]
  /\ EndTrace(OwnId(k))

(* The loop over a workflow's tasks, or the one task of a simple request:  *)
(* the next is routed, or the answer is a success, whatever the results.   *)
Onward(k, list, outcomes) ==
  IF Len(outcomes) = Len(list) THEN End(k, "success")
  ELSE /\ pc' = [pc EXCEPT ![k] = IF Lead(list[Len(outcomes) + 1].needs) = CEO
                                  THEN "direct" ELSE "getting"]
       /\ UNCHANGED <<traces, answer>>

(* execute_task of the CEO up to its first await. *)
Accept(k) ==
  /\ pc[k] = "new"
  /\ current_tenant' = [current_tenant EXCEPT ![CEO] = k]
  /\ StartTrace(OwnId(k), CEO, 0)
  /\ pc' = [pc EXCEPT ![k] = "deciding"]
  /\ joined' = [j \in Request |-> IF j \in UnderWay THEN joined[j] \cup {k} ELSE joined[j]]
  /\ UNCHANGED <<nodes, results, try, calls, handed, answer, attempts, worked_as>>

(* The policy entry is written: the task is refused, or execute begins. *)
Decide(k) ==
  /\ pc[k] = "deciding"
  /\ IF ~Allows(task[k], context[k], granted[CEO])
     THEN End(k, "failure") /\ UNCHANGED nodes
     ELSE IF k \in Complex
     THEN /\ pc' = [pc EXCEPT ![k] = "planning"]
          /\ UNCHANGED <<nodes, traces, answer>>
     ELSE /\ nodes' = [nodes EXCEPT ![k] = <<task[k]>>]
          /\ Onward(k, <<task[k]>>, <<>>)
  /\ UNCHANGED <<current_tenant, results, try, calls, handed, history>>

-----------------------------------------------------------------------------
(* complete: an answer of 429 or 5xx is waited out and tried again. *)
RetryCompletion(k) ==
  /\ pc[k] \in {"planning", "direct", "leadWorking"}
  /\ calls[k] < MaxCalls
  /\ calls' = [calls EXCEPT ![k] = @ + 1]
  /\ UNCHANGED <<current_tenant, traces, pc, nodes, results, try, handed, answer, history>>

Completed(k) == calls' = [calls EXCEPT ![k] = 1]

(* The LLM's decomposition; an error of it is the request's. *)
Decompose(k) ==
  /\ pc[k] = "planning"
  /\ \/ \E parts \in Decompositions :
          /\ nodes' = [nodes EXCEPT ![k] = Subtasks(k, parts)]
          /\ Onward(k, Subtasks(k, parts), <<>>)
     \/ End(k, "failure") /\ UNCHANGED nodes
  /\ Completed(k)
  /\ UNCHANGED <<current_tenant, results, try, handed, history>>

(* execute_directly: an error here ends the whole request, the tasks done  *)
(* before it included.                                                     *)
WorkDirectly(k) ==
  /\ pc[k] = "direct"
  /\ \/ /\ results' = [results EXCEPT ![k] = Append(@, "direct")]
        /\ Onward(k, nodes[k], results'[k])
     \/ End(k, "failure") /\ UNCHANGED results
  /\ Completed(k)
  /\ UNCHANGED <<current_tenant, nodes, try, handed, history>>

(* get_agent has resolved: the context handed to the lead is whatever the  *)
(* CEO holds by now.  Then the lead's execute_task up to its first await.  *)
HandOver(k) ==
  LET lead == Lead(Node(k).needs)
  IN  /\ pc[k] = "getting"
      /\ handed' = [handed EXCEPT ![k] = current_tenant[CEO]]
      /\ current_tenant' = [current_tenant EXCEPT ![lead] = current_tenant[CEO]]
      /\ StartTrace(NodeId(k), lead, try[k])
      /\ pc' = [pc EXCEPT ![k] = "leadDeciding"]
      /\ UNCHANGED <<nodes, results, try, calls, answer, history>>

(* An attempt comes to its end in the lead. *)
EndAttempt(k, verdict) ==
  /\ EndTrace(NodeId(k))
  /\ attempts' = attempts \cup {[request |-> k, step |-> Step(k), try |-> try[k],
                                 handed |-> handed[k], verdict |-> verdict]}
  /\ pc' = [pc EXCEPT ![k] = IF verdict = "success" THEN "succeeded" ELSE "failed"]

(* Mutation: a retry is not put to the policy. *)
LeadDecideOnce(k) ==
  LET lead == Lead(Node(k).needs)
  IN  /\ pc[k] = "leadDeciding"
      /\ IF try[k] > 1 \/ Allows(Node(k), context[handed[k]], granted[lead])
         THEN /\ pc' = [pc EXCEPT ![k] = "leadWorking"]
              /\ worked_as' = [worked_as EXCEPT ![k] = @ \cup {current_tenant[lead]}]
              /\ UNCHANGED <<traces, attempts>>
         ELSE EndAttempt(k, "refused") /\ UNCHANGED worked_as
      /\ UNCHANGED <<current_tenant, nodes, results, try, calls, handed, answer, joined>>

(* The lead's policy entry is written, for the context it was handed; then *)
(* it works, under the context it has by now, or refuses.                  *)
LeadDecide(k) ==
  LET lead == Lead(Node(k).needs)
  IN  /\ pc[k] = "leadDeciding"
      /\ IF Allows(Node(k), context[handed[k]], granted[lead])
         THEN /\ pc' = [pc EXCEPT ![k] = "leadWorking"]
              /\ worked_as' = [worked_as EXCEPT ![k] = @ \cup {current_tenant[lead]}]
              /\ UNCHANGED <<traces, attempts>>
         ELSE EndAttempt(k, "refused") /\ UNCHANGED worked_as
      /\ UNCHANGED <<current_tenant, nodes, results, try, calls, handed, answer, joined>>

LeadWork(k) ==
  /\ pc[k] = "leadWorking"
  /\ \E verdict \in {"success", "failure"} : EndAttempt(k, verdict)
  /\ Completed(k)
  /\ UNCHANGED <<current_tenant, nodes, results, try, handed, answer, worked_as, joined>>

(* Mutation: the last attempt too is followed by another. *)
ReturnRetryingMore(k) ==
  /\ pc[k] \in {"succeeded", "failed"}
  /\ IF pc[k] = "failed" /\ try[k] <= MaxRetries + 1
     THEN /\ try' = [try EXCEPT ![k] = @ + 1]
          /\ pc' = [pc EXCEPT ![k] = "getting"]
          /\ UNCHANGED <<results, answer, traces>>
     ELSE LET status == IF pc[k] = "succeeded" THEN "completed" ELSE "failed"
          IN  /\ try' = [try EXCEPT ![k] = 1]
              /\ results' = [results EXCEPT ![k] = Append(@, status)]
              /\ Onward(k, nodes[k], results'[k])
  /\ UNCHANGED <<current_tenant, nodes, calls, handed, history>>

(* Mutation: the count of retries is lost between attempts. *)
ReturnUncounted(k) ==
  /\ pc[k] \in {"succeeded", "failed"}
  /\ IF pc[k] = "failed" /\ try[k] <= MaxRetries
     THEN /\ pc' = [pc EXCEPT ![k] = "getting"]
          /\ UNCHANGED <<results, answer, traces, try>>
     ELSE LET status == IF pc[k] = "succeeded" THEN "completed" ELSE "failed"
          IN  /\ try' = [try EXCEPT ![k] = 1]
              /\ results' = [results EXCEPT ![k] = Append(@, status)]
              /\ Onward(k, nodes[k], results'[k])
  /\ UNCHANGED <<current_tenant, nodes, calls, handed, history>>

(* The rest of delegate_to: another attempt after any failure, a refusal   *)
(* included, and after the last a result that says so, not an error.       *)
Return(k) ==
  /\ pc[k] \in {"succeeded", "failed"}
  /\ IF pc[k] = "failed" /\ try[k] <= MaxRetries
     THEN /\ try' = [try EXCEPT ![k] = @ + 1]
          /\ pc' = [pc EXCEPT ![k] = "getting"]
          /\ UNCHANGED <<results, answer, traces>>
     ELSE LET status == IF pc[k] = "succeeded" THEN "completed" ELSE "failed"
          IN  /\ try' = [try EXCEPT ![k] = 1]
              /\ results' = [results EXCEPT ![k] = Append(@, status)]
              /\ Onward(k, nodes[k], results'[k])
  /\ UNCHANGED <<current_tenant, nodes, calls, handed, history>>

Proceed(k) ==
  \/ Decide(k) \/ Decompose(k) \/ WorkDirectly(k) \/ RetryCompletion(k)
  \/ HandOver(k) \/ LeadDecide(k) \/ LeadWork(k) \/ Return(k)

Next == \E k \in Request : Accept(k) \/ Proceed(k)

(* Every await ends: audit inserts, get_agent and completions settle. *)
Fairness == \A k \in Request : WF_vars(Proceed(k))

Spec == Init /\ [][Next]_vars /\ Fairness

-----------------------------------------------------------------------------
Status == {"new", "deciding", "planning", "direct", "getting", "leadDeciding",
           "leadWorking", "succeeded", "failed", "done"}
Trace == [id : Request \X Nat, agent : Agent, try : Nat]
Attempt == [request : Request, step : Nat \ {0}, try : Nat \ {0},
            handed : Request, verdict : {"refused", "failure", "success"}]

TypeOK ==
  /\ current_tenant \in [Agent -> Request \cup {Nobody}]
  /\ active_traces \subseteq Trace /\ open \subseteq Trace
  /\ pc \in [Request -> Status]
  /\ nodes \in [Request -> Seq(TaskRecord)]
  /\ results \in [Request -> Seq({"direct", "completed", "failed"})]
  /\ try \in [Request -> 1 .. MaxRetries + 1]
  /\ calls \in [Request -> 1 .. MaxCalls]
  /\ handed \in [Request -> Request \cup {Nobody}]
  /\ answer \in [Request -> {"none", "success", "failure"}]
  /\ attempts \subseteq Attempt
  /\ worked_as \in [Request -> SUBSET Request]
  /\ joined \in [Request -> SUBSET Request]

AttemptsAt(k, i) == {a \in attempts : a.request = k /\ a.step = i}

(* The requests whose context may have been used for a request: its own    *)
(* and those accepted while it was under way.                              *)
Company(k) == {k} \cup joined[k]

(* Whatever a lead did not refuse was its to do: granted, approved where   *)
(* approval is needed, and open to the role and tenant of the context it   *)
(* was handed - which, like the one it then worked under, is another       *)
(* request's only if that request was accepted while this one was under    *)
(* way.  The CEO never sees the capabilities of a workflow's tasks: the    *)
(* leads' policy is what stands behind this.                               *)
DelegatedWorkIsAuthorised ==
  /\ \A k \in Request : worked_as[k] \subseteq Company(k)
  /\ \A a \in attempts :
       /\ a.handed \in Company(a.request)
       /\ a.verdict # "refused" =>
            LET node == nodes[a.request][a.step]
                used == context[a.handed]
            IN  /\ node.needs \subseteq granted[Lead(node.needs)]
                /\ used.tenant = node.tenant \/ used.role = SuperAdmin
                /\ \A c \in node.needs :
                     /\ used.role \in CapabilityPolicy[c].roles
                     /\ CapabilityPolicy[c].approval => task[a.request].approved

(* A retry of a refused delegation is refused again, unless a request      *)
(* accepted meanwhile has put its own context on the CEO.                  *)
RefusalOverturnedOnlyByMixUp ==
  \A k \in Request :
    joined[k] = {} =>
      \A a, b \in attempts :
        a.request = k /\ b.request = k /\ a.step = b.step
          => (a.verdict = "refused" <=> b.verdict = "refused")

LastSucceeded(k, i) ==
  \E a \in AttemptsAt(k, i) :
    /\ a.verdict = "success"
    /\ \A b \in AttemptsAt(k, i) \ {a} : b.verdict # "success" /\ b.try < a.try

Accounted(k, i) ==
  /\ results[k][i] = "direct" => AttemptsAt(k, i) = {}
  /\ results[k][i] = "completed" => LastSucceeded(k, i)
  /\ results[k][i] = "failed" =>
       /\ \A n \in 1 .. MaxRetries + 1 : \E a \in AttemptsAt(k, i) : a.try = n
       /\ \A a \in AttemptsAt(k, i) : a.verdict # "success" /\ a.try <= MaxRetries + 1

(* What the caller is told of a workflow or a delegation accounts for      *)
(* every attempt made: a task reported completed succeeded in its last     *)
(* attempt and in no other, one reported failed failed in every attempt    *)
(* it may have, none is left out of a successful answer, and only a task   *)
(* the CEO handles itself makes a failure of a request it has routed.      *)
AnswerAccountsForAttempts ==
  \A k \in Request :
    /\ \A i \in DOMAIN results[k] : Accounted(k, i)
    /\ answer[k] = "success" => Len(results[k]) = Len(nodes[k])
    /\ answer[k] = "failure" /\ nodes[k] # <<>> =>
         /\ Step(k) \in DOMAIN nodes[k]
         /\ Lead(Node(k).needs) = CEO

(* An answered request leaves nothing in the Map of active traces, and     *)
(* every trace it started has been ended, but for that of a request        *)
(* delegated under its own id: the lead's replaced it.                     *)
TracesEndUnlessReplaced ==
  \A k \in Request :
    pc[k] = "done" =>
      /\ \A t \in active_traces : t.id[1] # k
      /\ \A t \in open :
           t.id[1] = k => k \notin Complex /\ AttemptsAt(k, 1) # {} /\ t.agent = CEO
      /\ k \notin Complex /\ AttemptsAt(k, 1) # {} =>
           \E t \in open : t.id = OwnId(k) /\ t.agent = CEO

(* Every request is answered, through both loops of retries. *)
EveryRequestAnswered == \A k \in Request : pc[k] = "deciding" ~> pc[k] = "done"
=============================================================================
