--------------------------- MODULE DelegationProofs ---------------------------
(***************************************************************************)
(* Proofs about Delegation, for any requests, agents, policies, routes and *)
(* decompositions, and any number of retries.                              *)
(***************************************************************************)
EXTENDS Delegation, SequenceTheorems, WellFoundedInduction, TLAPS

(* Every set of capabilities has its agent: of the tests that are met      *)
(* there is a first.                                                       *)
LEMMA LeadIsAgent ==
  ASSUME NEW needs
  PROVE  /\ Lead(needs) \in Agent
         /\ CEO \in Agent
<1> DEFINE met == {i \in DOMAIN Routes : Routes[i].needs \cap needs # {}}
<1>1. CEO \in Agent
  BY DEF Agent
<1>2. CASE met = {}
  BY <1>1, <1>2 DEF Lead
<1>3. CASE met # {}
  <2>1. met \subseteq Nat
    BY DelegationAssumption DEF DelegationAssumption
  <2>2. \E R : IsWellFoundedOn(R, Nat) /\ \A i, j \in Nat : j < i => <<j, i>> \in R
    <3>1. ASSUME NEW i \in Nat, NEW j \in Nat, j < i
          PROVE  <<j, i>> \in OpToRel(<, Nat)
      <4>1. <<j, i>> \in Nat \X Nat /\ <<j, i>>[1] = j /\ <<j, i>>[2] = i
        OBVIOUS
      <4> QED
        BY <3>1, <4>1, Zenon DEF OpToRel
    <3> QED
      BY <3>1, NatLessThanWellFounded, Zenon
  <2>3. PICK R : IsWellFoundedOn(R, Nat) /\ \A i, j \in Nat : j < i => <<j, i>> \in R
    BY <2>2, Zenon
  <2>4. PICK i \in met : \A j \in met : <<j, i>> \notin R
    BY <1>3, <2>1, <2>3, WFMin, Zenon
  <2>5. \A j \in met : i <= j
    <3> HIDE DEF met
    <3> TAKE j \in met
    <3>1. i \in Nat /\ j \in Nat
      BY <2>1
    <3>2. ~(j < i)
      BY <2>3, <2>4, <3>1
    <3> QED
      BY <3>1, <3>2
  <2>6. (CHOOSE m \in met : \A j \in met : m <= j) \in met
    BY <2>5
  <2> QED
    BY <1>1, <1>3, <2>6 DEF Lead, Agent
<1> QED
  BY <1>1, <1>2, <1>3

-----------------------------------------------------------------------------
(* The agent of the delegation under way. *)
LeadOf(k) == Lead(Node(k).needs)

InLead(k)     == pc[k] \in {"leadDeciding", "leadWorking"}
Delegating(k) == pc[k] \in {"getting", "leadDeciding", "leadWorking", "succeeded", "failed"}

(* Whose context an agent may hold for a request: the CEO's current tenant *)
(* is a request accepted no earlier than any under way.                    *)
Contexts ==
  /\ \A k \in Request :
       /\ k \in UnderWay => current_tenant[CEO] \in Company(k)
       /\ InLead(k) => handed[k] \in Company(k)
       /\ pc[k] = "leadDeciding" => current_tenant[LeadOf(k)] \in Company(k)
       /\ worked_as[k] \subseteq Company(k)
  /\ \A a \in attempts : a.handed \in Company(a.request)

(* Where a request is in its list of tasks. *)
StageOf(k) ==
  /\ pc[k] \in {"new", "deciding", "planning"} => nodes[k] = <<>> /\ results[k] = <<>>
  /\ Delegating(k) => Step(k) <= Len(nodes[k]) /\ LeadOf(k) # CEO
  /\ pc[k] = "direct" => Step(k) <= Len(nodes[k]) /\ LeadOf(k) = CEO
  /\ ~Delegating(k) => try[k] = 1
  /\ pc[k] # "done" => answer[k] = "none"
  /\ answer[k] = "success" => Len(results[k]) = Len(nodes[k])
  /\ answer[k] = "failure" /\ nodes[k] # <<>> =>
       Step(k) <= Len(nodes[k]) /\ LeadOf(k) = CEO
  /\ \A i \in DOMAIN nodes[k] : nodes[k][i].approved = task[k].approved

Stages == \A k \in Request : StageOf(k)

(* An attempt was refused exactly if the policy refuses its task under the *)
(* context it was handed.                                                  *)
Permitted(k, i, j) == Allows(nodes[k][i], context[j], granted[Lead(nodes[k][i].needs)])

Verdicts ==
  /\ \A a \in attempts :
       /\ a.step \in DOMAIN nodes[a.request]
       /\ a.verdict # "refused" <=> Permitted(a.request, a.step, a.handed)
  /\ \A k \in Request : pc[k] = "leadWorking" => Permitted(k, Step(k), handed[k])

(* The attempts at the task under way; Accounted is about those before it. *)
NoSuccessBelow(k, n) ==
  \A a \in AttemptsAt(k, Step(k)) : a.verdict # "success" /\ a.try < n
AllTried(k, n) == \A m \in 1 .. n : \E a \in AttemptsAt(k, Step(k)) : a.try = m

AccountOf(k) ==
  /\ \A i \in DOMAIN results[k] : Accounted(k, i)
  /\ ~Delegating(k) => AttemptsAt(k, Step(k)) = {}
  /\ pc[k] \in {"getting", "leadDeciding", "leadWorking"} =>
       AllTried(k, try[k] - 1) /\ NoSuccessBelow(k, try[k])
  /\ pc[k] = "failed" => AllTried(k, try[k]) /\ NoSuccessBelow(k, try[k] + 1)
  /\ pc[k] = "succeeded" => LastSucceeded(k, Step(k))

Accounts ==
  /\ \A a \in attempts : a.step <= Step(a.request)
  /\ \A k \in Request : AccountOf(k)

-----------------------------------------------------------------------------
LEMMA StepType ==
  ASSUME TypeOK, NEW k \in Request
  PROVE  /\ Step(k) \in Nat \ {0}
         /\ NodeId(k) \in Request \X Nat /\ OwnId(k) \in Request \X Nat
         /\ LeadOf(k) \in Agent
<1>1. results[k] \in Seq({"direct", "completed", "failed"})
  BY DEF TypeOK
<1>2. Step(k) \in Nat \ {0}
  BY <1>1, LenProperties DEF Step
<1>3. NodeId(k) \in Request \X Nat /\ OwnId(k) \in Request \X Nat
  BY <1>2 DEF NodeId, OwnId
<1>4. LeadOf(k) \in Agent
  BY LeadIsAgent DEF LeadOf
<1> QED
  BY <1>2, <1>3, <1>4

LEMMA SubtasksType ==
  ASSUME NEW k \in Request, NEW parts \in Decompositions
  PROVE  /\ Subtasks(k, parts) \in Seq(TaskRecord)
         /\ \A i \in DOMAIN Subtasks(k, parts) : Subtasks(k, parts)[i].approved = task[k].approved
<1>1. parts \in Seq([needs : SUBSET Capability, flagged : BOOLEAN])
  BY DelegationAssumption DEF DelegationAssumption
<1>2. task[k] \in TaskRecord
  BY DelegationAssumption DEF DelegationAssumption
<1> DEFINE sub(i) == [task[k] EXCEPT !.needs = parts[i].needs, !.flagged = parts[i].flagged]
<1>3. ASSUME NEW i \in 1 .. Len(parts)
      PROVE  sub(i) \in TaskRecord /\ sub(i).approved = task[k].approved
  <2>1. parts[i] \in [needs : SUBSET Capability, flagged : BOOLEAN]
    BY <1>1, ElementOfSeq
  <2> QED
    BY <1>2, <2>1 DEF TaskRecord
<1>4. DOMAIN parts = 1 .. Len(parts) /\ Len(parts) \in Nat
  BY <1>1, LenProperties
<1>5. Subtasks(k, parts) = [i \in 1 .. Len(parts) |-> sub(i)]
  BY <1>4 DEF Subtasks
<1> HIDE DEF sub
<1>6. Subtasks(k, parts) \in [1 .. Len(parts) -> TaskRecord]
  BY <1>3, <1>5
<1>7. Subtasks(k, parts) \in Seq(TaskRecord)
  BY <1>4, <1>6, IsASeq
<1>8. \A i \in DOMAIN Subtasks(k, parts) : Subtasks(k, parts)[i].approved = task[k].approved
  BY <1>3, <1>5
<1> QED
  BY <1>7, <1>8

(* What the steps that end or route a request do to its types. *)
LEMMA TracesTyped ==
  ASSUME TypeOK, NEW id \in Request \X Nat, NEW agent \in Agent, NEW n \in Nat
  PROVE  /\ StartTrace(id, agent, n) => active_traces' \subseteq Trace /\ open' \subseteq Trace
         /\ EndTrace(id) => active_traces' \subseteq Trace /\ open' \subseteq Trace
<1>1. [id |-> id, agent |-> agent, try |-> n] \in Trace
  BY DEF Trace
<1> QED
  BY <1>1 DEF StartTrace, EndTrace, TypeOK

LEMMA EndTyped ==
  ASSUME TypeOK, NEW k \in Request, NEW outcome \in {"success", "failure"}, End(k, outcome)
  PROVE  /\ pc' \in [Request -> Status] /\ answer' \in [Request -> {"none", "success", "failure"}]
         /\ active_traces' \subseteq Trace /\ open' \subseteq Trace
<1>1. active_traces' \subseteq Trace /\ open' \subseteq Trace
  BY StepType, LeadIsAgent, TracesTyped DEF End
<1>2. pc' \in [Request -> Status] /\ answer' \in [Request -> {"none", "success", "failure"}]
  BY DEF End, TypeOK, Status
<1> QED
  BY <1>1, <1>2

LEMMA OnwardTyped ==
  ASSUME TypeOK, NEW k \in Request, NEW list, NEW outcomes, Onward(k, list, outcomes)
  PROVE  /\ pc' \in [Request -> Status] /\ answer' \in [Request -> {"none", "success", "failure"}]
         /\ active_traces' \subseteq Trace /\ open' \subseteq Trace
<1>1. CASE Len(outcomes) = Len(list)
  BY <1>1, EndTyped DEF Onward
<1>2. CASE Len(outcomes) # Len(list)
  BY <1>2 DEF Onward, TypeOK, Status, traces
<1> QED
  BY <1>1, <1>2

LEMMA Initially == Init => TypeOK /\ Contexts
<1> SUFFICES ASSUME Init PROVE TypeOK /\ Contexts
  OBVIOUS
<1>1. TypeOK
  BY DelegationAssumption DEF DelegationAssumption, Init, TypeOK, Status
<1>2. Contexts
  BY DEF Init, Contexts, UnderWay, InLead
<1> QED
  BY <1>1, <1>2

(* Actions after which every request that was under way still is, or has   *)
(* ended, and whose context, if any, is one of its company.                *)
LEMMA ContextsKept ==
  ASSUME TypeOK, Contexts,
         UNCHANGED <<current_tenant, handed, worked_as, joined>>,
         attempts' = attempts,
         UnderWay' \subseteq UnderWay,
         \A k \in Request : InLead(k)' => InLead(k),
         \A k \in Request : (pc[k] = "leadDeciding")' =>
                              pc[k] = "leadDeciding" /\ LeadOf(k)' = LeadOf(k)
  PROVE  Contexts'
<1>1. \A k \in Request : Company(k)' = Company(k)
  BY DEF Company
<1>2. ASSUME NEW k \in Request
      PROVE  /\ k \in UnderWay' => (current_tenant[CEO])' \in Company(k)'
             /\ InLead(k)' => (handed[k])' \in Company(k)'
             /\ (pc[k] = "leadDeciding")' => (current_tenant[LeadOf(k)])' \in Company(k)'
             /\ (worked_as[k])' \subseteq Company(k)'
  BY <1>1 DEF Contexts
<1>3. \A a \in attempts' : a.handed \in Company(a.request)'
  <2>1. \A a \in attempts : a.request \in Request
    BY DEF TypeOK, Attempt
  <2> QED
    BY <1>1, <2>1 DEF Contexts
<1> QED
  BY <1>2, <1>3 DEF Contexts

LEMMA AcceptTyped ==
  ASSUME TypeOK, Contexts, NEW k \in Request, Accept(k)
  PROVE  TypeOK' /\ Contexts'
<1>1. active_traces' \subseteq Trace /\ open' \subseteq Trace
  BY StepType, LeadIsAgent, TracesTyped DEF Accept
<1>2. TypeOK'
  BY <1>1, LeadIsAgent DEF TypeOK, Accept, Status
<1>3. \A j \in Request : Company(j)' = Company(j) \cup (IF j \in UnderWay THEN {k} ELSE {})
  BY DEF Company, Accept, TypeOK
<1>4. \A j \in Request : j \in UnderWay' => j = k \/ j \in UnderWay
  BY DEF UnderWay, Accept, TypeOK
<1>5. ASSUME NEW j \in Request, j \in UnderWay' PROVE (current_tenant[CEO])' \in Company(j)'
  <2>1. (current_tenant[CEO])' = k
    BY LeadIsAgent DEF Accept, TypeOK
  <2> QED
    BY <1>3, <1>4, <1>5, <2>1 DEF Company
<1>6. ASSUME NEW j \in Request, InLead(j)' PROVE (handed[j])' \in Company(j)'
  BY <1>3, <1>6 DEF Contexts, InLead, Accept, TypeOK
<1>7. ASSUME NEW j \in Request, (pc[j] = "leadDeciding")'
      PROVE  (current_tenant[LeadOf(j)])' \in Company(j)'
  <2>1. pc[j] = "leadDeciding" /\ j \in UnderWay /\ LeadOf(j)' = LeadOf(j)
    BY <1>7 DEF Accept, TypeOK, LeadOf, Node, Step, UnderWay
  <2>2. CASE LeadOf(j) = CEO
    BY <1>3, <2>1, <2>2, LeadIsAgent DEF Accept, TypeOK
  <2>3. CASE LeadOf(j) # CEO
    BY <1>3, <2>1, <2>3, StepType DEF Accept, TypeOK, Contexts
  <2> QED
    BY <2>2, <2>3
<1>8. ASSUME NEW j \in Request PROVE (worked_as[j])' \subseteq Company(j)'
  BY <1>3 DEF Contexts, Accept
<1>9. \A a \in attempts' : a.handed \in Company(a.request)'
  <2>1. \A a \in attempts : a.request \in Request
    BY DEF TypeOK, Attempt
  <2> QED
    BY <1>3, <2>1 DEF Contexts, Accept
<1> QED
  BY <1>2, <1>5, <1>6, <1>7, <1>8, <1>9 DEF Contexts

LEMMA CeoStepTyped ==
  ASSUME TypeOK, Contexts, NEW k \in Request,
         Decide(k) \/ Decompose(k) \/ WorkDirectly(k) \/ Return(k) \/ RetryCompletion(k)
  PROVE  TypeOK' /\ Contexts'
<1>1. /\ UNCHANGED <<current_tenant, handed, worked_as, joined>>
      /\ attempts' = attempts
  BY DEF Decide, Decompose, WorkDirectly, Return, RetryCompletion, history
<1>2. /\ pc[k] \in Status \ {"new", "done", "leadDeciding"}
      /\ \/ pc' = pc /\ RetryCompletion(k)
         \/ /\ \E stage \in {"done", "direct", "getting", "planning"} :
                 pc' = [pc EXCEPT ![k] = stage]
            /\ pc[k] # "leadWorking"
  <2>1. ASSUME NEW outcome, End(k, outcome) PROVE pc' = [pc EXCEPT ![k] = "done"]
    BY <2>1 DEF End
  <2>2. ASSUME NEW list, NEW outcomes, Onward(k, list, outcomes)
        PROVE  \E stage \in {"done", "direct", "getting", "planning"} :
                 pc' = [pc EXCEPT ![k] = stage]
    BY <2>1, <2>2 DEF Onward
  <2>3. CASE Decide(k)
    BY <2>1, <2>2, <2>3 DEF Decide, Status
  <2>4. CASE Decompose(k)
    BY <2>1, <2>2, <2>4 DEF Decompose, Status
  <2>5. CASE WorkDirectly(k)
    BY <2>1, <2>2, <2>5 DEF WorkDirectly, Status
  <2>6. CASE Return(k)
    BY <2>1, <2>2, <2>6 DEF Return, Status
  <2>7. CASE RetryCompletion(k)
    BY <2>7 DEF RetryCompletion, Status
  <2> QED
    BY <2>3, <2>4, <2>5, <2>6, <2>7
<1>3. /\ UnderWay' \subseteq UnderWay
      /\ \A j \in Request : InLead(j)' => InLead(j)
      /\ \A j \in Request : (pc[j] = "leadDeciding")' => pc[j] = "leadDeciding" /\ j # k
  BY <1>2 DEF UnderWay, InLead, TypeOK, Status
<1>4. \A j \in Request : j # k => LeadOf(j)' = LeadOf(j)
  <2>1. \A j \in Request : j # k => nodes'[j] = nodes[j] /\ results'[j] = results[j]
    BY DEF Decide, Decompose, WorkDirectly, Return, RetryCompletion, TypeOK
  <2> QED
    BY <2>1 DEF LeadOf, Node, Step
<1>5. Contexts'
  BY <1>1, <1>3, <1>4, ContextsKept
<1>6. TypeOK'
  <2>1. CASE Decide(k)
    <3>1. task[k] \in TaskRecord
      BY DelegationAssumption DEF DelegationAssumption
    <3>2. nodes' \in [Request -> Seq(TaskRecord)]
      <4>1. nodes \in [Request -> Seq(TaskRecord)]
        BY DEF TypeOK
      <4>2. <<task[k]>> \in Seq(TaskRecord)
        BY <3>1
      <4>3. nodes' = nodes \/ nodes' = [nodes EXCEPT ![k] = <<task[k]>>]
        BY <2>1, Zenon DEF Decide
      <4> QED
        BY <4>1, <4>2, <4>3, Zenon
    <3>3. /\ pc' \in [Request -> Status] /\ answer' \in [Request -> {"none", "success", "failure"}]
          /\ active_traces' \subseteq Trace /\ open' \subseteq Trace
      <4>1. CASE End(k, "failure")
        BY <4>1, EndTyped
      <4>2. CASE pc' = [pc EXCEPT ![k] = "planning"] /\ UNCHANGED <<traces, answer>>
        BY <4>2 DEF TypeOK, traces, Status
      <4>3. CASE Onward(k, <<task[k]>>, <<>>)
        BY <4>3, OnwardTyped
      <4> QED
        BY <2>1, <4>1, <4>2, <4>3 DEF Decide
    <3> QED
      BY <2>1, <3>2, <3>3 DEF Decide, TypeOK, history
  <2>2. CASE Decompose(k)
    <3>1. nodes' \in [Request -> Seq(TaskRecord)]
      <4>1. nodes \in [Request -> Seq(TaskRecord)]
        BY DEF TypeOK
      <4>2. \/ nodes' = nodes
            \/ \E parts \in Decompositions : nodes' = [nodes EXCEPT ![k] = Subtasks(k, parts)]
        BY <2>2, Zenon DEF Decompose
      <4>3. ASSUME NEW parts \in Decompositions, nodes' = [nodes EXCEPT ![k] = Subtasks(k, parts)]
            PROVE  nodes' \in [Request -> Seq(TaskRecord)]
        BY <4>1, <4>3, SubtasksType, Zenon
      <4> QED
        BY <4>1, <4>2, <4>3
    <3>2. /\ pc' \in [Request -> Status] /\ answer' \in [Request -> {"none", "success", "failure"}]
          /\ active_traces' \subseteq Trace /\ open' \subseteq Trace
      BY <2>2, EndTyped, OnwardTyped DEF Decompose
    <3>3. calls' \in [Request -> 1 .. MaxCalls]
      BY <2>2, DelegationAssumption DEF DelegationAssumption, Decompose, Completed, TypeOK
    <3> QED
      BY <2>2, <3>1, <3>2, <3>3 DEF Decompose, TypeOK, history
  <2>3. CASE WorkDirectly(k)
    <3>1. results' \in [Request -> Seq({"direct", "completed", "failed"})]
      <4>1. results \in [Request -> Seq({"direct", "completed", "failed"})]
        BY DEF TypeOK
      <4>2. Append(results[k], "direct") \in Seq({"direct", "completed", "failed"})
        BY <4>1, AppendProperties
      <4>3. results' = results \/ results' = [results EXCEPT ![k] = Append(results[k], "direct")]
        BY <2>3, Zenon DEF WorkDirectly
      <4> QED
        BY <4>1, <4>2, <4>3, Zenon
    <3>2. /\ pc' \in [Request -> Status] /\ answer' \in [Request -> {"none", "success", "failure"}]
          /\ active_traces' \subseteq Trace /\ open' \subseteq Trace
      BY <2>3, EndTyped, OnwardTyped DEF WorkDirectly
    <3>3. calls' \in [Request -> 1 .. MaxCalls]
      BY <2>3, DelegationAssumption DEF DelegationAssumption, WorkDirectly, Completed, TypeOK
    <3> QED
      BY <2>3, <3>1, <3>2, <3>3 DEF WorkDirectly, TypeOK, history
  <2>4. CASE Return(k)
    <3>c. /\ pc[k] = "failed" /\ try[k] <= MaxRetries => try' = [try EXCEPT ![k] = try[k] + 1]
          /\ ~(pc[k] = "failed" /\ try[k] <= MaxRetries) => try' = [try EXCEPT ![k] = 1]
      BY <2>4, Zenon DEF Return
    <3>d. \/ results' = results
          \/ \E st \in {"completed", "failed"} :
               results' = [results EXCEPT ![k] = Append(results[k], st)]
      <4>1. CASE pc[k] = "failed" /\ try[k] <= MaxRetries
        BY <2>4, <4>1, Zenon DEF Return
      <4>2. CASE ~(pc[k] = "failed" /\ try[k] <= MaxRetries)
        <5> DEFINE st == IF pc[k] = "succeeded" THEN "completed" ELSE "failed"
        <5>1. results' = [results EXCEPT ![k] = Append(results[k], st)]
          BY <2>4, <4>2, Zenon DEF Return
        <5>2. st \in {"completed", "failed"}
          OBVIOUS
        <5> QED
          BY <5>1, <5>2, Zenon
      <4> QED
        BY <4>1, <4>2
    <3>1. results' \in [Request -> Seq({"direct", "completed", "failed"})]
      <4>1. \A r : r \in Seq({"direct", "completed", "failed"}) =>
              /\ Append(r, "completed") \in Seq({"direct", "completed", "failed"})
              /\ Append(r, "failed") \in Seq({"direct", "completed", "failed"})
        BY AppendProperties
      <4> QED
        <5>1. CASE results' = results
          BY <5>1 DEF TypeOK
        <5>2. ASSUME NEW st \in {"completed", "failed"},
                     results' = [results EXCEPT ![k] = Append(results[k], st)]
              PROVE  results' \in [Request -> Seq({"direct", "completed", "failed"})]
          <6>1. results \in [Request -> Seq({"direct", "completed", "failed"})]
            BY DEF TypeOK
          <6>2. Append(results[k], st) \in Seq({"direct", "completed", "failed"})
            BY <4>1, <5>2, <6>1
          <6> QED
            BY <5>2, <6>1, <6>2, Zenon
        <5> QED
          BY <3>d, <5>1, <5>2
    <3>2. /\ pc' \in [Request -> Status] /\ answer' \in [Request -> {"none", "success", "failure"}]
          /\ active_traces' \subseteq Trace /\ open' \subseteq Trace
      <4>1. CASE pc[k] = "failed" /\ try[k] <= MaxRetries
        BY <2>4, <4>1 DEF Return, TypeOK, Status, traces
      <4>2. CASE ~(pc[k] = "failed" /\ try[k] <= MaxRetries)
        BY <2>4, <4>2, OnwardTyped DEF Return
      <4> QED
        BY <4>1, <4>2
    <3>3. try' \in [Request -> 1 .. MaxRetries + 1]
      <4>1. try[k] \in 1 .. MaxRetries + 1 /\ MaxRetries \in Nat
        BY DelegationAssumption DEF DelegationAssumption, TypeOK
      <4>0. try \in [Request -> 1 .. MaxRetries + 1]
        BY DEF TypeOK
      <4>2. CASE pc[k] = "failed" /\ try[k] <= MaxRetries
        <5>1. try[k] + 1 \in 1 .. MaxRetries + 1
          BY <4>1, <4>2
        <5>2. try' = [try EXCEPT ![k] = try[k] + 1]
          BY <3>c, <4>2, Zenon
        <5> HIDE <2>4, <4>2
        <5> QED
          BY <4>0, <5>1, <5>2, Zenon
      <4>3. CASE ~(pc[k] = "failed" /\ try[k] <= MaxRetries)
        <5>1. 1 \in 1 .. MaxRetries + 1
          BY <4>1
        <5>2. try' = [try EXCEPT ![k] = 1]
          BY <3>c, <4>3, Zenon
        <5> QED
          BY <4>0, <5>1, <5>2, Zenon
      <4> QED
        BY <4>2, <4>3
    <3> QED
      BY <2>4, <3>1, <3>2, <3>3 DEF Return, TypeOK, history
  <2>5. CASE RetryCompletion(k)
    BY <2>5, DelegationAssumption DEF DelegationAssumption, RetryCompletion, TypeOK, traces, history
  <2> QED
    BY <2>1, <2>2, <2>3, <2>4, <2>5
<1> QED
  BY <1>5, <1>6

LEMMA HandOverTyped ==
  ASSUME TypeOK, Contexts, NEW k \in Request, HandOver(k)
  PROVE  TypeOK' /\ Contexts'
<1> DEFINE own == current_tenant[CEO]
<1>1. /\ pc[k] = "getting"
      /\ handed' = [handed EXCEPT ![k] = own]
      /\ current_tenant' = [current_tenant EXCEPT ![LeadOf(k)] = own]
      /\ StartTrace(NodeId(k), LeadOf(k), try[k])
      /\ pc' = [pc EXCEPT ![k] = "leadDeciding"]
      /\ UNCHANGED <<nodes, results, try, calls, answer, attempts, worked_as, joined>>
  BY DEF HandOver, LeadOf, history
<1>2. /\ LeadOf(k) \in Agent /\ CEO \in Agent
      /\ NodeId(k) \in Request \X Nat
      /\ try[k] \in Nat
      /\ own \in Request \cup {Nobody}
  <2>1. LeadOf(k) \in Agent /\ CEO \in Agent /\ NodeId(k) \in Request \X Nat
    BY StepType, LeadIsAgent
  <2>2. try[k] \in Nat
    BY DelegationAssumption DEF DelegationAssumption, TypeOK
  <2>3. own \in Request \cup {Nobody}
    BY <2>1 DEF TypeOK
  <2> QED
    BY <2>1, <2>2, <2>3
<1>3. active_traces' \subseteq Trace /\ open' \subseteq Trace
  BY <1>1, <1>2, TracesTyped
<1>4. TypeOK'
  BY <1>1, <1>2, <1>3 DEF TypeOK, Status
<1>5. \A j \in Request : Company(j)' = Company(j) /\ LeadOf(j)' = LeadOf(j)
  BY <1>1 DEF Company, LeadOf, Node, Step
<1>6. UnderWay' = UnderWay /\ k \in UnderWay
  BY <1>1 DEF UnderWay, TypeOK
<1>7. \A j \in UnderWay : own \in Company(j)
  BY DEF Contexts, UnderWay
<1>8. (current_tenant[CEO])' = own
  BY <1>1, <1>2 DEF TypeOK
<1>9. ASSUME NEW j \in Request
      PROVE  /\ InLead(j)' => (handed[j])' \in Company(j)'
             /\ (pc[j] = "leadDeciding")' => (current_tenant[LeadOf(j)])' \in Company(j)'
             /\ (worked_as[j])' \subseteq Company(j)'
  <2>1. CASE j = k
    BY <1>1, <1>2, <1>5, <1>6, <1>7, <2>1 DEF TypeOK, Contexts
  <2>2. CASE j # k
    <3>1. pc'[j] = pc[j] /\ handed'[j] = handed[j]
      BY <1>1, <2>2 DEF TypeOK
    <3>2. j \in UnderWay \/ pc[j] # "leadDeciding"
      BY DEF UnderWay
    <3>3. pc[j] = "leadDeciding" => (current_tenant[LeadOf(j)])' \in Company(j)
      BY <1>1, <1>2, <1>5, <1>7, <3>2, StepType DEF TypeOK, Contexts
    <3> QED
      BY <1>1, <1>5, <3>1, <3>3 DEF Contexts, InLead
  <2> QED
    BY <2>1, <2>2
<1>10. \A a \in attempts' : a.handed \in Company(a.request)'
  <2>1. \A a \in attempts : a.request \in Request
    BY DEF TypeOK, Attempt
  <2> QED
    BY <1>1, <1>5, <2>1 DEF Contexts
<1> QED
  BY <1>4, <1>5, <1>6, <1>7, <1>8, <1>9, <1>10 DEF Contexts

(* An attempt that ends leaves a typed record of itself. *)
LEMMA EndAttemptTyped ==
  ASSUME TypeOK, Contexts, NEW k \in Request, InLead(k),
         NEW verdict \in {"refused", "failure", "success"}, EndAttempt(k, verdict)
  PROVE  /\ attempts' = attempts \cup {[request |-> k, step |-> Step(k), try |-> try[k],
                                        handed |-> handed[k], verdict |-> verdict]}
         /\ attempts' \subseteq Attempt
         /\ active_traces' \subseteq Trace /\ open' \subseteq Trace
         /\ \E stage \in {"succeeded", "failed"} : pc' = [pc EXCEPT ![k] = stage]
<1>1. handed[k] \in Request
  BY DEF Contexts, Company, TypeOK
<1>2. try[k] \in Nat \ {0} /\ Step(k) \in Nat \ {0}
  BY StepType, DelegationAssumption DEF DelegationAssumption, TypeOK
<1>3. [request |-> k, step |-> Step(k), try |-> try[k],
       handed |-> handed[k], verdict |-> verdict] \in Attempt
  BY <1>1, <1>2 DEF Attempt
<1>4. active_traces' \subseteq Trace /\ open' \subseteq Trace
  BY StepType, LeadIsAgent, TracesTyped DEF EndAttempt
<1> QED
  BY <1>3, <1>4 DEF EndAttempt, TypeOK

LEMMA LeadStepTyped ==
  ASSUME TypeOK, Contexts, NEW k \in Request, LeadDecide(k) \/ LeadWork(k)
  PROVE  TypeOK' /\ Contexts'
<1>1. InLead(k)
  BY DEF LeadDecide, LeadWork, InLead
<1>2. UNCHANGED <<current_tenant, nodes, results, try, handed, answer, joined>>
  BY DEF LeadDecide, LeadWork
<1>3. /\ calls' \in [Request -> 1 .. MaxCalls]
      /\ pc' \in [Request -> Status]
      /\ active_traces' \subseteq Trace /\ open' \subseteq Trace
      /\ attempts' \subseteq Attempt
      /\ \E stage \in {"succeeded", "failed", "leadWorking"} : pc' = [pc EXCEPT ![k] = stage]
      /\ \A a \in attempts' : a \in attempts \/ (a.request = k /\ a.handed = handed[k])
  <2>1. ASSUME NEW verdict \in {"refused", "failure", "success"}, EndAttempt(k, verdict)
        PROVE  /\ pc' \in [Request -> Status]
               /\ active_traces' \subseteq Trace /\ open' \subseteq Trace
               /\ attempts' \subseteq Attempt
               /\ \E stage \in {"succeeded", "failed", "leadWorking"} : pc' = [pc EXCEPT ![k] = stage]
               /\ \A a \in attempts' : a \in attempts \/ (a.request = k /\ a.handed = handed[k])
    <3>1. \E stage \in {"succeeded", "failed"} : pc' = [pc EXCEPT ![k] = stage]
      BY <1>1, <2>1, EndAttemptTyped
    <3>2. pc' \in [Request -> Status]
      BY <3>1 DEF TypeOK, Status
    <3>3. /\ attempts' \subseteq Attempt
          /\ active_traces' \subseteq Trace /\ open' \subseteq Trace
      BY <1>1, <2>1, EndAttemptTyped
    <3>4. \A a \in attempts' : a \in attempts \/ (a.request = k /\ a.handed = handed[k])
      BY <2>1 DEF EndAttempt
    <3> QED
      BY <3>1, <3>2, <3>3, <3>4
  <2>2. CASE LeadDecide(k) /\ pc' = [pc EXCEPT ![k] = "leadWorking"] /\ UNCHANGED <<traces, attempts>>
    BY <2>2 DEF TypeOK, Status, traces, LeadDecide
  <2>3. CASE LeadDecide(k) /\ EndAttempt(k, "refused")
    BY <2>1, <2>3 DEF LeadDecide, TypeOK
  <2>4. CASE LeadWork(k)
    <3>1. calls' \in [Request -> 1 .. MaxCalls]
      BY <2>4, DelegationAssumption DEF DelegationAssumption, LeadWork, Completed, TypeOK
    <3> QED
      BY <2>1, <2>4, <3>1 DEF LeadWork
  <2> QED
    BY <2>2, <2>3, <2>4 DEF LeadDecide
<1>4. /\ worked_as' \in [Request -> SUBSET Request]
      /\ \A j \in Request : worked_as'[j] \subseteq Company(j)
  <2>1. CASE UNCHANGED worked_as
    BY <2>1 DEF TypeOK, Contexts
  <2>2. CASE pc[k] = "leadDeciding"
             /\ worked_as' = [worked_as EXCEPT ![k] = @ \cup {current_tenant[LeadOf(k)]}]
    <3>1. current_tenant[LeadOf(k)] \in Company(k)
      BY <2>2 DEF Contexts
    <3>2. Company(k) \subseteq Request
      BY DEF Company, TypeOK
    <3> QED
      BY <2>2, <3>1, <3>2 DEF TypeOK, Contexts
  <2> QED
    BY <2>1, <2>2 DEF LeadDecide, LeadWork, LeadOf
<1>5. TypeOK'
  BY <1>2, <1>3, <1>4 DEF TypeOK
<1>6. \A j \in Request : Company(j)' = Company(j) /\ LeadOf(j)' = LeadOf(j)
  BY <1>2 DEF Company, LeadOf, Node, Step
<1>7. /\ UnderWay' = UnderWay
      /\ \A j \in Request : InLead(j)' => InLead(j)
      /\ \A j \in Request : (pc[j] = "leadDeciding")' => pc[j] = "leadDeciding"
  BY <1>1, <1>3 DEF UnderWay, InLead, TypeOK
<1>8. \A a \in attempts' : a.handed \in Company(a.request)
  BY <1>1, <1>3 DEF Contexts
<1>9. \A a \in attempts' : a.request \in Request
  BY <1>3 DEF Attempt
<1>10. ASSUME NEW j \in Request
       PROVE  /\ j \in UnderWay' => (current_tenant[CEO])' \in Company(j)'
              /\ InLead(j)' => (handed[j])' \in Company(j)'
              /\ (pc[j] = "leadDeciding")' => (current_tenant[LeadOf(j)])' \in Company(j)'
              /\ (worked_as[j])' \subseteq Company(j)'
  BY <1>2, <1>4, <1>6, <1>7 DEF Contexts
<1> QED
  BY <1>5, <1>6, <1>8, <1>9, <1>10 DEF Contexts

-----------------------------------------------------------------------------
(* What a step does to the request it is a step of, sorted by the          *)
(* invariants' needs.                                                      *)
SameWork(k) ==
  /\ nodes'[k] = nodes[k] /\ results'[k] = results[k] /\ try'[k] = try[k]
  /\ attempts' = attempts

Routed(k, list, outcomes) ==
  \/ /\ Len(outcomes) = Len(list)
     /\ pc'[k] = "done" /\ answer'[k] = "success"
  \/ /\ Len(outcomes) # Len(list)
     /\ answer'[k] = answer[k]
     /\ pc'[k] = IF Lead(list[Len(outcomes) + 1].needs) = CEO THEN "direct" ELSE "getting"

Moves(k) ==
  /\ SameWork(k) /\ answer'[k] = answer[k] /\ handed'[k] = handed[k]
  /\ \/ pc'[k] = pc[k]
     \/ pc[k] = "new" /\ pc'[k] = "deciding"
     \/ pc[k] = "deciding" /\ pc'[k] = "planning"
Fails(k) ==
  /\ SameWork(k) /\ answer'[k] = "failure"
  /\ pc[k] \in {"deciding", "planning", "direct"} /\ pc'[k] = "done"
Lists(k) ==
  /\ pc[k] \in {"deciding", "planning"}
  /\ nodes'[k] \in Seq(TaskRecord)
  /\ \A i \in DOMAIN nodes'[k] : nodes'[k][i].approved = task[k].approved
  /\ results'[k] = results[k] /\ try'[k] = try[k] /\ attempts' = attempts
  /\ Routed(k, nodes'[k], <<>>)
Settles(k) ==
  /\ nodes'[k] = nodes[k] /\ attempts' = attempts /\ try'[k] = 1
  /\ \/ pc[k] = "direct" /\ results'[k] = Append(results[k], "direct")
     \/ pc[k] = "succeeded" /\ results'[k] = Append(results[k], "completed")
     \/ /\ pc[k] = "failed" /\ try[k] = MaxRetries + 1
        /\ results'[k] = Append(results[k], "failed")
  /\ Routed(k, nodes[k], results'[k])
TriesAgain(k) ==
  /\ pc[k] = "failed" /\ pc'[k] = "getting" /\ try'[k] = try[k] + 1
  /\ nodes'[k] = nodes[k] /\ results'[k] = results[k] /\ attempts' = attempts
  /\ answer'[k] = answer[k]
HandsOver(k) ==
  /\ SameWork(k) /\ answer'[k] = answer[k]
  /\ pc[k] = "getting" /\ pc'[k] = "leadDeciding"
Works(k) ==
  /\ SameWork(k) /\ answer'[k] = answer[k] /\ handed'[k] = handed[k]
  /\ pc[k] = "leadDeciding" /\ pc'[k] = "leadWorking"
  /\ Permitted(k, Step(k), handed[k])
Attempts(k, verdict) ==
  /\ nodes'[k] = nodes[k] /\ results'[k] = results[k] /\ try'[k] = try[k]
  /\ answer'[k] = answer[k] /\ handed'[k] = handed[k]
  /\ attempts' = attempts \cup {[request |-> k, step |-> Step(k), try |-> try[k],
                                 handed |-> handed[k], verdict |-> verdict]}
  /\ pc'[k] = IF verdict = "success" THEN "succeeded" ELSE "failed"
  /\ \/ /\ pc[k] = "leadDeciding" /\ verdict = "refused"
        /\ ~Permitted(k, Step(k), handed[k])
     \/ pc[k] = "leadWorking" /\ verdict \in {"failure", "success"}

(* Nothing of the other requests changes. *)
Apart(k) ==
  /\ \A j \in Request \ {k} :
       /\ pc'[j] = pc[j] /\ nodes'[j] = nodes[j] /\ results'[j] = results[j]
       /\ try'[j] = try[j] /\ answer'[j] = answer[j] /\ handed'[j] = handed[j]
  /\ attempts \subseteq attempts'
  /\ \A a \in attempts' : a \in attempts \/ a.request = k

LEMMA OnwardRoutes ==
  ASSUME TypeOK, NEW k \in Request, NEW list, NEW outcomes, Onward(k, list, outcomes)
  PROVE  /\ Routed(k, list, outcomes)
         /\ \A j \in Request \ {k} : pc'[j] = pc[j] /\ answer'[j] = answer[j]
<1>1. CASE Len(outcomes) = Len(list)
  BY <1>1 DEF Onward, End, Routed, TypeOK
<1>2. CASE Len(outcomes) # Len(list)
  BY <1>2 DEF Onward, Routed, TypeOK
<1> QED
  BY <1>1, <1>2

LEMMA EndFails ==
  ASSUME TypeOK, NEW k \in Request, NEW outcome, End(k, outcome)
  PROVE  /\ pc'[k] = "done" /\ answer'[k] = outcome
         /\ \A j \in Request \ {k} : pc'[j] = pc[j] /\ answer'[j] = answer[j]
BY DEF End, TypeOK

LEMMA CeoKinds ==
  ASSUME TypeOK, Stages, NEW k \in Request,
         Accept(k) \/ Decide(k) \/ Decompose(k) \/ WorkDirectly(k) \/ RetryCompletion(k)
  PROVE  /\ Apart(k)
         /\ Moves(k) \/ Fails(k) \/ Lists(k) \/ Settles(k)
<1>1. CASE Accept(k)
  BY <1>1 DEF Accept, Apart, Moves, SameWork, TypeOK
<1>2. CASE Decide(k)
  <2>1. CASE End(k, "failure") /\ UNCHANGED nodes
    BY <1>2, <2>1, EndFails DEF Decide, Apart, Fails, SameWork, history
  <2>2. CASE pc' = [pc EXCEPT ![k] = "planning"] /\ UNCHANGED <<nodes, traces, answer>>
    BY <1>2, <2>2 DEF Decide, Apart, Moves, SameWork, TypeOK, history
  <2>3. CASE nodes' = [nodes EXCEPT ![k] = <<task[k]>>] /\ Onward(k, <<task[k]>>, <<>>)
    <3>1. /\ nodes'[k] = <<task[k]>>
          /\ \A j \in Request \ {k} : nodes'[j] = nodes[j]
      BY <2>3 DEF TypeOK
    <3>2. task[k] \in TaskRecord
      BY DelegationAssumption DEF DelegationAssumption
    <3>3. /\ <<task[k]>> \in Seq(TaskRecord)
          /\ \A i \in DOMAIN <<task[k]>> : <<task[k]>>[i].approved = task[k].approved
      BY <3>2
    <3>4. /\ Routed(k, <<task[k]>>, <<>>)
          /\ \A j \in Request \ {k} : pc'[j] = pc[j] /\ answer'[j] = answer[j]
      BY <2>3, OnwardRoutes
    <3>5. /\ pc[k] = "deciding"
          /\ UNCHANGED <<results, try, handed, attempts>>
      BY <1>2 DEF Decide, history
    <3>6. Lists(k)
      BY <3>1, <3>3, <3>4, <3>5 DEF Lists
    <3> QED
      BY <3>1, <3>4, <3>5, <3>6 DEF Apart
  <2> QED
    BY <1>2, <2>1, <2>2, <2>3 DEF Decide
<1>3. CASE Decompose(k)
  <2>1. CASE End(k, "failure") /\ UNCHANGED nodes
    BY <1>3, <2>1, EndFails DEF Decompose, Apart, Fails, SameWork, history
  <2>2. ASSUME NEW parts \in Decompositions,
               nodes' = [nodes EXCEPT ![k] = Subtasks(k, parts)],
               Onward(k, Subtasks(k, parts), <<>>)
        PROVE  Apart(k) /\ Lists(k)
    <3>1. /\ nodes'[k] = Subtasks(k, parts)
          /\ \A j \in Request \ {k} : nodes'[j] = nodes[j]
      BY <2>2 DEF TypeOK
    <3>2. /\ Routed(k, Subtasks(k, parts), <<>>)
          /\ \A j \in Request \ {k} : pc'[j] = pc[j] /\ answer'[j] = answer[j]
      BY <2>2, OnwardRoutes
    <3>3. /\ pc[k] = "planning"
          /\ UNCHANGED <<results, try, handed, attempts>>
      BY <1>3 DEF Decompose, history
    <3>4. Lists(k)
      BY <3>1, <3>2, <3>3, SubtasksType DEF Lists
    <3> QED
      BY <3>1, <3>2, <3>3, <3>4 DEF Apart
  <2> QED
    BY <1>3, <2>1, <2>2 DEF Decompose
<1>4. CASE WorkDirectly(k)
  <2>1. CASE End(k, "failure") /\ UNCHANGED results
    BY <1>4, <2>1, EndFails DEF WorkDirectly, Apart, Fails, SameWork, history
  <2>2. CASE results' = [results EXCEPT ![k] = Append(@, "direct")] /\ Onward(k, nodes[k], results'[k])
    <3>1. /\ results'[k] = Append(results[k], "direct")
          /\ \A j \in Request \ {k} : results'[j] = results[j]
      BY <2>2 DEF TypeOK
    <3>2. /\ Routed(k, nodes[k], results'[k])
          /\ \A j \in Request \ {k} : pc'[j] = pc[j] /\ answer'[j] = answer[j]
      BY <2>2, OnwardRoutes
    <3>3. /\ pc[k] = "direct" /\ try[k] = 1
          /\ UNCHANGED <<nodes, try, handed, attempts>>
      BY <1>4 DEF WorkDirectly, history, Stages, StageOf, Delegating
    <3> QED
      BY <3>1, <3>2, <3>3 DEF Apart, Settles
  <2> QED
    BY <1>4, <2>1, <2>2 DEF WorkDirectly
<1>5. CASE RetryCompletion(k)
  BY <1>5 DEF RetryCompletion, Apart, Moves, SameWork, history
<1> QED
  BY <1>1, <1>2, <1>3, <1>4, <1>5

LEMMA EndAttemptKind ==
  ASSUME TypeOK, NEW k \in Request, NEW verdict, EndAttempt(k, verdict),
         UNCHANGED <<nodes, results, try, handed, answer>>,
         \/ pc[k] = "leadDeciding" /\ verdict = "refused" /\ ~Permitted(k, Step(k), handed[k])
         \/ pc[k] = "leadWorking" /\ verdict \in {"failure", "success"}
  PROVE  Apart(k) /\ Attempts(k, verdict)
<1>1. /\ attempts' = attempts \cup {[request |-> k, step |-> Step(k), try |-> try[k],
                                     handed |-> handed[k], verdict |-> verdict]}
      /\ pc' = [pc EXCEPT ![k] = IF verdict = "success" THEN "succeeded" ELSE "failed"]
  BY DEF EndAttempt
<1>2. /\ pc'[k] = IF verdict = "success" THEN "succeeded" ELSE "failed"
      /\ \A j \in Request \ {k} : pc'[j] = pc[j]
  BY <1>1 DEF TypeOK
<1> QED
  BY <1>1, <1>2 DEF Apart, Attempts

LEMMA LeadKinds ==
  ASSUME TypeOK, NEW k \in Request,
         HandOver(k) \/ LeadDecide(k) \/ LeadWork(k) \/ Return(k)
  PROVE  /\ Apart(k)
         /\ \/ HandsOver(k) \/ Works(k) \/ TriesAgain(k) \/ Settles(k)
            \/ \E verdict \in {"refused", "failure", "success"} : Attempts(k, verdict)
<1>1. CASE HandOver(k)
  BY <1>1 DEF HandOver, Apart, HandsOver, SameWork, history, TypeOK
<1>2. CASE LeadDecide(k)
  <2>1. /\ pc[k] = "leadDeciding"
        /\ UNCHANGED <<nodes, results, try, handed, answer>>
        /\ Allows(Node(k), context[handed[k]], granted[LeadOf(k)])
             <=> Permitted(k, Step(k), handed[k])
    BY <1>2 DEF LeadDecide, Permitted, LeadOf, Node
  <2>2. CASE Allows(Node(k), context[handed[k]], granted[LeadOf(k)])
    <3>1. pc' = [pc EXCEPT ![k] = "leadWorking"] /\ attempts' = attempts
      BY <1>2, <2>2, Zenon DEF LeadDecide, LeadOf
    <3> QED
      BY <2>1, <2>2, <3>1 DEF Apart, Works, SameWork, TypeOK
  <2>3. CASE ~Allows(Node(k), context[handed[k]], granted[LeadOf(k)])
    <3>1. EndAttempt(k, "refused")
      BY <1>2, <2>3, Zenon DEF LeadDecide, LeadOf
    <3> QED
      BY <2>1, <2>3, <3>1, EndAttemptKind
  <2> QED
    BY <2>2, <2>3
<1>3. CASE LeadWork(k)
  <2>1. /\ pc[k] = "leadWorking"
        /\ UNCHANGED <<nodes, results, try, handed, answer>>
        /\ \E verdict \in {"success", "failure"} : EndAttempt(k, verdict)
    BY <1>3 DEF LeadWork
  <2> QED
    BY <2>1, EndAttemptKind
<1>4. CASE Return(k)
  <2>0. UNCHANGED <<nodes, handed, attempts>>
    BY <1>4 DEF Return, history
  <2>1. CASE pc[k] = "failed" /\ try[k] <= MaxRetries
    <3>1. /\ try' = [try EXCEPT ![k] = try[k] + 1]
          /\ pc' = [pc EXCEPT ![k] = "getting"]
          /\ UNCHANGED <<results, answer>>
      BY <1>4, <2>1, Zenon DEF Return
    <3>2. /\ try'[k] = try[k] + 1 /\ pc'[k] = "getting"
          /\ \A j \in Request \ {k} : pc'[j] = pc[j] /\ try'[j] = try[j]
      BY <3>1 DEF TypeOK
    <3> QED
      BY <2>0, <2>1, <3>1, <3>2 DEF Apart, TriesAgain
  <2>2. CASE ~(pc[k] = "failed" /\ try[k] <= MaxRetries)
    <3> DEFINE status == IF pc[k] = "succeeded" THEN "completed" ELSE "failed"
    <3>1. /\ pc[k] \in {"succeeded", "failed"}
          /\ try' = [try EXCEPT ![k] = 1]
          /\ results' = [results EXCEPT ![k] = Append(results[k], status)]
          /\ Onward(k, nodes[k], results'[k])
      BY <1>4, <2>2, Zenon DEF Return
    <3>2. /\ Routed(k, nodes[k], results'[k])
          /\ \A j \in Request \ {k} : pc'[j] = pc[j] /\ answer'[j] = answer[j]
      BY <3>1, OnwardRoutes
    <3>3. /\ try'[k] = 1
          /\ \A j \in Request \ {k} : try'[j] = try[j]
      BY <3>1 DEF TypeOK
    <3>4. /\ results'[k] = Append(results[k], status)
          /\ \A j \in Request \ {k} : results'[j] = results[j]
      BY <3>1, Zenon DEF TypeOK
    <3>5. pc[k] = "failed" => try[k] = MaxRetries + 1
      BY <2>2, DelegationAssumption DEF DelegationAssumption, TypeOK
    <3> HIDE DEF status
    <3>6. /\ pc[k] = "succeeded" => status = "completed"
          /\ pc[k] # "succeeded" => status = "failed"
      BY DEF status
    <3>7. Settles(k)
      BY <2>0, <3>1, <3>2, <3>3, <3>4, <3>5, <3>6 DEF Settles
    <3> QED
      BY <2>0, <3>2, <3>3, <3>4, <3>7 DEF Apart
  <2> QED
    BY <2>1, <2>2
<1> QED
  BY <1>1, <1>2, <1>3, <1>4

(* The parts of the invariants about a request that took no step.          *)
LEMMA OthersKept ==
  ASSUME TypeOK, NEW k \in Request, Apart(k), NEW j \in Request \ {k}
  PROVE  /\ StageOf(j) => StageOf(j)'
         /\ AttemptsAt(j, Step(j))' = AttemptsAt(j, Step(j))
         /\ \A i : AttemptsAt(j, i)' = AttemptsAt(j, i)
         /\ AccountOf(j) => AccountOf(j)'
<1>1. /\ pc'[j] = pc[j] /\ nodes'[j] = nodes[j] /\ results'[j] = results[j]
      /\ try'[j] = try[j] /\ answer'[j] = answer[j]
  BY DEF Apart
<1>2. \A i : AttemptsAt(j, i)' = AttemptsAt(j, i)
  BY DEF Apart, AttemptsAt
<1>3. /\ Step(j)' = Step(j) /\ LeadOf(j)' = LeadOf(j) /\ Delegating(j)' = Delegating(j)
  BY <1>1 DEF Step, LeadOf, Node, Delegating
<1>4. StageOf(j) => StageOf(j)'
  BY <1>1, <1>3 DEF StageOf
<1>5. \A i : Accounted(j, i)' = Accounted(j, i)
  BY <1>1, <1>2 DEF Accounted, LastSucceeded
<1>6. AccountOf(j) => AccountOf(j)'
  BY <1>1, <1>2, <1>3, <1>5 DEF AccountOf, AllTried, NoSuccessBelow, LastSucceeded
<1> QED
  BY <1>2, <1>3, <1>4, <1>6

Kinds(k) ==
  \/ Moves(k) \/ Fails(k) \/ Lists(k) \/ Settles(k)
  \/ HandsOver(k) \/ Works(k) \/ TriesAgain(k)
  \/ \E verdict \in {"refused", "failure", "success"} : Attempts(k, verdict)

LEMMA StepKinds ==
  ASSUME TypeOK, Stages, NEW k \in Request, Accept(k) \/ Proceed(k)
  PROVE  Apart(k) /\ Kinds(k)
BY CeoKinds, LeadKinds DEF Proceed, Kinds

LEMMA StageStep ==
  ASSUME TypeOK, TypeOK', Stages, NEW k \in Request, Kinds(k)
  PROVE  StageOf(k)'
<1>1. StageOf(k)
  BY DEF Stages
<1>2. /\ nodes[k] \in Seq(TaskRecord) /\ nodes'[k] \in Seq(TaskRecord)
      /\ results[k] \in Seq({"direct", "completed", "failed"})
      /\ results'[k] \in Seq({"direct", "completed", "failed"})
  BY DEF TypeOK
<1>3. /\ Len(nodes[k]) \in Nat /\ Len(nodes'[k]) \in Nat
      /\ Len(results[k]) \in Nat /\ Len(results'[k]) \in Nat
  BY <1>2, LenProperties
<1>4. ASSUME SameWork(k) PROVE Step(k)' = Step(k) /\ LeadOf(k)' = LeadOf(k)
  BY <1>4 DEF SameWork, Step, LeadOf, Node
<1>5. CASE Moves(k)
  BY <1>1, <1>4, <1>5 DEF Moves, SameWork, StageOf, Delegating
<1>6. CASE Fails(k)
  BY <1>1, <1>4, <1>6 DEF Fails, SameWork, StageOf, Delegating
<1>7. CASE HandsOver(k) \/ Works(k)
  BY <1>1, <1>4, <1>7 DEF HandsOver, Works, SameWork, StageOf, Delegating
<1>8. CASE TriesAgain(k)
  BY <1>1, <1>8 DEF TriesAgain, StageOf, Delegating, Step, LeadOf, Node
<1>9. ASSUME NEW verdict, Attempts(k, verdict) PROVE StageOf(k)'
  BY <1>1, <1>9 DEF Attempts, StageOf, Delegating, Step, LeadOf, Node
<1>10. ASSUME Routed(k, nodes'[k], results'[k]), try'[k] = 1, answer[k] = "none",
              Len(results'[k]) <= Len(nodes'[k]),
              \A i \in DOMAIN nodes'[k] : nodes'[k][i].approved = task[k].approved
       PROVE  StageOf(k)'
  <2>1. CASE Len(results'[k]) = Len(nodes'[k])
    BY <1>3, <1>10, <2>1 DEF Routed, StageOf, Delegating
  <2>2. CASE Len(results'[k]) # Len(nodes'[k])
    <3>1. /\ answer'[k] = "none"
          /\ Step(k)' <= Len(nodes'[k])
          /\ pc'[k] = IF LeadOf(k)' = CEO THEN "direct" ELSE "getting"
      BY <1>3, <1>10, <2>2 DEF Routed, Step, LeadOf, Node
    <3> QED
      BY <1>10, <3>1 DEF StageOf, Delegating
  <2> QED
    BY <2>1, <2>2
<1>11. CASE Lists(k)
  <2>1. results[k] = <<>> /\ results'[k] = <<>> /\ answer[k] = "none" /\ try'[k] = 1
    BY <1>1, <1>11 DEF Lists, StageOf, Delegating
  <2>2. Len(results'[k]) = 0
    BY <2>1
  <2> QED
    BY <1>3, <1>10, <1>11, <2>1, <2>2 DEF Lists
<1>12. CASE Settles(k)
  <2>1. Len(results'[k]) = Len(results[k]) + 1
    BY <1>2, <1>12, AppendProperties DEF Settles
  <2>2. Step(k) <= Len(nodes[k]) /\ answer[k] = "none"
    BY <1>1, <1>12 DEF Settles, StageOf, Delegating
  <2>3. Len(results'[k]) <= Len(nodes'[k])
    BY <1>3, <1>12, <2>1, <2>2 DEF Settles, Step
  <2> QED
    BY <1>1, <1>10, <1>12, <2>2, <2>3 DEF Settles, StageOf
<1> QED
  BY <1>5, <1>6, <1>7, <1>8, <1>9, <1>11, <1>12 DEF Kinds

LEMMA VerdictStep ==
  ASSUME TypeOK, TypeOK', Stages, Verdicts, NEW k \in Request, Apart(k), Kinds(k)
  PROVE  Verdicts'
<1>1. \A a \in attempts : a.request \in Request
  BY DEF TypeOK, Attempt
<1>2. \A j \in Request : nodes'[j] = nodes[j] \/ (j = k /\ nodes[j] = <<>>)
  <2>1. ASSUME Kinds(k) PROVE nodes'[k] = nodes[k] \/ Lists(k)
    BY <2>1 DEF Kinds, Moves, Fails, Settles, HandsOver, Works, TriesAgain, Attempts, SameWork
  <2>2. Lists(k) => nodes[k] = <<>>
    BY DEF Lists, Stages, StageOf
  <2> QED
    BY <2>1, <2>2 DEF Apart
<1>3. \A i, h : \A j \in Request : nodes'[j] = nodes[j] => Permitted(j, i, h)' = Permitted(j, i, h)
  BY DEF Permitted
<1>4. ASSUME NEW a \in attempts
      PROVE  /\ (a.step \in DOMAIN nodes[a.request])'
             /\ a.verdict # "refused" <=> Permitted(a.request, a.step, a.handed)'
  <2>1. /\ a.step \in DOMAIN nodes[a.request]
        /\ a.verdict # "refused" <=> Permitted(a.request, a.step, a.handed)
    BY DEF Verdicts
  <2>2. nodes[a.request] # <<>>
    BY <2>1
  <2>3. nodes'[a.request] = nodes[a.request]
    BY <1>1, <1>2, <2>2
  <2> QED
    BY <1>1, <1>3, <2>1, <2>3
<1>5. ASSUME NEW verdict \in {"refused", "failure", "success"}, Attempts(k, verdict),
             NEW a \in attempts', a \notin attempts
      PROVE  /\ (a.step \in DOMAIN nodes[a.request])'
             /\ a.verdict # "refused" <=> Permitted(a.request, a.step, a.handed)'
  <2>1. /\ a.request = k /\ a.step = Step(k) /\ a.handed = handed[k] /\ a.verdict = verdict
        /\ nodes'[k] = nodes[k]
    BY <1>5 DEF Attempts
  <2>2. Step(k) \in 1 .. Len(nodes[k])
    <3>1. Step(k) <= Len(nodes[k])
      BY <1>5 DEF Attempts, Stages, StageOf, Delegating
    <3>2. Len(nodes[k]) \in Nat /\ Step(k) \in Nat \ {0}
      BY StepType, LenProperties DEF TypeOK
    <3> QED
      BY <3>1, <3>2
  <2>3. a.verdict # "refused" <=> Permitted(k, Step(k), handed[k])
    BY <1>5, <2>1 DEF Attempts, Verdicts
  <2>4. DOMAIN nodes[k] = 1 .. Len(nodes[k])
    BY LenProperties DEF TypeOK
  <2> QED
    BY <1>3, <2>1, <2>2, <2>3, <2>4
<1>6. \A a \in attempts' :
        a \in attempts \/ \E verdict \in {"refused", "failure", "success"} : Attempts(k, verdict)
  BY DEF Kinds, Moves, Fails, Lists, Settles, HandsOver, Works, TriesAgain, SameWork
<1>7. ASSUME NEW j \in Request, pc'[j] = "leadWorking"
      PROVE  Permitted(j, Step(j), handed[j])'
  <2>1. CASE j # k
    <3>1. /\ pc[j] = "leadWorking" /\ nodes'[j] = nodes[j]
          /\ results'[j] = results[j] /\ handed'[j] = handed[j]
      BY <1>7, <2>1 DEF Apart
    <3>2. Step(j)' = Step(j)
      BY <3>1 DEF Step
    <3> QED
      BY <1>3, <3>1, <3>2 DEF Verdicts
  <2>2. CASE j = k
    <3>1. Moves(k) \/ Works(k)
      BY <1>7, <2>2 DEF Kinds, Fails, Lists, Settles, HandsOver, TriesAgain, Attempts, Routed
    <3>2. /\ nodes'[k] = nodes[k] /\ results'[k] = results[k] /\ handed'[k] = handed[k]
          /\ Permitted(k, Step(k), handed[k])
      BY <1>7, <2>2, <3>1 DEF Moves, Works, SameWork, Verdicts
    <3>3. Step(k)' = Step(k)
      BY <3>2 DEF Step
    <3> QED
      BY <1>3, <2>2, <3>2, <3>3
  <2> QED
    BY <2>1, <2>2
<1> QED
  BY <1>4, <1>5, <1>6, <1>7 DEF Verdicts

LEMMA AccountStep ==
  ASSUME TypeOK, TypeOK', Stages, Accounts, NEW k \in Request, Kinds(k)
  PROVE  /\ AccountOf(k)'
         /\ \A a \in attempts' : a.request = k => a.step <= Step(k)'
<1>1. AccountOf(k) /\ \A a \in attempts : a.request = k => a.step <= Step(k)
  BY DEF Accounts
<1>2. /\ results[k] \in Seq({"direct", "completed", "failed"})
      /\ Len(results[k]) \in Nat /\ Step(k) \in Nat \ {0}
      /\ DOMAIN results[k] = 1 .. Len(results[k])
      /\ try[k] \in Nat \ {0}
  BY StepType, LenProperties, DelegationAssumption DEF DelegationAssumption, TypeOK
<1>3. ASSUME SameWork(k)
      PROVE  /\ Step(k)' = Step(k)
             /\ \A i : AttemptsAt(k, i)' = AttemptsAt(k, i)
             /\ \A i \in DOMAIN results'[k] : Accounted(k, i)'
             /\ \A n : AllTried(k, n)' = AllTried(k, n)
             /\ \A n : NoSuccessBelow(k, n)' = NoSuccessBelow(k, n)
             /\ LastSucceeded(k, Step(k))' = LastSucceeded(k, Step(k))
  <2>1. /\ Step(k)' = Step(k)
        /\ \A i : AttemptsAt(k, i)' = AttemptsAt(k, i)
    BY <1>3 DEF SameWork, Step, AttemptsAt
  <2> QED
    BY <1>1, <1>3, <2>1
    DEF SameWork, AccountOf, Accounted, AllTried, NoSuccessBelow, LastSucceeded
<1>4. CASE Moves(k)
  <2>1. /\ Delegating(k)' = Delegating(k) /\ SameWork(k)
        /\ \A stage \in {"getting", "leadDeciding", "leadWorking", "failed", "succeeded"} :
             pc'[k] = stage => pc[k] = stage
    BY <1>4 DEF Moves, Delegating
  <2> QED
    BY <1>1, <1>3, <2>1 DEF AccountOf, SameWork
<1>5. CASE Fails(k)
  <2>1. /\ SameWork(k) /\ ~Delegating(k) /\ ~Delegating(k)' /\ pc'[k] = "done"
    BY <1>5 DEF Fails, Delegating
  <2> QED
    BY <1>1, <1>3, <2>1 DEF AccountOf, SameWork
<1>6. CASE HandsOver(k) \/ Works(k)
  <2>1. /\ SameWork(k) /\ Delegating(k)'
        /\ pc[k] \in {"getting", "leadDeciding"} /\ pc'[k] \in {"leadDeciding", "leadWorking"}
    BY <1>6 DEF HandsOver, Works, Delegating
  <2>2. AllTried(k, try[k] - 1) /\ NoSuccessBelow(k, try[k])
    BY <1>1, <2>1 DEF AccountOf
  <2>3. AllTried(k, try[k] - 1)' /\ NoSuccessBelow(k, try[k])'
    <3>1. try'[k] = try[k]
      BY <2>1 DEF SameWork
    <3>2. \A i : AttemptsAt(k, i)' = AttemptsAt(k, i)
      BY <1>3, <2>1
    <3> QED
      BY <1>3, <2>1, <2>2, <3>1, <3>2 DEF AllTried, NoSuccessBelow
  <2> QED
    BY <1>1, <1>3, <2>1, <2>3 DEF AccountOf, SameWork
<1>7. CASE Lists(k)
  <2>1. /\ results[k] = <<>> /\ ~Delegating(k) /\ try[k] = 1
    BY <1>7 DEF Lists, Stages, StageOf, Delegating
  <2>2. /\ results'[k] = <<>> /\ try'[k] = 1 /\ attempts' = attempts /\ Step(k)' = Step(k)
        /\ pc'[k] \in {"done", "direct", "getting"}
    BY <1>7, <2>1 DEF Lists, Routed, Step
  <2>3. AttemptsAt(k, Step(k))' = {}
    BY <1>1, <2>1, <2>2 DEF AccountOf, AttemptsAt
  <2>4. AllTried(k, try[k] - 1)' /\ NoSuccessBelow(k, try[k])'
    BY <2>2, <2>3 DEF AllTried, NoSuccessBelow
  <2>5. DOMAIN results'[k] = {}
    BY <2>2
  <2> QED
    BY <1>1, <2>2, <2>3, <2>4, <2>5 DEF AccountOf
<1>8. CASE Settles(k)
  <2>1. PICK status \in {"direct", "completed", "failed"} :
          /\ results'[k] = Append(results[k], status)
          /\ status = "direct" => pc[k] = "direct"
          /\ status = "completed" => pc[k] = "succeeded"
          /\ status = "failed" => pc[k] = "failed" /\ try[k] = MaxRetries + 1
    BY <1>8 DEF Settles
  <2>2. /\ DOMAIN results'[k] = 1 .. Len(results[k]) + 1
        /\ Len(results'[k]) = Len(results[k]) + 1
        /\ results'[k][Step(k)] = status
        /\ \A i \in DOMAIN results[k] : results'[k][i] = results[k][i]
    BY <1>2, <2>1, AppendProperties, LenProperties DEF Step
  <2>3. Step(k)' = Step(k) + 1
    BY <1>2, <2>2 DEF Step
  <2>4. /\ attempts' = attempts /\ try'[k] = 1
        /\ \A i : AttemptsAt(k, i)' = AttemptsAt(k, i)
    BY <1>8 DEF Settles, AttemptsAt
  <2>5. \A i \in DOMAIN results[k] : Accounted(k, i)'
    BY <1>1, <2>2, <2>4 DEF AccountOf, Accounted, LastSucceeded
  <2>6. ASSUME NEW i \in Nat, i = Step(k) PROVE Accounted(k, i)'
    <3>1. status = "direct" => AttemptsAt(k, i) = {}
      BY <1>1, <2>1, <2>6 DEF AccountOf, Delegating
    <3>2. status = "completed" => LastSucceeded(k, i)
      BY <1>1, <2>1, <2>6 DEF AccountOf
    <3>3. status = "failed" =>
            /\ \A n \in 1 .. MaxRetries + 1 : \E a \in AttemptsAt(k, i) : a.try = n
            /\ \A a \in AttemptsAt(k, i) : a.verdict # "success" /\ a.try < MaxRetries + 1 + 1
      BY <1>1, <2>1, <2>6 DEF AccountOf, AllTried, NoSuccessBelow
    <3>4. \A a \in AttemptsAt(k, i) : a.try < MaxRetries + 1 + 1 => a.try <= MaxRetries + 1
      <4>1. \A a \in AttemptsAt(k, i) : a.try \in Nat
        BY DEF AttemptsAt, TypeOK, Attempt
      <4>2. MaxRetries \in Nat
        BY DelegationAssumption DEF DelegationAssumption
      <4>3. \A n \in Nat : n < MaxRetries + 1 + 1 => n <= MaxRetries + 1
        BY <4>2
      <4> QED
        BY <4>1, <4>3
    <3>5. results'[k][i] = status /\ AttemptsAt(k, i)' = AttemptsAt(k, i)
      BY <2>2, <2>4, <2>6
    <3> QED
      BY <3>1, <3>2, <3>3, <3>4, <3>5 DEF Accounted, LastSucceeded
  <2>7. AttemptsAt(k, Step(k))' = {}
    <3>1. \A a \in AttemptsAt(k, Step(k) + 1) : a.step = Step(k) + 1 /\ a.step <= Step(k)
      BY <1>1 DEF AttemptsAt
    <3>2. AttemptsAt(k, Step(k) + 1) = {}
      BY <1>2, <3>1
    <3> QED
      BY <2>3, <2>4, <3>2 DEF AttemptsAt
  <2>8. \A i \in DOMAIN results'[k] : Accounted(k, i)'
    <3>1. ASSUME NEW i \in DOMAIN results'[k] PROVE i \in DOMAIN results[k] \/ (i \in Nat /\ i = Step(k))
      BY <1>2, <2>2, <3>1 DEF Step
    <3> QED
      BY <2>5, <2>6, <3>1
  <2>9. AllTried(k, try[k] - 1)' /\ NoSuccessBelow(k, try[k])'
    BY <2>4, <2>7 DEF AllTried, NoSuccessBelow
  <2>10. pc'[k] \in {"done", "direct", "getting"}
    BY <1>8 DEF Settles, Routed
  <2>11. \A a \in attempts' : a.request = k => a.step <= Step(k)'
    <3>1. \A a \in attempts : a.step \in Nat
      BY DEF TypeOK, Attempt
    <3> QED
      BY <1>1, <1>2, <2>3, <2>4, <3>1
  <2> QED
    BY <2>7, <2>8, <2>9, <2>10, <2>11 DEF AccountOf
<1>9. CASE TriesAgain(k)
  <2>1. /\ Step(k)' = Step(k) /\ results'[k] = results[k] /\ attempts' = attempts
        /\ try'[k] = try[k] + 1 /\ pc[k] = "failed" /\ pc'[k] = "getting"
        /\ \A i : AttemptsAt(k, i)' = AttemptsAt(k, i)
    BY <1>9 DEF TriesAgain, Step, AttemptsAt
  <2>2. AllTried(k, try[k]) /\ NoSuccessBelow(k, try[k] + 1)
    BY <1>1, <2>1 DEF AccountOf
  <2>3. try'[k] - 1 = try[k]
    BY <1>2, <2>1
  <2>4. AllTried(k, try[k] - 1)' /\ NoSuccessBelow(k, try[k])'
    BY <2>1, <2>2, <2>3 DEF AllTried, NoSuccessBelow
  <2>5. \A i \in DOMAIN results'[k] : Accounted(k, i)'
    BY <1>1, <2>1 DEF AccountOf, Accounted, LastSucceeded
  <2>6. Delegating(k)'
    BY <2>1 DEF Delegating
  <2> QED
    BY <1>1, <2>1, <2>4, <2>5, <2>6 DEF AccountOf
<1>10. ASSUME NEW verdict \in {"refused", "failure", "success"}, Attempts(k, verdict)
       PROVE  /\ AccountOf(k)'
              /\ \A a \in attempts' : a.request = k => a.step <= Step(k)'
  <2> DEFINE new == [request |-> k, step |-> Step(k), try |-> try[k],
                     handed |-> handed[k], verdict |-> verdict]
  <2>1. /\ results'[k] = results[k] /\ try'[k] = try[k] /\ attempts' = attempts \cup {new}
        /\ pc[k] \in {"leadDeciding", "leadWorking"}
        /\ pc'[k] = IF verdict = "success" THEN "succeeded" ELSE "failed"
    BY <1>10 DEF Attempts
  <2>2. /\ new.request = k /\ new.step = Step(k) /\ new.try = try[k] /\ new.verdict = verdict
    OBVIOUS
  <2> HIDE DEF new
  <2>3. /\ Step(k)' = Step(k)
        /\ AttemptsAt(k, Step(k))' = AttemptsAt(k, Step(k)) \cup {new}
        /\ \A i : i # Step(k) => AttemptsAt(k, i)' = AttemptsAt(k, i)
    BY <2>1, <2>2 DEF Step, AttemptsAt
  <2>4. AllTried(k, try[k] - 1) /\ NoSuccessBelow(k, try[k])
    BY <1>1, <2>1 DEF AccountOf
  <2>5. \A i \in DOMAIN results'[k] : Accounted(k, i)'
    <3>1. \A i \in DOMAIN results[k] : i # Step(k)
      BY <1>2 DEF Step
    <3> QED
      BY <1>1, <2>1, <2>3, <3>1 DEF AccountOf, Accounted, LastSucceeded
  <2>6. \A a \in AttemptsAt(k, Step(k)) : a.try \in Nat /\ a.try < try[k] /\ a.verdict # "success"
    BY <2>4 DEF NoSuccessBelow, AttemptsAt, TypeOK, Attempt
  <2>7. CASE verdict = "success"
    <3>1. new \notin AttemptsAt(k, Step(k))
      BY <1>2, <2>2, <2>6
    <3>2. LastSucceeded(k, Step(k))'
      BY <2>2, <2>3, <2>6, <2>7 DEF LastSucceeded
    <3> QED
      BY <1>1, <2>1, <2>2, <2>3, <2>5, <2>7, <3>2, <1>2 DEF AccountOf, Delegating
  <2>8. CASE verdict # "success"
    <3>1. AllTried(k, try[k])'
      <4>1. ASSUME NEW n \in 1 .. try'[k]
            PROVE  \E a \in AttemptsAt(k, Step(k))' : a.try = n
        <5>1. CASE n = try[k]
          BY <2>2, <2>3, <5>1
        <5>2. CASE n # try[k]
          <6>1. n \in 1 .. try[k] - 1
            BY <1>2, <2>1, <4>1, <5>2
          <6> QED
            BY <2>3, <2>4, <6>1 DEF AllTried
        <5> QED
          BY <5>1, <5>2
      <4> QED
        BY <4>1 DEF AllTried
    <3>2. NoSuccessBelow(k, try[k] + 1)'
      <4>1. ASSUME NEW a \in AttemptsAt(k, Step(k))'
            PROVE  a.verdict # "success" /\ a.try < try'[k] + 1
        BY <1>2, <2>1, <2>2, <2>3, <2>6, <2>8, <4>1
      <4> QED
        BY <4>1 DEF NoSuccessBelow
    <3> QED
      BY <1>1, <2>1, <2>2, <2>3, <2>5, <2>8, <3>1, <3>2, <1>2 DEF AccountOf, Delegating
  <2> QED
    BY <2>7, <2>8
<1> QED
  BY <1>4, <1>5, <1>6, <1>7, <1>8, <1>9, <1>10 DEF Kinds

-----------------------------------------------------------------------------
(* The inductive invariant: an answer accounts for its attempts because    *)
(* each list of tasks is worked through in order (Stages), every attempt   *)
(* is numbered by the loop (Accounts), and the policy's verdict depends on *)
(* nothing but the task and the context handed over (Verdicts, Contexts).  *)
IInv == TypeOK /\ Contexts /\ Stages /\ Verdicts /\ Accounts

LEMMA InitInvariant == Init => IInv
<1> SUFFICES ASSUME Init PROVE IInv
  OBVIOUS
<1>1. TypeOK /\ Contexts
  BY Initially
<1>2. \A k \in Request : pc[k] = "new" /\ nodes[k] = <<>> /\ results[k] = <<>> /\ try[k] = 1
                         /\ answer[k] = "none" /\ DOMAIN nodes[k] = {} /\ DOMAIN results[k] = {}
  BY DEF Init
<1>3. attempts = {}
  BY DEF Init
<1>4. Stages
  BY <1>2 DEF Stages, StageOf, Delegating
<1>5. Verdicts
  BY <1>2, <1>3 DEF Verdicts
<1>6. \A k \in Request : AttemptsAt(k, Step(k)) = {}
  BY <1>3 DEF AttemptsAt
<1>7. Accounts
  BY <1>2, <1>3, <1>6 DEF Accounts, AccountOf, Delegating
<1> QED
  BY <1>1, <1>4, <1>5, <1>7 DEF IInv

LEMMA StepInvariant ==
  ASSUME IInv, NEW k \in Request, Accept(k) \/ Proceed(k)
  PROVE  IInv'
<1>1. TypeOK /\ Contexts /\ Stages /\ Verdicts /\ Accounts
  BY DEF IInv
<1>2. TypeOK' /\ Contexts'
  BY <1>1, AcceptTyped, CeoStepTyped, HandOverTyped, LeadStepTyped DEF Proceed
<1>3. Apart(k) /\ Kinds(k)
  BY <1>1, StepKinds
<1>4. \A j \in Request \ {k} : /\ StageOf(j) => StageOf(j)'
                               /\ AccountOf(j) => AccountOf(j)'
  BY <1>1, <1>3, OthersKept
<1>5. Stages'
  <2>1. StageOf(k)'
    BY <1>1, <1>2, <1>3, StageStep
  <2> QED
    BY <1>1, <1>4, <2>1 DEF Stages
<1>6. Verdicts'
  BY <1>1, <1>2, <1>3, VerdictStep
<1>7. /\ AccountOf(k)'
      /\ \A a \in attempts' : a.request = k => a.step <= Step(k)'
  BY <1>1, <1>2, <1>3, AccountStep
<1>8. ASSUME NEW a \in attempts' PROVE a.step <= Step(a.request)'
  <2>1. CASE a.request = k
    BY <1>7, <2>1
  <2>2. CASE a.request # k
    <3>1. a \in attempts /\ a.request \in Request \ {k}
      BY <1>1, <1>3, <2>2 DEF Apart, TypeOK, Attempt
    <3>2. Step(a.request)' = Step(a.request)
      BY <1>3, <3>1 DEF Apart, Step
    <3> QED
      BY <1>1, <3>1, <3>2 DEF Accounts
  <2> QED
    BY <2>1, <2>2
<1>9. Accounts'
  BY <1>1, <1>4, <1>7, <1>8 DEF Accounts
<1> QED
  BY <1>2, <1>5, <1>6, <1>9 DEF IInv

LEMMA StutterInvariant == IInv /\ UNCHANGED vars => IInv'
<1> SUFFICES ASSUME IInv, UNCHANGED vars PROVE IInv'
  OBVIOUS
<1>1. /\ UNCHANGED <<current_tenant, active_traces, open, pc, nodes, results, try>>
      /\ UNCHANGED <<calls, handed, answer, attempts, worked_as, joined>>
  BY DEF vars, traces, history
<1>2. TypeOK' /\ UnderWay' = UnderWay /\ \A k \in Request : Company(k)' = Company(k)
  BY <1>1 DEF IInv, TypeOK, UnderWay, Company
<1>3. \A k \in Request : Step(k)' = Step(k) /\ LeadOf(k)' = LeadOf(k)
                         /\ InLead(k)' = InLead(k) /\ Delegating(k)' = Delegating(k)
  BY <1>1 DEF Step, LeadOf, Node, InLead, Delegating
<1>4. \A k, i : AttemptsAt(k, i)' = AttemptsAt(k, i)
  BY <1>1 DEF AttemptsAt
<1>5. Contexts'
  <2>1. \A a \in attempts : a.request \in Request
    BY DEF IInv, TypeOK, Attempt
  <2> QED
    BY <1>1, <1>2, <1>3, <2>1 DEF IInv, Contexts
<1>6. Stages'
  BY <1>1, <1>3 DEF IInv, Stages, StageOf
<1>7. Verdicts'
  BY <1>1, <1>3 DEF IInv, Verdicts, Permitted
<1>8. \A k \in Request : AccountOf(k)' = AccountOf(k)
  <2>1. \A k, i : Accounted(k, i)' = Accounted(k, i)
    BY <1>1, <1>4 DEF Accounted, LastSucceeded
  <2> QED
    BY <1>1, <1>3, <1>4, <2>1 DEF AccountOf, AllTried, NoSuccessBelow, LastSucceeded
<1>9. Accounts'
  <2>1. \A a \in attempts : a.request \in Request
    BY DEF IInv, TypeOK, Attempt
  <2> QED
    BY <1>1, <1>3, <1>8, <2>1 DEF IInv, Accounts
<1> QED
  BY <1>2, <1>5, <1>6, <1>7, <1>9 DEF IInv

LEMMA Invariance == Spec => []IInv
<1>1. IInv /\ [Next]_vars => IInv'
  BY StepInvariant, StutterInvariant DEF Next
<1> QED
  BY InitInvariant, <1>1, PTL DEF Spec

(* Every variable keeps its type: in particular no retry is counted past   *)
(* the last, and every attempt recorded was handed somebody's context.     *)
THEOREM TypeCorrect == Spec => []TypeOK
<1>1. IInv => TypeOK
  BY DEF IInv
<1> QED
  BY Invariance, <1>1, PTL

(* Whatever requests overlap and whatever the LLM decomposes them into, no *)
(* lead does work its grants, the approval and the context it was handed   *)
(* do not allow, and a context of another request only reaches it if that  *)
(* request was accepted while this one was under way.                      *)
THEOREM AuthorisedWork == Spec => []DelegatedWorkIsAuthorised
<1>1. ASSUME IInv PROVE DelegatedWorkIsAuthorised
  <2>1. ASSUME NEW a \in attempts, a.verdict # "refused"
        PROVE  LET node == nodes[a.request][a.step]
                   used == context[a.handed]
               IN  /\ node.needs \subseteq granted[Lead(node.needs)]
                   /\ used.tenant = node.tenant \/ used.role = SuperAdmin
                   /\ \A c \in node.needs :
                        /\ used.role \in CapabilityPolicy[c].roles
                        /\ CapabilityPolicy[c].approval => task[a.request].approved
    <3> DEFINE node == nodes[a.request][a.step]
               used == context[a.handed]
    <3>1. node.approved = task[a.request].approved
      BY <1>1 DEF IInv, Verdicts, Stages, StageOf, TypeOK, Attempt
    <3>2. Allows(node, used, granted[Lead(node.needs)])
      BY <1>1, <2>1 DEF IInv, Verdicts, Permitted
    <3> HIDE DEF node, used
    <3>3. /\ Findings(node, used, granted[Lead(node.needs)]) = {}
          /\ NeedsApproval(node) => node.approved
      BY <3>2 DEF Allows, Decision
    <3>4. node.needs \subseteq granted[Lead(node.needs)]
      BY <3>3 DEF Findings
    <3>5. used.tenant = node.tenant \/ used.role = SuperAdmin
      BY <3>3 DEF Findings
    <3>6. \A c \in node.needs : used.role \in CapabilityPolicy[c].roles
      BY <3>3 DEF Findings
    <3>7. \A c \in node.needs : CapabilityPolicy[c].approval => task[a.request].approved
      BY <3>1, <3>3 DEF NeedsApproval
    <3> QED
      BY <3>4, <3>5, <3>6, <3>7 DEF node, used
  <2>2. /\ \A k \in Request : worked_as[k] \subseteq Company(k)
        /\ \A a \in attempts : a.handed \in Company(a.request)
    BY <1>1 DEF IInv, Contexts
  <2> QED
    BY <2>1, <2>2 DEF DelegatedWorkIsAuthorised
<1> QED
  BY Invariance, <1>1, PTL

(* However often delegate_to tries again, the policy is not worn down: a   *)
(* request under way alone gets one verdict on each of its tasks.          *)
THEOREM RefusalsStand == Spec => []RefusalOverturnedOnlyByMixUp
<1>1. ASSUME IInv PROVE RefusalOverturnedOnlyByMixUp
  <2>1. ASSUME NEW k \in Request, joined[k] = {}, NEW a \in attempts, NEW b \in attempts,
               a.request = k, b.request = k, a.step = b.step
        PROVE  a.verdict = "refused" <=> b.verdict = "refused"
    <3>1. a.handed = k /\ b.handed = k
      BY <1>1, <2>1 DEF IInv, Contexts, Company
    <3> QED
      BY <1>1, <2>1, <3>1 DEF IInv, Verdicts
  <2> QED
    BY <2>1 DEF RefusalOverturnedOnlyByMixUp
<1> QED
  BY Invariance, <1>1, PTL

(* What a request is answered accounts for every attempt made for it, for  *)
(* any number of retries and any decomposition.                            *)
THEOREM AccountsAdd == Spec => []AnswerAccountsForAttempts
<1>1. ASSUME IInv PROVE AnswerAccountsForAttempts
  <2>1. ASSUME NEW k \in Request
        PROVE  /\ \A i \in DOMAIN results[k] : Accounted(k, i)
               /\ answer[k] = "success" => Len(results[k]) = Len(nodes[k])
               /\ answer[k] = "failure" /\ nodes[k] # <<>> =>
                    Step(k) <= Len(nodes[k]) /\ Lead(Node(k).needs) = CEO
    BY <1>1 DEF IInv, Accounts, AccountOf, Stages, StageOf, LeadOf
  <2>2. ASSUME NEW k \in Request, Step(k) <= Len(nodes[k]) PROVE Step(k) \in DOMAIN nodes[k]
    <3>1. Step(k) \in Nat \ {0}
      BY <1>1, StepType DEF IInv
    <3>2. DOMAIN nodes[k] = 1 .. Len(nodes[k]) /\ Len(nodes[k]) \in Nat
      BY <1>1, LenProperties DEF IInv, TypeOK
    <3> QED
      BY <2>2, <3>1, <3>2
  <2> QED
    BY <2>1, <2>2 DEF AnswerAccountsForAttempts
<1> QED
  BY Invariance, <1>1, PTL

-----------------------------------------------------------------------------
(* The traces of a request: its own, until a lead's takes its id, and that *)
(* of the attempt a lead is at.                                            *)
OwnTrace(k)  == [id |-> OwnId(k), agent |-> CEO, try |-> 0]
LeadTrace(k) == [id |-> NodeId(k), agent |-> LeadOf(k), try |-> try[k]]
Replaced(k)  == k \notin Complex /\ (AttemptsAt(k, 1) # {} \/ InLead(k))

ActiveOf(k) == {t \in active_traces : t.id[1] = k}
OpenOf(k)   == {t \in open : t.id[1] = k}

TraceOf(k) ==
  /\ \A t : t \in ActiveOf(k) <=> \/ t = OwnTrace(k) /\ k \in UnderWay /\ ~Replaced(k)
                                  \/ t = LeadTrace(k) /\ InLead(k)
  /\ \A t : t \in OpenOf(k) <=> \/ t = OwnTrace(k) /\ (k \in UnderWay \/ Replaced(k))
                                \/ t = LeadTrace(k) /\ InLead(k)

Simple(k) == k \notin Complex => pc[k] # "planning" /\ Len(nodes[k]) <= 1

Tracing == \A k \in Request : TraceOf(k) /\ Simple(k)

(* What a step does to its request's traces: nothing, ... *)
Untraced(k) ==
  /\ UNCHANGED <<active_traces, open, attempts>>
  /\ k \in UnderWay /\ (k \in UnderWay)'
  /\ InLead(k)' = InLead(k)
  /\ InLead(k) => nodes'[k] = nodes[k] /\ results'[k] = results[k] /\ try'[k] = try[k]

(* ... or it starts or ends its own ... *)
Begins(k) ==
  /\ StartTrace(OwnId(k), CEO, 0) /\ attempts' = attempts
  /\ pc[k] = "new" /\ pc'[k] = "deciding"
Ends(k) ==
  /\ EndTrace(OwnId(k)) /\ attempts' = attempts
  /\ k \in UnderWay /\ ~InLead(k) /\ pc'[k] = "done"

(* ... or that of an attempt. *)
BeginsAttempt(k) ==
  /\ StartTrace(NodeId(k), LeadOf(k), try[k]) /\ attempts' = attempts
  /\ pc[k] = "getting" /\ pc'[k] = "leadDeciding"
  /\ nodes'[k] = nodes[k] /\ results'[k] = results[k] /\ try'[k] = try[k]
EndsAttempt(k) ==
  /\ EndTrace(NodeId(k))
  /\ InLead(k) /\ pc'[k] \in {"succeeded", "failed"}
  /\ \E a : a.request = k /\ a.step = Step(k) /\ attempts' = attempts \cup {a}

LEMMA OnwardTraces ==
  ASSUME TypeOK, NEW k \in Request, NEW list, NEW outcomes, Onward(k, list, outcomes),
         k \in UnderWay, ~InLead(k), attempts' = attempts
  PROVE  (Untraced(k) \/ Ends(k)) /\ pc'[k] # "planning"
<1>1. CASE Len(outcomes) = Len(list)
  <2>1. End(k, "success")
    BY <1>1 DEF Onward
  <2>2. EndTrace(OwnId(k)) /\ pc' = [pc EXCEPT ![k] = "done"]
    BY <2>1 DEF End
  <2>3. pc'[k] = "done"
    BY <2>2 DEF TypeOK
  <2> QED
    BY <2>2, <2>3 DEF Ends
<1>2. CASE Len(outcomes) # Len(list)
  <2>1. pc'[k] \in {"direct", "getting"} /\ UNCHANGED <<active_traces, open>>
    BY <1>2 DEF Onward, traces, TypeOK
  <2> QED
    BY <2>1 DEF Untraced, UnderWay, InLead
<1> QED
  BY <1>1, <1>2

LEMMA EndTraces ==
  ASSUME TypeOK, NEW k \in Request, NEW outcome, End(k, outcome),
         k \in UnderWay, ~InLead(k), attempts' = attempts
  PROVE  Ends(k)
BY DEF End, Ends, TypeOK

TraceKinds(k) == Untraced(k) \/ Begins(k) \/ Ends(k) \/ BeginsAttempt(k) \/ EndsAttempt(k)

LEMMA CeoTraces ==
  ASSUME TypeOK, NEW k \in Request, Simple(k),
         Accept(k) \/ Decide(k) \/ Decompose(k) \/ WorkDirectly(k) \/ RetryCompletion(k)
  PROVE  TraceKinds(k) /\ Simple(k)'
<1>1. CASE Accept(k)
  <2>1. Begins(k)
    BY <1>1 DEF Accept, Begins, TypeOK
  <2>2. Simple(k)'
    BY <1>1, <2>1 DEF Accept, Begins, Simple
  <2> QED
    BY <2>1, <2>2 DEF TraceKinds
<1>2. CASE Decide(k)
  <2>0. k \in UnderWay /\ ~InLead(k) /\ attempts' = attempts /\ pc[k] = "deciding"
    BY <1>2 DEF Decide, UnderWay, InLead, history
  <2>1. CASE End(k, "failure") /\ UNCHANGED nodes
    <3>1. Ends(k)
      BY <2>0, <2>1, EndTraces
    <3> QED
      BY <2>1, <3>1 DEF TraceKinds, Simple, Ends
  <2>2. CASE k \in Complex /\ pc' = [pc EXCEPT ![k] = "planning"] /\ UNCHANGED <<nodes, traces, answer>>
    <3>1. pc'[k] = "planning" /\ UNCHANGED <<active_traces, open>>
      BY <2>2 DEF TypeOK, traces
    <3>2. Untraced(k)
      BY <2>0, <3>1 DEF Untraced, UnderWay, InLead
    <3> QED
      BY <2>2, <3>2 DEF TraceKinds, Simple
  <2>3. CASE nodes' = [nodes EXCEPT ![k] = <<task[k]>>] /\ Onward(k, <<task[k]>>, <<>>)
    <3>1. nodes'[k] = <<task[k]>> /\ Len(nodes'[k]) = 1
      BY <2>3 DEF TypeOK
    <3>2. (Untraced(k) \/ Ends(k)) /\ pc'[k] # "planning"
      BY <2>0, <2>3, OnwardTraces
    <3> QED
      BY <3>1, <3>2 DEF TraceKinds, Simple
  <2> QED
    BY <1>2, <2>1, <2>2, <2>3 DEF Decide
<1>3. CASE Decompose(k)
  <2>0. /\ k \in UnderWay /\ ~InLead(k) /\ attempts' = attempts /\ pc[k] = "planning"
        /\ (\E list : Onward(k, list, <<>>)) \/ End(k, "failure")
    BY <1>3 DEF Decompose, UnderWay, InLead, history
  <2>1. Untraced(k) \/ Ends(k)
    BY <2>0, OnwardTraces, EndTraces
  <2> QED
    BY <2>0, <2>1 DEF TraceKinds, Simple
<1>4. CASE WorkDirectly(k)
  <2>0. /\ k \in UnderWay /\ ~InLead(k) /\ attempts' = attempts /\ nodes' = nodes
        /\ Onward(k, nodes[k], results'[k]) \/ End(k, "failure")
    BY <1>4 DEF WorkDirectly, UnderWay, InLead, history
  <2>1. (Untraced(k) \/ Ends(k)) /\ pc'[k] # "planning"
    BY <2>0, OnwardTraces, EndTraces DEF Ends
  <2> QED
    BY <2>0, <2>1 DEF TraceKinds, Simple
<1>5. CASE RetryCompletion(k)
  <2>1. /\ pc[k] \in {"planning", "direct", "leadWorking"} /\ pc' = pc
        /\ UNCHANGED <<active_traces, open, attempts, nodes, results, try>>
    BY <1>5 DEF RetryCompletion, traces, history
  <2>2. Untraced(k)
    BY <2>1 DEF Untraced, UnderWay, InLead
  <2> QED
    BY <2>1, <2>2 DEF TraceKinds, Simple
<1> QED
  BY <1>1, <1>2, <1>3, <1>4, <1>5

LEMMA LeadTraces ==
  ASSUME TypeOK, NEW k \in Request, Simple(k),
         HandOver(k) \/ LeadDecide(k) \/ LeadWork(k) \/ Return(k)
  PROVE  TraceKinds(k) /\ Simple(k)'
<1>1. ASSUME NEW verdict, EndAttempt(k, verdict), InLead(k)
      PROVE  EndsAttempt(k)
  <2>1. pc'[k] \in {"succeeded", "failed"}
    BY <1>1 DEF EndAttempt, TypeOK
  <2>2. \E a : a.request = k /\ a.step = Step(k) /\ attempts' = attempts \cup {a}
    <3> DEFINE b == [request |-> k, step |-> Step(k), try |-> try[k],
                     handed |-> handed[k], verdict |-> verdict]
    <3>1. attempts' = attempts \cup {b}
      BY <1>1 DEF EndAttempt
    <3>2. b.request = k /\ b.step = Step(k)
      OBVIOUS
    <3> HIDE DEF b
    <3> QED
      BY <3>1, <3>2
  <2> QED
    BY <1>1, <2>1, <2>2 DEF EndsAttempt, EndAttempt
<1>2. CASE HandOver(k)
  <2>1. /\ pc[k] = "getting" /\ pc' = [pc EXCEPT ![k] = "leadDeciding"]
        /\ UNCHANGED <<nodes, results, try, attempts>>
        /\ StartTrace(NodeId(k), LeadOf(k), try[k])
    BY <1>2 DEF HandOver, history, LeadOf
  <2>2. pc'[k] = "leadDeciding"
    BY <2>1 DEF TypeOK
  <2>3. BeginsAttempt(k)
    BY <2>1, <2>2 DEF BeginsAttempt
  <2> QED
    BY <2>1, <2>2, <2>3 DEF TraceKinds, Simple
<1>3. CASE LeadDecide(k)
  <2>0. pc[k] = "leadDeciding" /\ InLead(k) /\ UNCHANGED <<nodes, results, try>>
    BY <1>3 DEF LeadDecide, InLead
  <2>1. CASE pc' = [pc EXCEPT ![k] = "leadWorking"] /\ UNCHANGED <<traces, attempts>>
    <3>1. pc'[k] = "leadWorking" /\ UNCHANGED <<active_traces, open, attempts>>
      BY <2>1 DEF TypeOK, traces
    <3>2. Untraced(k)
      BY <2>0, <3>1 DEF Untraced, UnderWay, InLead
    <3> QED
      BY <2>0, <3>1, <3>2 DEF TraceKinds, Simple
  <2>2. CASE EndAttempt(k, "refused")
    BY <1>1, <2>0, <2>2 DEF TraceKinds, Simple, EndsAttempt
  <2> QED
    BY <1>3, <2>1, <2>2, Zenon DEF LeadDecide
<1>4. CASE LeadWork(k)
  <2>1. /\ InLead(k) /\ UNCHANGED <<nodes, results, try>>
        /\ \E verdict \in {"success", "failure"} : EndAttempt(k, verdict)
    BY <1>4 DEF LeadWork, InLead
  <2> QED
    BY <1>1, <2>1 DEF TraceKinds, Simple, EndsAttempt
<1>5. CASE Return(k)
  <2>0. /\ k \in UnderWay /\ ~InLead(k) /\ attempts' = attempts /\ nodes' = nodes
    BY <1>5 DEF Return, UnderWay, InLead, history
  <2>1. CASE pc' = [pc EXCEPT ![k] = "getting"] /\ UNCHANGED traces
    <3>1. pc'[k] = "getting" /\ UNCHANGED <<active_traces, open>>
      BY <2>1 DEF TypeOK, traces
    <3>2. Untraced(k)
      BY <2>0, <3>1 DEF Untraced, UnderWay, InLead
    <3> QED
      BY <2>0, <3>1, <3>2 DEF TraceKinds, Simple
  <2>2. CASE Onward(k, nodes[k], results'[k])
    <3>1. (Untraced(k) \/ Ends(k)) /\ pc'[k] # "planning"
      BY <2>0, <2>2, OnwardTraces
    <3> QED
      BY <2>0, <3>1 DEF TraceKinds, Simple
  <2>3. \/ pc' = [pc EXCEPT ![k] = "getting"] /\ UNCHANGED traces
        \/ Onward(k, nodes[k], results'[k])
    BY <1>5, Zenon DEF Return, traces
  <2> QED
    BY <2>1, <2>2, <2>3
<1> QED
  BY <1>2, <1>3, <1>4, <1>5

-----------------------------------------------------------------------------
(* A step touches the traces of its own request only: ids carry it.        *)
LEMMA TracesApart ==
  ASSUME TypeOK, NEW k \in Request, TraceKinds(k), NEW j \in Request \ {k}
  PROVE  ActiveOf(j)' = ActiveOf(j) /\ OpenOf(j)' = OpenOf(j)
<1>1. NodeId(k)[1] = k /\ OwnId(k)[1] = k
  BY DEF NodeId, OwnId
<1>2. ASSUME NEW id, id[1] = k, NEW agent, NEW n, StartTrace(id, agent, n)
      PROVE  ActiveOf(j)' = ActiveOf(j) /\ OpenOf(j)' = OpenOf(j)
  <2> DEFINE trace == [id |-> id, agent |-> agent, try |-> n]
  <2>1. /\ active_traces' = {t \in active_traces : t.id # id} \cup {trace}
        /\ open' = open \cup {trace}
    BY <1>2 DEF StartTrace
  <2>2. trace.id[1] = k
    BY <1>2
  <2> HIDE DEF trace
  <2> QED
    BY <1>2, <2>1, <2>2 DEF ActiveOf, OpenOf
<1>3. ASSUME NEW id, id[1] = k, EndTrace(id)
      PROVE  ActiveOf(j)' = ActiveOf(j) /\ OpenOf(j)' = OpenOf(j)
  BY <1>3 DEF EndTrace, ActiveOf, OpenOf
<1>4. CASE Untraced(k)
  BY <1>4 DEF Untraced, ActiveOf, OpenOf
<1> QED
  BY <1>1, <1>2, <1>3, <1>4 DEF TraceKinds, Begins, Ends, BeginsAttempt, EndsAttempt

(* The traces of a request, as its own steps leave them. *)
LEMMA TraceStep ==
  ASSUME TypeOK, Stages, Accounts, NEW k \in Request, TraceOf(k), Simple(k), TraceKinds(k)
  PROVE  TraceOf(k)'
<1> DEFINE own == OwnTrace(k)
           lead == LeadTrace(k)
<1>1. /\ own.id = <<k, 0>> /\ own.id[1] = k /\ own.agent = CEO
      /\ lead.id = NodeId(k) /\ lead.id[1] = k /\ lead.agent = LeadOf(k)
      /\ k \in Complex => lead.id # <<k, 0>>
      /\ k \notin Complex => lead.id = <<k, 0>>
  BY StepType DEF OwnTrace, LeadTrace, OwnId, NodeId
<1>2. own' = own
  BY DEF OwnTrace, OwnId
<1>3. pc[k] = "getting" \/ InLead(k) => lead # own
  <2>1. pc[k] = "getting" \/ InLead(k) => LeadOf(k) # CEO
    BY DEF Stages, StageOf, Delegating, InLead
  <2> QED
    BY <1>1, <2>1
<1> HIDE DEF own, lead
<1>4. /\ \A t : t \in active_traces /\ t.id[1] = k
                  <=> \/ t = own /\ k \in UnderWay /\ ~Replaced(k)
                      \/ t = lead /\ InLead(k)
      /\ \A t : t \in open /\ t.id[1] = k
                  <=> \/ t = own /\ (k \in UnderWay \/ Replaced(k))
                      \/ t = lead /\ InLead(k)
  BY DEF TraceOf, ActiveOf, OpenOf, own, lead
<1>5. SUFFICES
        /\ \A t : t \in active_traces' /\ t.id[1] = k
                    <=> \/ t = own /\ (k \in UnderWay)' /\ ~Replaced(k)'
                        \/ t = lead' /\ InLead(k)'
        /\ \A t : t \in open' /\ t.id[1] = k
                    <=> \/ t = own /\ ((k \in UnderWay)' \/ Replaced(k)')
                        \/ t = lead' /\ InLead(k)'
  BY <1>2 DEF TraceOf, ActiveOf, OpenOf, own, lead
<1>6. attempts' = attempts => AttemptsAt(k, 1)' = AttemptsAt(k, 1)
  BY DEF AttemptsAt
<1>7. CASE Untraced(k)
  <2>1. Replaced(k)' = Replaced(k)
    BY <1>6, <1>7 DEF Untraced, Replaced
  <2>2. InLead(k) => lead' = lead
    BY <1>7 DEF Untraced, lead, LeadTrace, NodeId, LeadOf, Node, Step
  <2> QED
    BY <1>4, <1>7, <2>1, <2>2 DEF Untraced
<1>8. CASE Begins(k)
  <2>1. /\ k \notin UnderWay /\ ~InLead(k) /\ (k \in UnderWay)' /\ ~InLead(k)'
        /\ active_traces' = {t \in active_traces : t.id # <<k, 0>>} \cup {own}
        /\ open' = open \cup {own}
    BY <1>8 DEF Begins, StartTrace, UnderWay, InLead, own, OwnTrace, OwnId
  <2>2. ~Replaced(k)
    <3>1. AttemptsAt(k, Step(k)) = {} /\ results[k] = <<>>
      BY <1>8 DEF Begins, Stages, StageOf, Accounts, AccountOf, Delegating
    <3>2. Step(k) = 1
      BY <3>1 DEF Step
    <3> QED
      BY <2>1, <3>1, <3>2 DEF Replaced
  <2>3. ~Replaced(k)'
    BY <1>6, <1>8, <2>1, <2>2 DEF Begins, Replaced
  <2> QED
    BY <1>1, <1>4, <2>1, <2>2, <2>3
<1>9. CASE Ends(k)
  <2>1. /\ k \in UnderWay /\ ~InLead(k) /\ ~(k \in UnderWay)' /\ ~InLead(k)'
        /\ open' = {t \in open : t \notin active_traces \/ t.id # <<k, 0>>}
        /\ active_traces' = {t \in active_traces : t.id # <<k, 0>>}
    BY <1>9 DEF Ends, EndTrace, OwnId, UnderWay, InLead
  <2>2. Replaced(k)' = Replaced(k)
    BY <1>6, <1>9, <2>1 DEF Ends, Replaced
  <2> QED
    BY <1>1, <1>4, <2>1, <2>2
<1>10. CASE BeginsAttempt(k)
  <2>1. /\ k \in UnderWay /\ ~InLead(k) /\ (k \in UnderWay)' /\ InLead(k)'
        /\ active_traces' = {t \in active_traces : t.id # lead.id} \cup {lead}
        /\ open' = open \cup {lead}
    BY <1>1, <1>10 DEF BeginsAttempt, StartTrace, UnderWay, InLead, lead, LeadTrace
  <2>2. lead' = lead
    BY <1>10 DEF BeginsAttempt, lead, LeadTrace, NodeId, LeadOf, Node, Step
  <2>3. Replaced(k)' <=> k \notin Complex
    BY <2>1 DEF Replaced
  <2>4. Replaced(k) => k \notin Complex
    BY DEF Replaced
  <2>5. lead # own
    BY <1>3, <1>10 DEF BeginsAttempt
  <2> QED
    BY <1>1, <1>4, <2>1, <2>2, <2>3, <2>4, <2>5
<1>11. CASE EndsAttempt(k)
  <2>1. /\ k \in UnderWay /\ InLead(k) /\ (k \in UnderWay)' /\ ~InLead(k)'
        /\ open' = {t \in open : t \notin active_traces \/ t.id # lead.id}
        /\ active_traces' = {t \in active_traces : t.id # lead.id}
    BY <1>1, <1>11 DEF EndsAttempt, EndTrace, UnderWay, InLead
  <2>2. Replaced(k) <=> k \notin Complex
    BY <2>1 DEF Replaced
  <2>3. Replaced(k)' <=> k \notin Complex
    <3>1. k \notin Complex => Step(k) = 1
      <4>1. Step(k) <= Len(nodes[k])
        BY <2>1 DEF Stages, StageOf, Delegating, InLead
      <4>2. Len(nodes[k]) \in Nat /\ Step(k) \in Nat \ {0}
        BY StepType, LenProperties DEF TypeOK
      <4> QED
        BY <2>1, <4>1, <4>2 DEF Simple
    <3>2. AttemptsAt(k, Step(k))' # {} \/ Step(k) # 1 \/ AttemptsAt(k, 1)' # {}
      BY <1>11 DEF EndsAttempt, AttemptsAt
    <3>3. PICK a : a.request = k /\ a.step = Step(k) /\ attempts' = attempts \cup {a}
      BY <1>11 DEF EndsAttempt
    <3>4. Step(k) = 1 => a \in AttemptsAt(k, 1)'
      BY <3>3 DEF AttemptsAt
    <3> QED
      BY <2>1, <3>1, <3>4 DEF Replaced
  <2>4. lead # own
    BY <1>3, <2>1
  <2> QED
    BY <1>1, <1>4, <2>1, <2>2, <2>3, <2>4
<1> QED
  BY <1>7, <1>8, <1>9, <1>10, <1>11 DEF TraceKinds

LEMMA TracingStep ==
  ASSUME IInv, Tracing, NEW k \in Request, Accept(k) \/ Proceed(k)
  PROVE  Tracing'
<1>1. TypeOK /\ Stages /\ Accounts
  BY DEF IInv
<1>2. TraceOf(k) /\ Simple(k)
  BY DEF Tracing
<1>3. TraceKinds(k) /\ Simple(k)'
  BY <1>1, <1>2, CeoTraces, LeadTraces DEF Proceed
<1>4. TraceOf(k)'
  BY <1>1, <1>2, <1>3, TraceStep
<1>5. Apart(k)
  BY <1>1, StepKinds
<1>6. ASSUME NEW j \in Request \ {k} PROVE TraceOf(j)' /\ Simple(j)'
  <2>1. TraceOf(j) /\ Simple(j)
    BY DEF Tracing
  <2>2. ActiveOf(j)' = ActiveOf(j) /\ OpenOf(j)' = OpenOf(j)
    BY <1>1, <1>3, TracesApart
  <2>3. pc'[j] = pc[j] /\ nodes'[j] = nodes[j] /\ results'[j] = results[j] /\ try'[j] = try[j]
    BY <1>5 DEF Apart
  <2>4. AttemptsAt(j, 1)' = AttemptsAt(j, 1)
    BY <1>5 DEF Apart, AttemptsAt
  <2>5. InLead(j)' = InLead(j) /\ (j \in UnderWay)' = (j \in UnderWay)
    BY <2>3 DEF InLead, UnderWay
  <2>6. OwnTrace(j)' = OwnTrace(j) /\ LeadTrace(j)' = LeadTrace(j)
    BY <2>3 DEF OwnTrace, OwnId, LeadTrace, NodeId, LeadOf, Node, Step
  <2>7. Replaced(j)' = Replaced(j)
    BY <2>4, <2>5 DEF Replaced
  <2>8. Simple(j)'
    BY <2>1, <2>3 DEF Simple
  <2>9. TraceOf(j)'
    BY <2>1, <2>2, <2>5, <2>6, <2>7 DEF TraceOf
  <2> QED
    BY <2>8, <2>9
<1> QED
  BY <1>3, <1>4, <1>6 DEF Tracing

LEMMA TracingStutter == Tracing /\ UNCHANGED vars => Tracing'
<1> SUFFICES ASSUME Tracing, UNCHANGED vars PROVE Tracing'
  OBVIOUS
<1>1. UNCHANGED <<active_traces, open, pc, nodes, results, try, attempts>>
  BY DEF vars, traces, history
<1>2. ASSUME NEW k \in Request
      PROVE  /\ InLead(k)' = InLead(k) /\ (k \in UnderWay)' = (k \in UnderWay)
             /\ Replaced(k)' = Replaced(k)
             /\ OwnTrace(k)' = OwnTrace(k) /\ LeadTrace(k)' = LeadTrace(k)
             /\ ActiveOf(k)' = ActiveOf(k) /\ OpenOf(k)' = OpenOf(k)
             /\ Simple(k)' = Simple(k)
  BY <1>1 DEF InLead, UnderWay, Replaced, AttemptsAt, OwnTrace, OwnId, LeadTrace, NodeId,
              LeadOf, Node, Step, ActiveOf, OpenOf, Simple
<1> QED
  BY <1>2 DEF Tracing, TraceOf

LEMMA TracingInit == Init => Tracing
<1> SUFFICES ASSUME Init, NEW k \in Request PROVE TraceOf(k) /\ Simple(k)
  BY DEF Tracing
<1>1. k \notin UnderWay /\ ~InLead(k) /\ pc[k] = "new" /\ nodes[k] = <<>>
  BY DEF Init, UnderWay, InLead
<1>2. ~Replaced(k) /\ active_traces = {} /\ open = {}
  BY <1>1 DEF Init, Replaced, AttemptsAt
<1>3. Len(nodes[k]) = 0
  BY <1>1
<1> QED
  BY <1>1, <1>2, <1>3 DEF TraceOf, Simple, ActiveOf, OpenOf

(* However requests interleave and however often a delegation is tried,    *)
(* an answered request leaves no active trace, and only the CEO's trace of *)
(* a request delegated under its own id is never ended.                    *)
THEOREM TracesEnd == Spec => []TracesEndUnlessReplaced
<1>1. Init => IInv /\ Tracing
  BY InitInvariant, TracingInit
<1>2. IInv /\ Tracing /\ [Next]_vars => (IInv /\ Tracing)'
  BY StepInvariant, StutterInvariant, TracingStep, TracingStutter DEF Next
<1>3. ASSUME IInv, Tracing PROVE TracesEndUnlessReplaced
  <2> SUFFICES ASSUME NEW k \in Request, pc[k] = "done"
               PROVE  /\ \A t \in active_traces : t.id[1] # k
                      /\ \A t \in open :
                           t.id[1] = k => k \notin Complex /\ AttemptsAt(k, 1) # {} /\ t.agent = CEO
                      /\ k \notin Complex /\ AttemptsAt(k, 1) # {} =>
                           \E t \in open : t.id = OwnId(k) /\ t.agent = CEO
    BY DEF TracesEndUnlessReplaced
  <2>1. k \notin UnderWay /\ ~InLead(k)
    BY DEF UnderWay, InLead
  <2>2. TraceOf(k)
    BY <1>3 DEF Tracing
  <2>3. OwnTrace(k).id = OwnId(k) /\ OwnTrace(k).agent = CEO
    BY DEF OwnTrace
  <2> QED
    BY <2>1, <2>2, <2>3 DEF TraceOf, ActiveOf, OpenOf, Replaced
<1> QED
  BY <1>1, <1>2, <1>3, PTL DEF Spec
=============================================================================
