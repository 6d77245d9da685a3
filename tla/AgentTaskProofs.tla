--------------------------- MODULE AgentTaskProofs ---------------------------
(***************************************************************************)
(* What a task can be attributed to, for any number of tasks and tenants.  *)
(* The argument: as long as a task is under way the agent's one tenant     *)
(* context is that of the task accepted last, which is the task itself or  *)
(* one of those counted as joined (Holder); what log_audit captures of it  *)
(* is therefore in the task's company (Captured), and so are the rows.     *)
(***************************************************************************)
EXTENDS AgentTask, TLAPS

Holder == \A k \in UnderWay : current_tenant \in Company(k)

Captured ==
  \A k \in Task :
    /\ pc[k] = "deciding" => logged_as[k] = owner[k]
    /\ pc[k] \in {"recording", "auditing"} => logged_as[k] \in Company(k)
    /\ pc[k] = "recording" => result[k] \in {"success", "failure"}

IInv == TypeOK /\ Holder /\ Captured /\ MixUpNeedsOverlap

(* Company only grows, and a task is always in its own. *)
LEMMA CompanyGrows ==
  ASSUME NEW k \in Task, joined[k] \subseteq joined'[k]
  PROVE  Company(k) \subseteq Company(k)'
BY DEF Company

LEMMA OwnCompany == ASSUME NEW k \in Task PROVE owner[k] \in Company(k)
BY DEF Company

(* In a fresh agent nothing is attributed to anybody. *)
LEMMA InitIInv == Init => IInv
BY AgentAssumption
   DEF Init, IInv, TypeOK, Holder, Captured, MixUpNeedsOverlap, UnderWay, Company

(* What log_audit is writing for a task is in the task's company, and is a *)
(* tenant.                                                                 *)
LEMMA CapturedInCompany ==
  ASSUME IInv, NEW k \in Task, pc[k] \in {"deciding", "recording", "auditing"}
  PROVE  logged_as[k] \in Company(k) /\ logged_as[k] \in Tenant
BY OwnCompany, AgentAssumption DEF IInv, TypeOK, Captured, Company

(* The audit rows stay well-typed and well-attributed when log_audit adds  *)
(* the one it has captured.                                                *)
LEMMA WriteAuditStep ==
  ASSUME IInv, NEW k \in Task, NEW action \in {"decision", "outcome"}, NEW written \in BOOLEAN,
         pc[k] = IF action = "decision" THEN "deciding" ELSE "auditing",
         WriteAudit(k, action, written), UNCHANGED joined
  PROVE  /\ audit_log' \subseteq [task : Task, tenant : Tenant, action : {"decision", "outcome"}]
         /\ \A row \in audit_log' :
              row.tenant \in IF row.action = "decision" THEN {owner[row.task]}
                             ELSE Company(row.task)'
<1> DEFINE new == [task |-> k, tenant |-> logged_as[k], action |-> action]
<1>1. logged_as[k] \in Company(k) /\ logged_as[k] \in Tenant
  BY CapturedInCompany
<1>2. action = "decision" => logged_as[k] = owner[k]
  BY DEF IInv, Captured
<1>3. \A j \in Task : Company(j)' = Company(j)
  BY DEF Company
<1>4. audit_log' \subseteq audit_log \cup {new}
  BY DEF WriteAudit
<1>5. /\ new.task = k /\ new.action = action
      /\ new.tenant \in IF action = "decision" THEN {owner[k]} ELSE Company(k)'
  BY <1>1, <1>2, <1>3
<1>6. \A row \in audit_log : row.task \in Task
  BY DEF IInv, TypeOK
<1>7. \A row \in audit_log :
        row.tenant \in IF row.action = "decision" THEN {owner[row.task]}
                       ELSE Company(row.task)'
  BY <1>3, <1>6 DEF IInv, MixUpNeedsOverlap
<1>8. /\ new \in [task : Task, tenant : Tenant, action : {"decision", "outcome"}]
      /\ audit_log \subseteq [task : Task, tenant : Tenant, action : {"decision", "outcome"}]
  BY <1>1 DEF IInv, TypeOK
<1> HIDE DEF new
<1>9. audit_log' \subseteq [task : Task, tenant : Tenant, action : {"decision", "outcome"}]
  BY <1>4, <1>8
<1>10. ASSUME NEW row \in audit_log'
       PROVE  row.tenant \in IF row.action = "decision" THEN {owner[row.task]}
                             ELSE Company(row.task)'
  <2>1. CASE row = new
    BY <1>5, <2>1
  <2>2. CASE row \in audit_log
    BY <1>7, <2>2
  <2>3. QED
    BY <1>4, <2>1, <2>2
<1>11. QED
  BY <1>9, <1>10

(* Conclude captures the agent's tenant, which Holder bounds while the     *)
(* task is still under way; it leaves the tables and the company alone.    *)
LEMMA ConcludeStep ==
  ASSUME IInv, NEW k \in UnderWay, NEW outcome \in {"success", "failure"},
         Conclude(k, outcome), UNCHANGED joined
  PROVE  /\ status' = "idle" /\ current_task' = NoTask
         /\ pc' \in [Task -> {"new", "deciding", "working", "recording", "auditing", "done"}]
         /\ logged_as' \in [Task -> Tenant \cup {NoTenant}]
         /\ result' \in [Task -> {"none", "success", "failure"}]
         /\ UNCHANGED <<is_connected, current_tenant>>
         /\ Holder' /\ Captured'
<1>1. k \in Task /\ current_tenant \in Company(k)
  BY DEF IInv, Holder, UnderWay
<1>2. \A j \in Task : Company(j)' = Company(j)
  BY DEF Company
<1>3. /\ pc' = [pc EXCEPT ![k] = "recording"]
      /\ logged_as' = [logged_as EXCEPT ![k] = current_tenant]
      /\ result' = [result EXCEPT ![k] = outcome]
      /\ status' = "idle" /\ current_task' = NoTask
      /\ UNCHANGED <<is_connected, current_tenant>>
  BY DEF Conclude
<1>4. Holder'
  BY <1>1, <1>2, <1>3 DEF Holder, UnderWay, IInv, TypeOK
<1>5. Captured'
  BY <1>1, <1>2, <1>3 DEF Captured, IInv, TypeOK
<1>6. QED
  BY <1>1, <1>3, <1>4, <1>5 DEF IInv, TypeOK

(* Every step of the agent or of a task keeps the inductive invariant.     *)
LEMMA NextIInv == IInv /\ [Next]_vars => IInv'
<1> SUFFICES ASSUME IInv, [Next]_vars PROVE IInv'
  OBVIOUS
<1> USE DEF history
<1>1. CASE StartAgent \/ StopAgent \/ UNCHANGED vars
  BY <1>1 DEF StartAgent, StopAgent, vars, agent, tables, history, IInv, TypeOK, Holder,
              Captured, MixUpNeedsOverlap, UnderWay, Company
<1>2. ASSUME NEW k \in Task, Accept(k) PROVE IInv'
  <2>1. TypeOK'
    BY <1>2, AgentAssumption DEF Accept, tables, IInv, TypeOK
  <2>2. \A j \in Task : Company(j) \subseteq Company(j)'
    <3>1. \A j \in Task : joined[j] \subseteq joined'[j]
      BY <1>2 DEF Accept
    <3>2. QED
      BY <3>1, CompanyGrows
  <2>3. Holder'
    <3>1. ASSUME NEW j \in Task, j \in UnderWay' PROVE owner[k] \in Company(j)'
      <4>1. CASE j = k
        BY <4>1 DEF Company
      <4>2. CASE j # k
        <5>1. j \in UnderWay
          BY <1>2, <3>1, <4>2 DEF Accept, UnderWay, IInv, TypeOK
        <5>2. joined'[j] = joined[j] \cup {k}
          BY <1>2, <5>1 DEF Accept
        <5>3. QED
          BY <5>2 DEF Company
      <4>3. QED
        BY <4>1, <4>2
    <3>2. QED
      BY <1>2, <3>1 DEF Holder, Accept, UnderWay
  <2>4. Captured'
    BY <1>2, <2>2 DEF Captured, Accept, IInv, TypeOK
  <2>5. MixUpNeedsOverlap'
    BY <1>2, <2>2 DEF MixUpNeedsOverlap, Accept, tables, IInv, TypeOK
  <2>6. QED
    BY <2>1, <2>3, <2>4, <2>5 DEF IInv
<1>3. ASSUME NEW k \in Task, NEW allowed \in BOOLEAN, NEW written \in BOOLEAN,
             Decide(k, allowed, written)
      PROVE  IInv'
  <2>1. /\ pc[k] = "deciding"
        /\ WriteAudit(k, "decision", written)
        /\ UNCHANGED <<agent_runs, history>>
    BY <1>3 DEF Decide
  <2>2. k \in UnderWay
    BY <2>1 DEF UnderWay
  <2>3. /\ audit_log' \subseteq [task : Task, tenant : Tenant, action : {"decision", "outcome"}]
        /\ \A row \in audit_log' :
             row.tenant \in IF row.action = "decision" THEN {owner[row.task]}
                            ELSE Company(row.task)'
    BY <2>1, WriteAuditStep
  <2>4. \A j \in Task : Company(j)' = Company(j)
    BY <2>1 DEF Company
  <2>5. \A row \in agent_runs' : row.tenant \in Company(row.task)'
    BY <2>1, <2>4 DEF IInv, TypeOK, MixUpNeedsOverlap
  <2>6. CASE allowed
    <3>1. /\ pc' = [pc EXCEPT ![k] = "working"]
          /\ worked_as' = [worked_as EXCEPT ![k] = current_tenant]
          /\ UNCHANGED <<agent, logged_as, result>>
      BY <1>3, <2>6 DEF Decide
    <3>2. TypeOK'
      BY <2>1, <2>3, <3>1 DEF IInv, TypeOK, agent
    <3>3. Holder' /\ Captured'
      BY <2>1, <2>2, <2>4, <3>1 DEF IInv, TypeOK, Holder, Captured, UnderWay, agent
    <3>4. \A j \in Task : worked_as'[j] # NoTenant => worked_as'[j] \in Company(j)'
      BY <2>2, <2>4, <3>1 DEF IInv, TypeOK, Holder, MixUpNeedsOverlap
    <3>5. QED
      BY <2>3, <2>5, <3>2, <3>3, <3>4 DEF IInv, MixUpNeedsOverlap
  <2>7. CASE ~ allowed
    <3>1. Conclude(k, "failure") /\ UNCHANGED worked_as
      BY <1>3, <2>7 DEF Decide
    <3>2. /\ status' = "idle" /\ current_task' = NoTask
          /\ pc' \in [Task -> {"new", "deciding", "working", "recording", "auditing", "done"}]
          /\ logged_as' \in [Task -> Tenant \cup {NoTenant}]
          /\ result' \in [Task -> {"none", "success", "failure"}]
          /\ UNCHANGED <<is_connected, current_tenant>>
          /\ Holder' /\ Captured'
      BY <2>1, <2>2, <3>1, ConcludeStep
    <3>3. TypeOK'
      BY <2>1, <2>3, <3>1, <3>2 DEF IInv, TypeOK
    <3>4. \A j \in Task : worked_as'[j] # NoTenant => worked_as'[j] \in Company(j)'
      BY <2>4, <3>1 DEF IInv, MixUpNeedsOverlap
    <3>5. QED
      BY <2>3, <2>5, <3>2, <3>3, <3>4 DEF IInv, MixUpNeedsOverlap
  <2>8. QED
    BY <2>6, <2>7
<1>4. ASSUME NEW k \in Task, NEW outcome \in {"success", "failure"}, Work(k, outcome)
      PROVE  IInv'
  <2>1. /\ k \in UnderWay
        /\ Conclude(k, outcome)
        /\ UNCHANGED <<worked_as, agent_runs, audit_log, history>>
    BY <1>4 DEF Work, tables, UnderWay
  <2>2. /\ status' = "idle" /\ current_task' = NoTask
        /\ pc' \in [Task -> {"new", "deciding", "working", "recording", "auditing", "done"}]
        /\ logged_as' \in [Task -> Tenant \cup {NoTenant}]
        /\ result' \in [Task -> {"none", "success", "failure"}]
        /\ UNCHANGED <<is_connected, current_tenant>>
        /\ Holder' /\ Captured'
    BY <2>1, ConcludeStep
  <2>3. TypeOK'
    BY <2>1, <2>2 DEF IInv, TypeOK
  <2>4. MixUpNeedsOverlap'
    BY <2>1 DEF IInv, TypeOK, MixUpNeedsOverlap, Company
  <2>5. QED
    BY <2>2, <2>3, <2>4 DEF IInv
<1>5. ASSUME NEW k \in Task, NEW written \in BOOLEAN, RecordRun(k, written)
      PROVE  IInv'
  <2> DEFINE new == [task |-> k, tenant |-> logged_as[k], status |-> result[k]]
  <2>1. /\ pc[k] = "recording"
        /\ agent_runs' \subseteq agent_runs \cup {new}
        /\ pc' = [pc EXCEPT ![k] = "auditing"]
        /\ UNCHANGED <<agent, logged_as, result, worked_as, audit_log, history>>
    BY <1>5 DEF RecordRun
  <2>2. logged_as[k] \in Company(k) /\ logged_as[k] \in Tenant
    BY <2>1, CapturedInCompany
  <2>3. \A j \in Task : Company(j)' = Company(j)
    BY <2>1 DEF Company
  <2>4. result[k] \in {"success", "failure"}
    BY <2>1 DEF IInv, Captured
  <2>5. TypeOK'
    BY <2>1, <2>2, <2>4 DEF IInv, TypeOK, agent
  <2>6. Holder' /\ Captured'
    BY <2>1, <2>3 DEF IInv, TypeOK, Holder, Captured, UnderWay, agent
  <2>7. MixUpNeedsOverlap'
    BY <2>1, <2>2, <2>3 DEF IInv, TypeOK, MixUpNeedsOverlap
  <2>8. QED
    BY <2>5, <2>6, <2>7 DEF IInv
<1>6. ASSUME NEW k \in Task, NEW written \in BOOLEAN, AuditOutcome(k, written)
      PROVE  IInv'
  <2>1. /\ pc[k] = "auditing"
        /\ WriteAudit(k, "outcome", written)
        /\ pc' = [pc EXCEPT ![k] = "done"]
        /\ UNCHANGED <<agent, logged_as, result, worked_as, agent_runs, history>>
    BY <1>6 DEF AuditOutcome
  <2>2. /\ audit_log' \subseteq [task : Task, tenant : Tenant, action : {"decision", "outcome"}]
        /\ \A row \in audit_log' :
             row.tenant \in IF row.action = "decision" THEN {owner[row.task]}
                            ELSE Company(row.task)'
    BY <2>1, WriteAuditStep
  <2>3. \A j \in Task : Company(j)' = Company(j)
    BY <2>1 DEF Company
  <2>4. TypeOK'
    BY <2>1, <2>2 DEF IInv, TypeOK, agent
  <2>5. Holder' /\ Captured'
    BY <2>1, <2>3 DEF IInv, TypeOK, Holder, Captured, UnderWay, agent
  <2>6. MixUpNeedsOverlap'
    BY <2>1, <2>2, <2>3 DEF IInv, TypeOK, MixUpNeedsOverlap
  <2>7. QED
    BY <2>4, <2>5, <2>6 DEF IInv
<1>7. QED
  BY <1>1, <1>2, <1>3, <1>4, <1>5, <1>6 DEF Next, Proceed

(* The inductive invariant holds throughout. *)
THEOREM AgentInvariant == Spec => []IInv
BY InitIInv, NextIInv, PTL DEF Spec

(* BaseAgent's rows and working context are attributed to the task's own   *)
(* tenant, or to that of a task accepted on the same agent before the      *)
(* outcome: a task that has the agent to itself is never mixed up.         *)
THEOREM Attribution == Spec => [](TypeOK /\ MixUpNeedsOverlap)
<1>1. IInv => TypeOK /\ MixUpNeedsOverlap
  BY DEF IInv
<1>2. QED
  BY <1>1, AgentInvariant, PTL

-----------------------------------------------------------------------------
(* What ReportsItsWork says of a busy agent, and of one at rest. *)
NeverBusyForNothing ==
  /\ status = "busy" => current_task \in UnderWay
  /\ UnderWay = {} => current_task = NoTask

(* However tasks overlap and end, a step leaves the agent "busy" only with *)
(* a task under way, and with no task named once none is.                  *)
LEMMA BusyStep ==
  TypeOK /\ NeverBusyForNothing /\ [Next]_vars => NeverBusyForNothing'
<1> SUFFICES ASSUME TypeOK, NeverBusyForNothing, [Next]_vars
             PROVE  NeverBusyForNothing'
  OBVIOUS
<1> USE DEF TypeOK, NeverBusyForNothing, UnderWay
<1>1. CASE StartAgent \/ StopAgent \/ UNCHANGED vars
  BY <1>1 DEF StartAgent, StopAgent, vars, agent
<1>2. ASSUME NEW k \in Task, Accept(k) PROVE NeverBusyForNothing'
  BY <1>2 DEF Accept
<1>3. ASSUME NEW k \in Task, NEW allowed \in BOOLEAN, NEW written \in BOOLEAN,
             Decide(k, allowed, written)
      PROVE  NeverBusyForNothing'
  <2>1. CASE allowed
    BY <1>3, <2>1 DEF Decide, agent
  <2>2. CASE ~ allowed
    BY <1>3, <2>2 DEF Decide, Conclude
  <2>3. QED
    BY <2>1, <2>2
<1>4. ASSUME NEW k \in Task, NEW outcome \in {"success", "failure"}, Work(k, outcome)
      PROVE  NeverBusyForNothing'
  BY <1>4 DEF Work, Conclude
<1>5. ASSUME NEW k \in Task, NEW written \in BOOLEAN,
             RecordRun(k, written) \/ AuditOutcome(k, written)
      PROVE  NeverBusyForNothing'
  BY <1>5 DEF RecordRun, AuditOutcome, agent
<1>6. QED
  BY <1>1, <1>2, <1>3, <1>4, <1>5 DEF Next, Proceed

(* Of two tasks under way one was accepted while the other was. *)
Overlapping ==
  \A j, k \in UnderWay : j # k => j \in joined[k] \/ k \in joined[j]

(* What ReportsItsWork says of a task under way. *)
SeenAtWork ==
  \A k \in UnderWay :
    \/ status = "busy" /\ current_task = k
    \/ joined[k] # {} \/ (\E j \in Task : k \in joined[j]) \/ k \in restarted

(* A step keeps what the agent reports of a task that has it to itself:    *)
(* whatever else happens to the agent is of a task that overlaps it, of    *)
(* one that is under way no more, or a start or stop.                      *)
LEMMA IdleStep ==
  ASSUME TypeOK, Overlapping, SeenAtWork, [Next]_vars
  PROVE  Overlapping' /\ SeenAtWork'
<1> USE DEF TypeOK, Overlapping, SeenAtWork, UnderWay
<1>1. CASE StartAgent \/ StopAgent
  BY <1>1 DEF StartAgent, StopAgent
<1>2. CASE UNCHANGED vars
  BY <1>2 DEF vars, agent, history
<1>3. ASSUME NEW k \in Task, Accept(k)
      PROVE  Overlapping' /\ SeenAtWork'
  <2>1. /\ pc[k] = "new" /\ k \notin UnderWay
        /\ UnderWay' = UnderWay \cup {k}
        /\ status' = "busy" /\ current_task' = k
        /\ \A j \in Task : joined'[j] = IF j \in UnderWay THEN joined[j] \cup {k} ELSE joined[j]
    BY <1>3 DEF Accept
  <2>2. Overlapping'
    BY <2>1
  <2>3. SeenAtWork'
    <3>1. ASSUME NEW j \in UnderWay', j # k PROVE k \in joined'[j]
      BY <2>1, <3>1
    <3> QED BY <2>1, <3>1
  <2> QED BY <2>2, <2>3
<1>4. ASSUME NEW k \in Task, NEW outcome, k \in UnderWay, Conclude(k, outcome), UNCHANGED history
      PROVE  Overlapping' /\ SeenAtWork'
  <2>1. UnderWay' = UnderWay \ {k} /\ joined' = joined
    BY <1>4 DEF Conclude, history
  <2>2. ASSUME NEW j \in UnderWay' PROVE joined'[j] # {} \/ \E i \in Task : j \in joined'[i]
    <3>1. j \in UnderWay /\ j # k
      BY <2>1, <2>2
    <3> QED BY <1>4, <2>1, <3>1
  <2> QED BY <2>1, <2>2
<1>5. ASSUME NEW k \in Task, NEW allowed \in BOOLEAN, NEW written \in BOOLEAN,
             Decide(k, allowed, written)
      PROVE  Overlapping' /\ SeenAtWork'
  <2>1. CASE allowed
    <3>1. UnderWay' = UnderWay /\ UNCHANGED <<status, current_task, history>>
      BY <1>5, <2>1 DEF Decide, agent, history
    <3> QED BY <3>1 DEF history
  <2>2. CASE ~ allowed
    BY <1>4, <1>5, <2>2 DEF Decide, history
  <2> QED BY <2>1, <2>2
<1>6. ASSUME NEW k \in Task, NEW outcome \in {"success", "failure"}, Work(k, outcome)
      PROVE  Overlapping' /\ SeenAtWork'
  BY <1>4, <1>6 DEF Work
<1>7. ASSUME NEW k \in Task, NEW written \in BOOLEAN,
             RecordRun(k, written) \/ AuditOutcome(k, written)
      PROVE  Overlapping' /\ SeenAtWork'
  <2>1. UnderWay' = UnderWay /\ UNCHANGED <<status, current_task, joined, restarted>>
    BY <1>7 DEF RecordRun, AuditOutcome, agent, history
  <2> QED BY <2>1
<1> QED
  BY <1>1, <1>2, <1>3, <1>5, <1>6, <1>7 DEF Next, Proceed

(* profile.status and profile.current_task, shared by all the overlapping  *)
(* calls of execute_task, never show an agent busy with nothing; and an    *)
(* agent that shows another task, or none, while this one works has had    *)
(* another task beside it, or was started or stopped.                      *)
THEOREM AgentReports == Spec => []ReportsItsWork
<1> DEFINE ReportInv == NeverBusyForNothing /\ Overlapping /\ SeenAtWork
<1>1. Init => ReportInv
  BY DEF Init, NeverBusyForNothing, Overlapping, SeenAtWork, UnderWay
<1>2. TypeOK /\ ReportInv /\ [Next]_vars => ReportInv'
  BY BusyStep, IdleStep
<1>3. ReportInv => ReportsItsWork
  BY DEF NeverBusyForNothing, SeenAtWork, ReportsItsWork
<1> QED
  BY <1>1, <1>2, <1>3, Attribution, PTL DEF Spec
=============================================================================
