------------------------------ MODULE AgentTask ------------------------------
(***************************************************************************)
(* BaseAgent of src/agents/base.ts: execute_task, its two audit entries,   *)
(* and the start and stop of the agent.                                    *)
(*                                                                         *)
(* AgentRuntime hands the same agent object to every request, so calls of  *)
(* execute_task for different tenants overlap at its awaits, while         *)
(* current_tenant, profile.status and profile.current_task are one field   *)
(* each.  An action is the code between two awaits; log_audit reads        *)
(* current_tenant when it is called, not when the task was accepted.       *)
(***************************************************************************)
EXTENDS FiniteSets

CONSTANTS Task,      \* the calls of execute_task
          Tenant,
          owner,     \* the tenant_context passed with each task
          NoTask,    \* profile.current_task = null
          NoTenant   \* current_tenant = null

ASSUME AgentAssumption ==
  /\ owner \in [Task -> Tenant]
  /\ NoTask \notin Task
  /\ NoTenant \notin Tenant

VARIABLES
  is_connected, status, current_task, current_tenant,
  pc,          \* where each call of execute_task is
  logged_as,   \* the tenant log_audit has captured for the entry being written
  result,      \* the TaskResult to be returned
  worked_as,   \* the tenant context execute() found on the agent
  agent_runs,  \* the rows of the table
  audit_log,
  joined,      \* history: those accepted between a task and its outcome
  restarted    \* history: those under way when the agent was started or stopped

agent == <<is_connected, status, current_task, current_tenant>>
tables == <<agent_runs, audit_log>>
history == <<joined, restarted>>
vars == <<agent, pc, logged_as, result, worked_as, tables, history>>

TypeOK ==
  /\ is_connected \in BOOLEAN
  /\ status \in {"idle", "busy", "offline"}
  /\ current_task \in Task \cup {NoTask}
  /\ current_tenant \in Tenant \cup {NoTenant}
  /\ pc \in [Task -> {"new", "deciding", "working", "recording", "auditing", "done"}]
  /\ logged_as \in [Task -> Tenant \cup {NoTenant}]
  /\ result \in [Task -> {"none", "success", "failure"}]
  /\ worked_as \in [Task -> Tenant \cup {NoTenant}]
  /\ agent_runs \subseteq [task : Task, tenant : Tenant, status : {"success", "failure"}]
  /\ audit_log \subseteq [task : Task, tenant : Tenant, action : {"decision", "outcome"}]
  /\ joined \in [Task -> SUBSET Task]
  /\ restarted \subseteq Task

(* The tasks under way, and with them those whose outcome entry is still   *)
(* being written.                                                          *)
UnderWay == {k \in Task : pc[k] \in {"deciding", "working"}}
Active   == {k \in Task : pc[k] \notin {"new", "done"}}

-----------------------------------------------------------------------------
(* The agent as get_agent first returns it: started, and never used. *)
Init ==
  /\ is_connected = TRUE
  /\ status = "idle"
  /\ current_task = NoTask
  /\ current_tenant = NoTenant
  /\ pc = [k \in Task |-> "new"]
  /\ logged_as = [k \in Task |-> NoTenant]
  /\ result = [k \in Task |-> "none"]
  /\ worked_as = [k \in Task |-> NoTenant]
  /\ agent_runs = {}
  /\ audit_log = {}
  /\ joined = [k \in Task |-> {}]
  /\ restarted = {}

(* start, after on_start.  Two concurrent get_agent calls of a worker      *)
(* start the registry's one instance twice, so start can end at any time.  *)
StartAgent ==
  /\ is_connected' = TRUE
  /\ status' = "idle"
  /\ restarted' = restarted \cup UnderWay
  /\ UNCHANGED <<current_task, current_tenant, pc, logged_as, result, worked_as,
                 tables, joined>>

StopAgent ==
  /\ is_connected' = FALSE
  /\ status' = "offline"
  /\ restarted' = restarted \cup UnderWay
  /\ UNCHANGED <<current_task, current_tenant, pc, logged_as, result, worked_as,
                 tables, joined>>

(* Mutation: a tenant already held is kept. *)
AcceptAs(k, tenant, logged) ==
  /\ pc[k] = "new"
  /\ current_tenant' = tenant
  /\ status' = "busy"
  /\ current_task' = k
  /\ pc' = [pc EXCEPT ![k] = "deciding"]
  /\ logged_as' = [logged_as EXCEPT ![k] = logged]
  /\ joined' = [j \in Task |-> IF j \in UnderWay THEN joined[j] \cup {k} ELSE joined[j]]
  /\ UNCHANGED <<is_connected, result, worked_as, tables, restarted>>
AcceptKeepsTenant(k) ==
  LET held == IF current_tenant = NoTenant THEN owner[k] ELSE current_tenant
  IN  AcceptAs(k, held, owner[k])

(* execute_task up to the first await: nothing asks whether the agent is   *)
(* connected or busy.  The policy entry is built for the tenant just set.  *)
Accept(k) ==
  /\ pc[k] = "new"
  /\ current_tenant' = owner[k]
  /\ status' = "busy"
  /\ current_task' = k
  /\ pc' = [pc EXCEPT ![k] = "deciding"]
  /\ logged_as' = [logged_as EXCEPT ![k] = owner[k]]
  /\ joined' = [j \in Task |-> IF j \in UnderWay THEN joined[j] \cup {k} ELSE joined[j]]
  /\ UNCHANGED <<is_connected, result, worked_as, tables, restarted>>

(* log_audit's writes: an error of the database is swallowed. *)
WriteAudit(k, action, written) ==
  audit_log' = IF written
               THEN audit_log \cup {[task |-> k, tenant |-> logged_as[k], action |-> action]}
               ELSE audit_log

(* Mutation: the agent stays busy after a failure. *)
ConcludeBusy(k, outcome) ==
  /\ status' = IF outcome = "success" THEN "idle" ELSE status
  /\ current_task' = NoTask
  /\ result' = [result EXCEPT ![k] = outcome]
  /\ logged_as' = [logged_as EXCEPT ![k] = current_tenant]
  /\ pc' = [pc EXCEPT ![k] = "recording"]
  /\ UNCHANGED <<is_connected, current_tenant>>

(* The end of execute_task's work, after a return or in the catch block:   *)
(* the agent is idle again, and the outcome entry is begun for whatever    *)
(* tenant the agent holds.                                                 *)
Conclude(k, outcome) ==
  /\ status' = "idle"
  /\ current_task' = NoTask
  /\ result' = [result EXCEPT ![k] = outcome]
  /\ logged_as' = [logged_as EXCEPT ![k] = current_tenant]
  /\ pc' = [pc EXCEPT ![k] = "recording"]
  /\ UNCHANGED <<is_connected, current_tenant>>

(* The policy entry is written; assert_agent_policy_allows throws unless   *)
(* the decision was to allow, and otherwise execute begins, which takes    *)
(* the tenant context from the agent.                                      *)
Decide(k, allowed, written) ==
  /\ pc[k] = "deciding"
  /\ WriteAudit(k, "decision", written)
  /\ IF allowed
     THEN /\ pc' = [pc EXCEPT ![k] = "working"]
          /\ worked_as' = [worked_as EXCEPT ![k] = current_tenant]
          /\ UNCHANGED <<agent, logged_as, result>>
     ELSE /\ Conclude(k, "failure")
          /\ UNCHANGED worked_as
  /\ UNCHANGED <<agent_runs, history>>

(* execute returns or throws. *)
Work(k, outcome) ==
  /\ pc[k] = "working"
  /\ Conclude(k, outcome)
  /\ UNCHANGED <<worked_as, tables, history>>

(* Mutation: an error of the first insert escapes to the caller, who is    *)
(* left without a result.                                                  *)
RecordRunThrows(k, written) ==
  /\ pc[k] = "recording"
  /\ agent_runs' = IF written
                   THEN agent_runs \cup {[task |-> k, tenant |-> logged_as[k],
                                          status |-> result[k]]}
                   ELSE agent_runs
  /\ pc' = [pc EXCEPT ![k] = IF written THEN "auditing" ELSE "new"]
  /\ UNCHANGED <<agent, logged_as, result, worked_as, audit_log, history>>

(* The first insert of log_audit for an outcome, ... *)
RecordRun(k, written) ==
  /\ pc[k] = "recording"
  /\ agent_runs' = IF written
                   THEN agent_runs \cup {[task |-> k, tenant |-> logged_as[k],
                                          status |-> result[k]]}
                   ELSE agent_runs
  /\ pc' = [pc EXCEPT ![k] = "auditing"]
  /\ UNCHANGED <<agent, logged_as, result, worked_as, audit_log, history>>

(* Mutation: the agent is reported idle where execute_task returns.        *)
AuditOutcomeIdle(k, written) ==
  /\ pc[k] = "auditing"
  /\ WriteAudit(k, "outcome", written)
  /\ status' = "idle"
  /\ pc' = [pc EXCEPT ![k] = "done"]
  /\ UNCHANGED <<is_connected, current_task, current_tenant, logged_as, result, worked_as,
                 agent_runs, history>>

(* ... and the second, after which execute_task returns. *)
AuditOutcome(k, written) ==
  /\ pc[k] = "auditing"
  /\ WriteAudit(k, "outcome", written)
  /\ pc' = [pc EXCEPT ![k] = "done"]
  /\ UNCHANGED <<agent, logged_as, result, worked_as, agent_runs, history>>

Proceed(k) ==
  \/ \E allowed, written \in BOOLEAN : Decide(k, allowed, written)
  \/ \E outcome \in {"success", "failure"} : Work(k, outcome)
  \/ \E written \in BOOLEAN : RecordRun(k, written) \/ AuditOutcome(k, written)

Next ==
  \/ StartAgent \/ StopAgent
  \/ \E k \in Task : Accept(k) \/ Proceed(k)

(* Awaits of the database and of the agent's work end. *)
Fairness == \A k \in Task : WF_vars(Proceed(k))

Spec == Init /\ [][Next]_vars /\ Fairness

-----------------------------------------------------------------------------
(* The tenants a task can be mixed up with: its own, and those of the      *)
(* tasks accepted while it was under way.                                  *)
Company(k) == {owner[j] : j \in joined[k] \cup {k}}

(* A row, and the context a task works under, can name the wrong tenant    *)
(* only if a task of that tenant was accepted on the agent before this one *)
(* came to its outcome; a task that has the agent to itself is attributed right, *)
(* and policy decisions always are.                                        *)
MixUpNeedsOverlap ==
  /\ \A row \in agent_runs : row.tenant \in Company(row.task)
  /\ \A row \in audit_log :
       row.tenant \in IF row.action = "decision" THEN {owner[row.task]}
                      ELSE Company(row.task)
  /\ \A k \in Task : worked_as[k] # NoTenant => worked_as[k] \in Company(k)

(* The agent never looks occupied for nothing: while it is "busy" the task *)
(* it names is under way, and once every task has come to its outcome it   *)
(* names none.  And a task under way is what it reports, unless another    *)
(* one overlaps it (the end of one then reports the agent idle while the   *)
(* other works) or the agent is started or stopped meanwhile; the audit    *)
(* entries of earlier tasks, still being written, do not count.            *)
ReportsItsWork ==
  /\ status = "busy" => current_task \in UnderWay
  /\ UnderWay = {} => current_task = NoTask
  /\ \A k \in UnderWay :
       \/ status = "busy" /\ current_task = k
       \/ joined[k] # {} \/ (\E j \in Task : k \in joined[j]) \/ k \in restarted

(* Every accepted task is answered, whatever the database does. *)
AcceptedTaskReturns == \A k \in Task : pc[k] = "deciding" ~> pc[k] = "done"
=============================================================================
