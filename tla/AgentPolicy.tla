----------------------------- MODULE AgentPolicy -----------------------------
(***************************************************************************)
(* evaluate_agent_policy of src/openclaw/policy.ts: what an agent granted  *)
(* some capabilities decides about a task under a tenant context.  The     *)
(* policies of the capabilities are those of src/openclaw/manifest.ts.     *)
(* The risk tier and the reasons it reports, and the finding PII_PRESENT,  *)
(* never bear on the decision and are left out; the injection patterns are *)
(* the task's field flagged.  An amount that is absent is 0: no limit is   *)
(* below it.                                                               *)
(***************************************************************************)
EXTENDS Integers

CONSTANTS Capability,
          CapabilityPolicy,   \* [Capability -> [approval, limit, roles]]
          NoLimit,            \* max_autonomous_amount_cents = null
          SuperAdmin          \* the role that may act for every tenant

(* Mutation: a task of another tenant is no finding. *)
FindingsAnyTenant(task, context, granted) ==
     {"CAPABILITY_NOT_GRANTED" : c \in task.needs \ granted}
  \cup {"ROLE_NOT_AUTHORIZED" :
          c \in {c \in task.needs : context.role \notin CapabilityPolicy[c].roles}}
  \cup IF task.flagged THEN {"PROMPT_INJECTION_DETECTED"} ELSE {}

(* The findings that deny. *)
Findings(task, context, granted) ==
     (IF task.tenant # context.tenant /\ context.role # SuperAdmin
      THEN {"TENANT_ISOLATION_VIOLATION"} ELSE {})
  \cup {"CAPABILITY_NOT_GRANTED" : c \in task.needs \ granted}
  \cup {"ROLE_NOT_AUTHORIZED" :
          c \in {c \in task.needs : context.role \notin CapabilityPolicy[c].roles}}
  \cup IF task.flagged THEN {"PROMPT_INJECTION_DETECTED"} ELSE {}

NeedsApproval(task) ==
  \E c \in task.needs :
    LET policy == CapabilityPolicy[c]
    IN  policy.approval \/ (policy.limit # NoLimit /\ task.amount > policy.limit)

Decision(task, context, granted) ==
  IF Findings(task, context, granted) # {} THEN "deny"
  ELSE IF NeedsApproval(task) /\ ~task.approved THEN "requires_approval"
  ELSE "allow"

(* assert_agent_policy_allows throws otherwise. *)
Allows(task, context, granted) == Decision(task, context, granted) = "allow"
=============================================================================
