--------------------------- MODULE InvoiceRequests ---------------------------
(***************************************************************************)
(* Approving and paying one invoice: the tenant context middleware of      *)
(* src/api/server.ts followed by the two handlers of                       *)
(* src/api/routes/invoices.ts, for requests served side by side.           *)
(*                                                                         *)
(* The middleware gives three session variables to the database, one       *)
(* statement each, and the handler's statements follow; every one of them  *)
(* goes to whichever connection of the pool takes it.  A connection keeps  *)
(* the settings it was last given, and what row-level security and the     *)
(* audit trigger go by are the settings of the connection.                 *)
(***************************************************************************)
EXTENDS Naturals, Sequences

CONSTANTS Request, Conn, Tenant,
          operation,       \* of each request: "approve" or "pay"
          tenant, role,    \* what each request's token says; each has a user of its own
          Owner,           \* the tenant the invoice belongs to
          Nobody           \* a setting never given

ASSUME InvoiceAssumption ==
  /\ operation \in [Request -> {"approve", "pay"}]
  /\ tenant \in [Request -> Tenant]
  /\ role \in [Request -> {"super_admin", "tenant_admin", "accountant", "viewer"}]
  /\ Owner \in Tenant
  /\ Nobody \notin Request \cup Tenant \cup {"super_admin"}

VARIABLES
  rls,        \* whether row-level security binds the server's database role
  settings,   \* of each connection: what its variables were last set to
  pc,         \* the statement each request comes to next
  found_at,   \* length of the audit trail when a payment found its invoice
  answer,     \* to each request
  status,     \* invoices.status
  audit_log   \* the rows the trigger writes, in order

vars == <<rls, settings, pc, found_at, answer, status, audit_log>>

Variable == {"tenant_id", "user_id", "user_role"}
Token(q) == [tenant_id |-> tenant[q], user_id |-> q, user_role |-> role[q]]
Setting  == [tenant_id : Tenant \cup {Nobody}, user_id : Request \cup {Nobody},
             user_role : {"super_admin", "tenant_admin", "accountant", "viewer", Nobody}]
Status   == {"draft", "pending_approval", "approved", "paid"}
Row      == [request : Request, user_id : Request, old : Status, new : Status]

TypeOK ==
  /\ rls \in BOOLEAN
  /\ settings \in [Conn -> Setting]
  /\ pc \in [Request -> Variable \cup {"handler", "pay", "answered"}]
  /\ found_at \in [Request -> Nat]
  /\ answer \in [Request -> {"none", "approved", "processed", "forbidden", "not found", "failed"}]
  /\ status \in Status
  /\ audit_log \in Seq(Row)

-----------------------------------------------------------------------------
Init ==
  /\ rls \in BOOLEAN
  /\ settings = [c \in Conn |-> [tenant_id |-> Nobody, user_id |-> Nobody, user_role |-> Nobody]]
  /\ pc = [q \in Request |-> "tenant_id"]
  /\ found_at = [q \in Request |-> 0]
  /\ answer = [q \in Request |-> "none"]
  /\ status \in {"draft", "pending_approval", "approved"}
  /\ audit_log = <<>>

(* SET app.current_... on a connection. *)
NextStatement(v) ==
  CASE v = "tenant_id" -> "user_id" [] v = "user_id" -> "user_role" [] OTHER -> "handler"

SetVariable(q, c) ==
  /\ pc[q] \in Variable
  /\ settings' = [settings EXCEPT ![c][pc[q]] = Token(q)[pc[q]]]
  /\ pc' = [pc EXCEPT ![q] = NextStatement(pc[q])]
  /\ UNCHANGED <<rls, found_at, answer, status, audit_log>>

(* A SET that fails is caught; the request goes on without the rest. *)
SetFails(q) ==
  /\ pc[q] \in Variable
  /\ pc' = [pc EXCEPT ![q] = "handler"]
  /\ UNCHANGED <<rls, settings, found_at, answer, status, audit_log>>

Answer(q, a) ==
  /\ pc' = [pc EXCEPT ![q] = "answered"]
  /\ answer' = [answer EXCEPT ![q] = a]

Permitted(q) == role[q] \in {"tenant_admin", "super_admin"}

(* The invoice policies, for the settings of a connection. *)
RowVisible(c) ==
  rls => settings[c].user_role = "super_admin" \/ settings[c].tenant_id = Owner

Forbid(q) ==
  /\ pc[q] = "handler"
  /\ ~ Permitted(q)
  /\ Answer(q, "forbidden")
  /\ UNCHANGED <<rls, settings, found_at, status, audit_log>>

AuditRow(q, c, new) ==
  [request |-> q, user_id |-> settings[c].user_id, old |-> status, new |-> new]

(* An update of the row and the audit trigger's insert, which together     *)
(* fail when the connection has no user: audit_log.user_id is NOT NULL.    *)
(* The connection may still be lost once they are done.                    *)
WriteInvoice(q, c, new, done) ==
  IF settings[c].user_id = Nobody
  THEN Answer(q, "failed") /\ UNCHANGED <<status, audit_log>>
  ELSE /\ status' = new
       /\ audit_log' = Append(audit_log, AuditRow(q, c, new))
       /\ \E a \in {done, "failed"} : Answer(q, a)

(* Mutation: the update names no status. *)
ApproveAny(q, c) ==
  /\ pc[q] = "handler" /\ operation[q] = "approve" /\ Permitted(q)
  /\ IF tenant[q] = Owner /\ RowVisible(c)
     THEN WriteInvoice(q, c, "approved", "approved")
     ELSE Answer(q, "not found") /\ UNCHANGED <<status, audit_log>>
  /\ UNCHANGED <<rls, settings, found_at>>

Approve(q, c) ==
  /\ pc[q] = "handler"
  /\ operation[q] = "approve"
  /\ Permitted(q)
  /\ IF tenant[q] = Owner /\ RowVisible(c) /\ status = "pending_approval"
     THEN WriteInvoice(q, c, "approved", "approved")
     ELSE Answer(q, "not found") /\ UNCHANGED <<status, audit_log>>
  /\ UNCHANGED <<rls, settings, found_at>>

(* Mutations: an invoice in another status is found as well. *)
FindIn(q, c, statuses) ==
  /\ pc[q] = "handler" /\ operation[q] = "pay" /\ Permitted(q)
  /\ IF tenant[q] = Owner /\ RowVisible(c) /\ status \in statuses
     THEN /\ pc' = [pc EXCEPT ![q] = "pay"]
          /\ found_at' = [found_at EXCEPT ![q] = Len(audit_log)]
          /\ UNCHANGED answer
     ELSE Answer(q, "not found") /\ UNCHANGED found_at
  /\ UNCHANGED <<rls, settings, status, audit_log>>
FindUnapproved(q, c) == FindIn(q, c, {"pending_approval", "approved"})
FindPaid(q, c)       == FindIn(q, c, {"approved", "paid"})

(* Mutation: the handler leaves the tenant to row-level security. *)
FindByPolicy(q, c) ==
  /\ pc[q] = "handler" /\ operation[q] = "pay" /\ Permitted(q)
  /\ IF RowVisible(c) /\ status = "approved"
     THEN /\ pc' = [pc EXCEPT ![q] = "pay"]
          /\ found_at' = [found_at EXCEPT ![q] = Len(audit_log)]
          /\ UNCHANGED answer
     ELSE Answer(q, "not found") /\ UNCHANGED found_at
  /\ UNCHANGED <<rls, settings, status, audit_log>>

(* pay looks for the approved invoice, ... *)
FindApproved(q, c) ==
  /\ pc[q] = "handler"
  /\ operation[q] = "pay"
  /\ Permitted(q)
  /\ IF tenant[q] = Owner /\ RowVisible(c) /\ status = "approved"
     THEN /\ pc' = [pc EXCEPT ![q] = "pay"]
          /\ found_at' = [found_at EXCEPT ![q] = Len(audit_log)]
          /\ UNCHANGED answer
     ELSE Answer(q, "not found") /\ UNCHANGED found_at
  /\ UNCHANGED <<rls, settings, status, audit_log>>

(* Mutation: a failure of the update is answered as a payment. *)
MarkPaidUnawaited(q, c) ==
  /\ pc[q] = "pay"
  /\ IF RowVisible(c) /\ settings[c].user_id # Nobody
     THEN WriteInvoice(q, c, "paid", "processed")
     ELSE Answer(q, "processed") /\ UNCHANGED <<status, audit_log>>
  /\ UNCHANGED <<rls, settings, found_at>>

(* ... and then updates it by its id alone; the row that comes back, or    *)
(* its absence, is not looked at.                                          *)
MarkPaid(q, c) ==
  /\ pc[q] = "pay"
  /\ IF RowVisible(c)
     THEN WriteInvoice(q, c, "paid", "processed")
     ELSE Answer(q, "processed") /\ UNCHANGED <<status, audit_log>>
  /\ UNCHANGED <<rls, settings, found_at>>

(* A statement of a handler fails, or pay's reading of the body, which     *)
(* comes before its check of the role.                                     *)
StatementFails(q) ==
  /\ \/ pc[q] = "handler" /\ (Permitted(q) \/ operation[q] = "pay")
     \/ pc[q] = "pay"
  /\ Answer(q, "failed")
  /\ UNCHANGED <<rls, settings, found_at, status, audit_log>>

Next ==
  \E q \in Request :
    \/ SetFails(q) \/ Forbid(q) \/ StatementFails(q)
    \/ \E c \in Conn : SetVariable(q, c) \/ Approve(q, c) \/ FindApproved(q, c) \/ MarkPaid(q, c)

Spec == Init /\ [][Next]_vars

-----------------------------------------------------------------------------
Payments  == {i \in DOMAIN audit_log : audit_log[i].new = "paid"}
Approvals == {i \in DOMAIN audit_log : audit_log[i].new = "approved"}

(* Whatever requests overlap, the invoice is approved at most once, out of *)
(* pending_approval, and never after a payment; and what is paid was       *)
(* approved before.  The approval's update checks this in one statement,   *)
(* the payment's in an earlier one.                                        *)
LegalHistory ==
  /\ \A i \in Approvals : audit_log[i].old = "pending_approval" /\ i = 1
  /\ \A i \in Payments : audit_log[i].old \in {"approved", "paid"}

(* A second payment is made only by a request that had found the invoice   *)
(* approved before the first was made: one that comes later is refused.    *)
PaidTwiceOnlyByOverlap ==
  \A i, j \in Payments : i < j => found_at[audit_log[j].request] < i

HasPaid(q) == \E i \in Payments : audit_log[i].request = q

(* Where a statement may find the tenant of its request not set: on        *)
(* another connection than the one before it, or behind a request of       *)
(* another tenant.                                                         *)
Crossed ==
  \/ \E c, d \in Conn : c # d
  \/ \E p \in Request : tenant[p] # Owner /\ pc[p] # "tenant_id"

(* What a request is told is what it did, with two exceptions.  A refusal  *)
(* changed nothing, an approval is in the trail, and the trail tells the   *)
(* status of the invoice; of a failure it is not known what was done.  And *)
(* a payment answered as processed is in the trail, unless row-level       *)
(* security hid from its update the approved invoice its search had found: *)
(* then nothing may have been paid.                                        *)
AnswersMatchTrail ==
  /\ \A i \in DOMAIN audit_log :
       answer[audit_log[i].request]
         \in {"failed", IF i \in Payments THEN "processed" ELSE "approved"}
  /\ \A q \in Request : answer[q] = "approved" =>
       \E i \in Approvals : audit_log[i].request = q
  /\ \A q \in Request : answer[q] = "processed" =>
       HasPaid(q) \/ (rls /\ Crossed /\ status \in {"approved", "paid"})
  /\ audit_log # <<>> => status = audit_log[Len(audit_log)].new

(* However the settings of the connections are mixed up, only requests of  *)
(* the owning tenant's administrators change the invoice: the tenant_id    *)
(* each handler itself asks for is enough, row-level security alone is not.*)
OnlyOwnersAct ==
  \A i \in DOMAIN audit_log :
    tenant[audit_log[i].request] = Owner /\ Permitted(audit_log[i].request)
=============================================================================
