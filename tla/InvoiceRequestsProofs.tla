------------------------ MODULE InvoiceRequestsProofs ------------------------
(***************************************************************************)
(* The history of an invoice, for any number of requests and connections,  *)
(* any tenants and roles, with and without row-level security.             *)
(*                                                                         *)
(* The argument: until the first row of the trail the invoice is as it was *)
(* found, and afterwards its status is approved or paid, and paid from the *)
(* first payment on (Statuses).  A request that is about to pay found it   *)
(* approved, so it is still approved or paid, and every payment of the     *)
(* trail came after that (AboutToPay).  A request has at most one row, its *)
(* last act (Authors).  As long as nothing was crossed, the one connection *)
(* has the owner's tenant from the first setting of it on, so that what a  *)
(* search found is not hidden from the update (OwnConnection).             *)
(***************************************************************************)
EXTENDS InvoiceRequests, SequenceTheorems, TLAPS

Statuses ==
  /\ status \in {"draft", "pending_approval"} => audit_log = <<>>
  /\ \A i \in Payments : status = "paid"

AboutToPay ==
  \A q \in Request : pc[q] = "pay" =>
    /\ operation[q] = "pay" /\ tenant[q] = Owner /\ Permitted(q)
    /\ status \in {"approved", "paid"}
    /\ found_at[q] <= Len(audit_log)
    /\ \A i \in Payments : found_at[q] < i

Authors == \A i \in DOMAIN audit_log : pc[audit_log[i].request] = "answered"

OwnConnection ==
  ~ Crossed =>
    \A c \in Conn :
      /\ settings[c].tenant_id \in {Nobody, Owner}
      /\ settings[c].user_role = "super_admin" => settings[c].tenant_id = Owner
      /\ \A q \in Request :
           pc[q] \in {"user_id", "user_role"} \/ (pc[q] = "pay" /\ rls)
             => settings[c].tenant_id = Owner

IInv ==
  /\ TypeOK
  /\ OwnConnection
  /\ Statuses
  /\ AboutToPay
  /\ Authors
  /\ LegalHistory
  /\ PaidTwiceOnlyByOverlap
  /\ OnlyOwnersAct
  /\ AnswersMatchTrail

(* Nothing has happened yet. *)
LEMMA InitIInv == Init => IInv
BY InvoiceAssumption
   DEF Init, IInv, TypeOK, Statuses, AboutToPay, Authors, LegalHistory, PaidTwiceOnlyByOverlap,
       OnlyOwnersAct, AnswersMatchTrail, Payments, Approvals, Variable, Setting, Status, Row,
       OwnConnection

(* Whichever request moves, what was crossed stays so, and a connection    *)
(* that is not crossed stays the owner's.                                  *)
LEMMA CrossingStep ==
  ASSUME IInv, Next
  PROVE  (Crossed => Crossed') /\ OwnConnection'
<1>1. PICK q \in Request :
        SetFails(q) \/ Forbid(q) \/ StatementFails(q)
          \/ \E c \in Conn : SetVariable(q, c) \/ Approve(q, c) \/ FindApproved(q, c) \/ MarkPaid(q, c)
  BY DEF Next
<1>2. PICK place \in {"user_id", "user_role", "handler", "pay", "answered"} :
        pc' = [pc EXCEPT ![q] = place]
  BY <1>1 DEF SetFails, Forbid, StatementFails, SetVariable, Approve, FindApproved, MarkPaid,
              WriteInvoice, Answer, NextStatement
<1>3. \A p \in Request : pc'[p] = IF p = q THEN place ELSE pc[p]
  BY <1>2 DEF IInv, TypeOK
<1>4. Crossed => Crossed'
  BY <1>3 DEF Crossed
<1>5. SUFFICES ASSUME ~ Crossed', NEW c \in Conn
               PROVE  /\ settings'[c].tenant_id \in {Nobody, Owner}
                      /\ settings'[c].user_role = "super_admin" => settings'[c].tenant_id = Owner
                      /\ \A p \in Request :
                           pc'[p] \in {"user_id", "user_role"} \/ (pc'[p] = "pay" /\ rls')
                             => settings'[c].tenant_id = Owner
  BY <1>4 DEF OwnConnection
<1>6. ~ Crossed /\ tenant[q] = Owner /\ \A d \in Conn : d = c
  BY <1>3, <1>4, <1>5 DEF Crossed
<1>7. /\ settings[c].tenant_id \in {Nobody, Owner}
      /\ settings[c].user_role = "super_admin" => settings[c].tenant_id = Owner
      /\ \A p \in Request :
           pc[p] \in {"user_id", "user_role"} \/ (pc[p] = "pay" /\ rls)
             => settings[c].tenant_id = Owner
  BY <1>6 DEF IInv, OwnConnection
<1>8. settings \in [Conn -> Setting] /\ settings[c] \in Setting
  BY DEF IInv, TypeOK
<1>9. CASE SetVariable(q, c)
  <2>1. settings'[c] = [settings[c] EXCEPT ![pc[q]] = Token(q)[pc[q]]]
        /\ pc[q] \in Variable /\ place = NextStatement(pc[q]) /\ UNCHANGED rls
    BY <1>2, <1>3, <1>8, <1>9 DEF SetVariable, IInv, TypeOK
  <2>2. CASE pc[q] = "tenant_id"
    <3>1. settings'[c].tenant_id = Owner
      BY <1>6, <1>8, <2>1, <2>2 DEF Setting, Token
    <3>2. QED
      BY <3>1
  <2>3. CASE pc[q] # "tenant_id"
    <3>1. settings[c].tenant_id = Owner
      BY <1>7, <2>1, <2>3 DEF Variable
    <3>2. settings'[c].tenant_id = Owner
      BY <1>8, <2>1, <2>3, <3>1 DEF Setting, Variable
    <3>3. QED
      BY <3>2
  <2>4. QED
    BY <2>2, <2>3
<1>10. CASE ~ SetVariable(q, c)
  <2>1. UNCHANGED <<rls, settings>> /\ place \in {"handler", "pay", "answered"}
    <3>1. \A d \in Conn : ~ SetVariable(q, d)
      BY <1>6, <1>10
    <3>2. UNCHANGED <<rls, settings>>
      BY <1>1, <3>1 DEF SetFails, Forbid, StatementFails, Approve, FindApproved, MarkPaid
    <3>3. pc'[q] \in {"handler", "pay", "answered"}
      BY <1>1, <3>1, <1>2 DEF SetFails, Forbid, StatementFails, Approve, FindApproved, MarkPaid,
                  WriteInvoice, Answer, IInv, TypeOK
    <3>4. QED
      BY <1>3, <3>2, <3>3
  <2>2. place = "pay" /\ rls => settings[c].tenant_id = Owner
    <3>1. SUFFICES ASSUME place = "pay", rls PROVE settings[c].tenant_id = Owner
      OBVIOUS
    <3>2. pc'[q] = "pay"
      BY <1>3, <3>1
    <3>3. PICK d \in Conn : FindApproved(q, d) /\ RowVisible(d)
      BY <1>1, <1>6, <1>10, <3>2 DEF SetFails, Forbid, StatementFails, Approve, FindApproved,
                  MarkPaid, WriteInvoice, Answer, IInv, TypeOK
    <3>4. QED
      BY <1>6, <1>7, <3>1, <3>3 DEF RowVisible
  <2>3. QED
    BY <1>3, <1>7, <2>1, <2>2
<1>11. QED
  BY <1>9, <1>10

(* The rows of the trail are rows. *)
LEMMA TrailRows ==
  ASSUME TypeOK
  PROVE  \A i \in DOMAIN audit_log : audit_log[i] \in Row /\ i \in Nat
<1>1. audit_log \in Seq(Row)
  BY DEF TypeOK
<1>2. DOMAIN audit_log = 1..Len(audit_log) /\ Len(audit_log) \in Nat
  BY <1>1, LenProperties
<1>3. QED
  BY <1>1, <1>2, ElementOfSeq

(* A step that leaves the invoice and its trail alone, and only gives its  *)
(* request an answer other than an approval's, or moves it on before its   *)
(* payment.                                                                *)
LEMMA QuietStep ==
  ASSUME IInv, TypeOK', Crossed => Crossed', OwnConnection',
         NEW q \in Request, UNCHANGED <<rls, status, audit_log, found_at>>,
         pc[q] # "answered",
         NEW place \in Variable \cup {"handler", "answered"},
         pc' = [pc EXCEPT ![q] = place],
         \/ UNCHANGED answer
         \/ answer' = [answer EXCEPT ![q] = "forbidden"]
         \/ answer' = [answer EXCEPT ![q] = "not found"]
         \/ answer' = [answer EXCEPT ![q] = "failed"]
         \/ /\ answer' = [answer EXCEPT ![q] = "processed"]
            /\ rls /\ Crossed /\ status \in {"approved", "paid"}
  PROVE  IInv'
<1>1. Payments' = Payments /\ Approvals' = Approvals
  BY DEF Payments, Approvals
<1>2. \A p \in Request : pc'[p] = IF p = q THEN place ELSE pc[p]
  BY DEF IInv, TypeOK
<1>3. \A p \in Request : p # q => answer'[p] = answer[p]
  BY DEF IInv, TypeOK
<1>4. \A i \in DOMAIN audit_log : audit_log[i] \in Row
  BY TrailRows DEF IInv
<1>5. \A i \in DOMAIN audit_log : audit_log[i].request \in Request /\ audit_log[i].request # q
  BY <1>4 DEF IInv, Authors, Row
<1>6. Statuses' /\ LegalHistory' /\ PaidTwiceOnlyByOverlap' /\ OnlyOwnersAct'
  BY <1>1 DEF IInv, Statuses, LegalHistory, PaidTwiceOnlyByOverlap, OnlyOwnersAct, Permitted
<1>7. place # "pay"
  BY DEF Variable
<1>8. AboutToPay'
  BY <1>1, <1>2, <1>7 DEF IInv, AboutToPay, Permitted
<1>9. Authors'
  BY <1>2, <1>5 DEF IInv, Authors
<1>10. answer'[q] = "approved" => answer[q] = "approved"
  BY DEF IInv, TypeOK
<1>11. AnswersMatchTrail'
  <2>1. ASSUME NEW p \in Request, answer'[p] = "processed"
        PROVE  HasPaid(p)' \/ (rls' /\ Crossed' /\ status' \in {"approved", "paid"})
    <3>1. CASE answer[p] = "processed"
      BY <1>1, <3>1 DEF IInv, AnswersMatchTrail, HasPaid
    <3>2. CASE answer[p] # "processed"
      BY <1>3, <2>1, <3>2 DEF IInv, TypeOK
    <3>3. QED
      BY <3>1, <3>2
  <2>2. QED
    BY <1>1, <1>3, <1>5, <1>10, <2>1 DEF IInv, AnswersMatchTrail
<1>12. QED
  BY <1>6, <1>8, <1>9, <1>11 DEF IInv

(* What WriteInvoice does when it writes: one more row at the end of the   *)
(* trail, by a request that may write it.                                  *)
LEMMA WriteStep ==
  ASSUME IInv, TypeOK', Crossed => Crossed', OwnConnection',
         NEW q \in Request, NEW row \in Row, UNCHANGED <<rls, found_at>>,
         row.request = q, row.old = status,
         tenant[q] = Owner, Permitted(q),
         \/ row.new = "approved" /\ pc[q] = "handler" /\ status = "pending_approval"
         \/ row.new = "paid" /\ pc[q] = "pay",
         status' = row.new, audit_log' = Append(audit_log, row),
         pc' = [pc EXCEPT ![q] = "answered"],
         NEW a \in {"failed", IF row.new = "paid" THEN "processed" ELSE "approved"},
         answer' = [answer EXCEPT ![q] = a]
  PROVE  IInv'
<1> DEFINE n == Len(audit_log) + 1
<1>1. /\ audit_log \in Seq(Row)
      /\ DOMAIN audit_log = 1..Len(audit_log)
      /\ Len(audit_log) \in Nat
  <2>1. audit_log \in Seq(Row)
    BY DEF IInv, TypeOK
  <2>2. QED
    BY <2>1, LenProperties
<1>2. /\ audit_log' \in Seq(Row)
      /\ Len(audit_log') = n
      /\ DOMAIN audit_log' = 1..n
      /\ audit_log' # <<>>
  <2>1. audit_log' \in Seq(Row) /\ Len(audit_log') = n /\ audit_log' # <<>>
    BY <1>1, AppendProperties
  <2>2. QED
    BY <2>1, LenProperties
<1>3. /\ \A i \in 1..Len(audit_log) : audit_log'[i] = audit_log[i]
      /\ audit_log'[n] = row
  BY <1>1, AppendProperties
<1>4. DOMAIN audit_log' = DOMAIN audit_log \cup {n} /\ n \notin DOMAIN audit_log
  BY <1>1, <1>2
<1>5. \A i \in DOMAIN audit_log : /\ audit_log'[i] = audit_log[i]
                                  /\ audit_log[i].request \in Request \ {q}
                                  /\ i \in Nat /\ i < n
  <2>1. \A i \in DOMAIN audit_log : audit_log[i].request \in Request
    BY TrailRows DEF IInv, Row
  <2>2. \A i \in DOMAIN audit_log : audit_log[i].request # q
    BY DEF IInv, Authors
  <2>3. QED
    BY <1>1, <1>3, <2>1, <2>2
<1> HIDE DEF n
<1>6. /\ Payments' = IF row.new = "paid" THEN Payments \cup {n} ELSE Payments
      /\ Approvals' = IF row.new = "approved" THEN Approvals \cup {n} ELSE Approvals
  BY <1>3, <1>4, <1>5 DEF Payments, Approvals
<1>7. Payments \subseteq DOMAIN audit_log /\ Approvals \subseteq DOMAIN audit_log
  BY DEF Payments, Approvals
<1>8. \A p \in Request : (pc'[p] = IF p = q THEN "answered" ELSE pc[p])
                          /\ (answer'[p] = IF p = q THEN a ELSE answer[p])
  <2>1. DOMAIN pc = Request /\ DOMAIN answer = Request
    BY DEF IInv, TypeOK
  <2>2. QED
    BY <2>1
<1>9. row.new = "paid" => /\ status \in {"approved", "paid"}
                          /\ \A i \in Payments : found_at[q] < i
  BY DEF IInv, AboutToPay
<1>10. row.new = "approved" => audit_log = <<>> /\ n = 1 /\ Payments = {} /\ Approvals = {}
  <2>1. SUFFICES ASSUME row.new = "approved" PROVE audit_log = <<>>
    BY DEF n, Payments, Approvals
  <2>2. QED
    BY <2>1 DEF IInv, Statuses
<1>11. Statuses'
  BY <1>6, <1>10 DEF Statuses
<1>12. LegalHistory'
  BY <1>3, <1>5, <1>6, <1>7, <1>9, <1>10 DEF IInv, LegalHistory
<1>13. PaidTwiceOnlyByOverlap'
  <2>1. SUFFICES ASSUME NEW i \in Payments', NEW j \in Payments', i < j
                 PROVE  found_at[audit_log'[j].request] < i
    BY DEF PaidTwiceOnlyByOverlap
  <2>2. CASE j \in Payments
    <3>1. i \in Payments
      BY <1>4, <1>5, <1>6, <1>7, <2>1, <2>2 DEF n
    <3>2. QED
      BY <1>5, <1>7, <2>1, <2>2, <3>1 DEF IInv, PaidTwiceOnlyByOverlap
  <2>3. CASE j \notin Payments
    <3>1. j = n /\ row.new = "paid"
      BY <1>6, <2>3
    <3>2. i \in Payments
      BY <1>1, <1>6, <2>1, <3>1 DEF n
    <3>3. QED
      BY <1>3, <1>9, <3>1, <3>2
  <2>4. QED
    BY <2>2, <2>3
<1>14. OnlyOwnersAct'
  BY <1>3, <1>4, <1>5 DEF IInv, OnlyOwnersAct, Permitted
<1>15. Authors'
  BY <1>3, <1>4, <1>5, <1>8 DEF IInv, Authors
<1>16. AboutToPay'
  <2>1. SUFFICES ASSUME NEW p \in Request, p # q, pc[p] = "pay"
                 PROVE  /\ operation[p] = "pay" /\ tenant[p] = Owner /\ Permitted(p)
                        /\ row.new \in {"approved", "paid"}
                        /\ found_at[p] <= n
                        /\ \A i \in Payments' : found_at[p] < i
    BY <1>2, <1>8 DEF AboutToPay, Permitted
  <2>2. /\ found_at[p] \in Nat /\ found_at[p] <= Len(audit_log)
        /\ \A i \in Payments : found_at[p] < i
        /\ operation[p] = "pay" /\ tenant[p] = Owner /\ Permitted(p)
    BY <2>1 DEF IInv, AboutToPay, TypeOK
  <2>3. found_at[p] < n
    BY <1>1, <2>2 DEF n
  <2>4. found_at[p] <= n
    BY <1>1, <2>2 DEF n
  <2>5. QED
    BY <1>6, <2>2, <2>3, <2>4
<1>17. AnswersMatchTrail'
  <2>1. ASSUME NEW i \in DOMAIN audit_log'
        PROVE  answer'[audit_log'[i].request]
                 \in {"failed", IF i \in Payments' THEN "processed" ELSE "approved"}
    <3>1. CASE i = n
      <4>1. answer'[audit_log'[n].request] = a
        BY <1>3, <1>8
      <4>2. n \in Payments' <=> row.new = "paid"
        BY <1>4, <1>6, <1>7
      <4>3. QED
        BY <3>1, <4>1, <4>2
    <3>2. CASE i \in DOMAIN audit_log
      BY <1>4, <1>5, <1>6, <1>8, <3>2 DEF IInv, AnswersMatchTrail
    <3>3. QED
      BY <1>4, <3>1, <3>2
  <2>2. ASSUME NEW p \in Request, answer'[p] = "approved"
        PROVE  \E i \in Approvals' : audit_log'[i].request = p
    <3>1. CASE p = q
      <4>1. row.new = "approved"
        BY <1>8, <2>2, <3>1
      <4>2. QED
        BY <1>3, <1>6, <3>1, <4>1
    <3>2. CASE p # q
      <4>1. PICK i \in Approvals : audit_log[i].request = p
        BY <1>8, <2>2, <3>2 DEF IInv, AnswersMatchTrail
      <4>2. QED
        BY <1>5, <1>6, <1>7, <4>1
    <3>3. QED
      BY <3>1, <3>2
  <2>3. status' = audit_log'[Len(audit_log')].new
    BY <1>2, <1>3
  <2>4. ASSUME NEW p \in Request, answer'[p] = "processed"
        PROVE  HasPaid(p)' \/ (rls' /\ Crossed' /\ status' \in {"approved", "paid"})
    <3>1. CASE p = q
      <4>1. row.new = "paid"
        BY <1>8, <2>4, <3>1
      <4>2. QED
        BY <1>3, <1>6, <3>1, <4>1 DEF HasPaid
    <3>2. CASE p # q
      <4>1. HasPaid(p) \/ (rls /\ Crossed)
        BY <1>8, <2>4, <3>2 DEF IInv, AnswersMatchTrail
      <4>2. HasPaid(p) => HasPaid(p)'
        BY <1>5, <1>6, <1>7 DEF HasPaid
      <4>3. QED
        BY <4>1, <4>2
    <3>3. QED
      BY <3>1, <3>2
  <2>5. QED
    BY <2>1, <2>2, <2>3, <2>4 DEF AnswersMatchTrail
<1>18. QED
  BY <1>11, <1>12, <1>13, <1>14, <1>15, <1>16, <1>17 DEF IInv

(* WriteInvoice, for a request that may write, on whatever connection.     *)
LEMMA WriteInvoiceStep ==
  ASSUME IInv, Crossed => Crossed', OwnConnection',
         NEW q \in Request, NEW c \in Conn, NEW new \in {"approved", "paid"},
         UNCHANGED <<rls, settings, found_at>>,
         tenant[q] = Owner, Permitted(q),
         \/ new = "approved" /\ pc[q] = "handler" /\ status = "pending_approval"
         \/ new = "paid" /\ pc[q] = "pay",
         WriteInvoice(q, c, new, IF new = "paid" THEN "processed" ELSE "approved")
  PROVE  IInv'
<1>1. CASE settings[c].user_id = Nobody
  <2>1. /\ pc' = [pc EXCEPT ![q] = "answered"] /\ answer' = [answer EXCEPT ![q] = "failed"]
        /\ UNCHANGED <<status, audit_log>>
    BY <1>1 DEF WriteInvoice, Answer
  <2>2. TypeOK'
    BY <2>1 DEF IInv, TypeOK
  <2>3. QED
    BY <2>1, <2>2, QuietStep
<1>2. CASE settings[c].user_id # Nobody
  <2> DEFINE row == AuditRow(q, c, new)
  <2>1. PICK a \in {"failed", IF new = "paid" THEN "processed" ELSE "approved"} :
          answer' = [answer EXCEPT ![q] = a]
    BY <1>2 DEF WriteInvoice, Answer
  <2>2. /\ status' = new /\ audit_log' = Append(audit_log, row)
        /\ pc' = [pc EXCEPT ![q] = "answered"]
    BY <1>2 DEF WriteInvoice, Answer
  <2>3. settings[c].user_id \in Request
    <3>1. settings[c] \in Setting
      BY DEF IInv, TypeOK
    <3>2. QED
      BY <1>2, <3>1 DEF Setting
  <2>4. row \in Row /\ row.request = q /\ row.old = status /\ row.new = new
    BY <2>3 DEF AuditRow, Row, Status, IInv, TypeOK
  <2> HIDE DEF row
  <2>5. audit_log' \in Seq(Row)
    BY <2>2, <2>4, AppendProperties DEF IInv, TypeOK
  <2>6. TypeOK'
    BY <2>1, <2>2, <2>5 DEF IInv, TypeOK, Status
  <2>7. QED
    BY <2>1, <2>2, <2>4, <2>6, WriteStep
<1>3. QED
  BY <1>1, <1>2

(* A payment that finds the invoice approved: no payment was made before.  *)
LEMMA FindStep ==
  ASSUME IInv, Crossed => Crossed', OwnConnection',
         NEW q \in Request, NEW c \in Conn, FindApproved(q, c)
  PROVE  IInv'
<1>1. CASE ~ (tenant[q] = Owner /\ RowVisible(c) /\ status = "approved")
  <2>1. /\ pc' = [pc EXCEPT ![q] = "answered"] /\ answer' = [answer EXCEPT ![q] = "not found"]
        /\ UNCHANGED <<rls, settings, found_at, status, audit_log>> /\ pc[q] = "handler"
    BY <1>1 DEF FindApproved, Answer
  <2>2. TypeOK'
    BY <2>1 DEF IInv, TypeOK
  <2>3. QED
    BY <2>1, <2>2, QuietStep
<1>2. CASE tenant[q] = Owner /\ RowVisible(c) /\ status = "approved"
  <2>1. /\ pc[q] = "handler" /\ operation[q] = "pay" /\ Permitted(q)
        /\ pc' = [pc EXCEPT ![q] = "pay"]
        /\ found_at' = [found_at EXCEPT ![q] = Len(audit_log)]
        /\ UNCHANGED <<rls, settings, answer, status, audit_log>>
    BY <1>2 DEF FindApproved
  <2>2. audit_log \in Seq(Row) /\ Len(audit_log) \in Nat
    <3>1. audit_log \in Seq(Row)
      BY DEF IInv, TypeOK
    <3>2. QED
      BY <3>1, LenProperties
  <2>3. TypeOK'
    BY <2>1, <2>2 DEF IInv, TypeOK
  <2>4. Payments = {} /\ Payments' = Payments /\ Approvals' = Approvals
    BY <1>2, <2>1 DEF IInv, Statuses, Payments, Approvals
  <2>5. \A p \in Request : pc'[p] = IF p = q THEN "pay" ELSE pc[p]
    BY <2>1 DEF IInv, TypeOK
  <2>6. \A i \in DOMAIN audit_log : audit_log[i].request \in Request \ {q}
    <3>1. \A i \in DOMAIN audit_log : audit_log[i].request \in Request
      BY TrailRows DEF IInv, Row
    <3>2. QED
      BY <2>1, <3>1 DEF IInv, Authors
  <2>7. AboutToPay'
    <3>1. found_at'[q] = Len(audit_log) /\ \A p \in Request \ {q} : found_at'[p] = found_at[p]
      BY <2>1 DEF IInv, TypeOK
    <3>2. SUFFICES ASSUME NEW p \in Request, pc'[p] = "pay"
                   PROVE  /\ operation[p] = "pay" /\ tenant[p] = Owner /\ Permitted(p)
                          /\ found_at'[p] <= Len(audit_log)
      BY <1>2, <2>1, <2>4 DEF AboutToPay, Permitted
    <3>3. CASE p = q
      BY <1>2, <2>1, <2>2, <3>1, <3>3
    <3>4. CASE p # q
      BY <2>5, <3>1, <3>2, <3>4 DEF IInv, AboutToPay
    <3>5. QED
      BY <3>3, <3>4
  <2>8. Authors'
    BY <2>1, <2>5, <2>6 DEF IInv, Authors
  <2>9. Statuses' /\ LegalHistory' /\ OnlyOwnersAct' /\ AnswersMatchTrail'
    BY <2>1, <2>4 DEF IInv, Statuses, LegalHistory, OnlyOwnersAct, AnswersMatchTrail, HasPaid,
                      Permitted
  <2>10. PaidTwiceOnlyByOverlap'
    BY <2>4 DEF PaidTwiceOnlyByOverlap
  <2>11. QED
    BY <2>3, <2>7, <2>8, <2>9, <2>10 DEF IInv
<1>3. QED
  BY <1>1, <1>2

(* A session variable that is set, or not, moves its request on.           *)
LEMMA SettingStep ==
  ASSUME IInv, Crossed => Crossed', OwnConnection',
         NEW q \in Request, SetFails(q) \/ \E c \in Conn : SetVariable(q, c)
  PROVE  IInv'
<1>1. PICK place \in Variable \cup {"handler", "answered"} : pc' = [pc EXCEPT ![q] = place]
  BY DEF SetFails, SetVariable, NextStatement, Variable
<1>2. pc[q] # "answered" /\ UNCHANGED <<rls, found_at, answer, status, audit_log>>
  BY DEF SetFails, SetVariable, Variable
<1>3. settings' \in [Conn -> Setting]
  <2>1. CASE SetFails(q)
    BY <2>1 DEF SetFails, IInv, TypeOK
  <2>2. ASSUME NEW c \in Conn, SetVariable(q, c)
        PROVE  settings' \in [Conn -> Setting]
    <3>1. settings[c] \in Setting /\ pc[q] \in Variable /\ tenant[q] \in Tenant
          /\ role[q] \in {"super_admin", "tenant_admin", "accountant", "viewer"}
      BY <2>2, InvoiceAssumption DEF SetVariable, IInv, TypeOK
    <3>2. [settings[c] EXCEPT ![pc[q]] = Token(q)[pc[q]]] \in Setting
      <4>1. CASE pc[q] = "tenant_id"
        BY <3>1, <4>1 DEF Setting, Token
      <4>2. CASE pc[q] = "user_id"
        BY <3>1, <4>2 DEF Setting, Token
      <4>3. CASE pc[q] = "user_role"
        BY <3>1, <4>3 DEF Setting, Token
      <4>4. QED
        BY <3>1, <4>1, <4>2, <4>3 DEF Variable
    <3>3. settings' = [settings EXCEPT ![c] = [settings[c] EXCEPT ![pc[q]] = Token(q)[pc[q]]]]
      BY <2>2 DEF SetVariable
    <3>4. QED
      BY <3>2, <3>3 DEF IInv, TypeOK
  <2>3. QED
    BY <2>1, <2>2
<1>4. TypeOK'
  BY <1>1, <1>2, <1>3 DEF IInv, TypeOK
<1>5. QED
  BY <1>1, <1>2, <1>4, QuietStep

(* Every step of a request keeps the inductive invariant.                  *)
LEMMA NextIInv == IInv /\ [Next]_vars => IInv'
<1> SUFFICES ASSUME IInv, [Next]_vars PROVE IInv'
  OBVIOUS
<1>1. CASE UNCHANGED vars
  <2>1. Payments' = Payments /\ Approvals' = Approvals
    BY <1>1 DEF vars, Payments, Approvals
  <2>2. TypeOK' /\ Statuses' /\ AboutToPay' /\ Authors'
    BY <1>1, <2>1 DEF vars, IInv, TypeOK, Statuses, AboutToPay, Authors, Permitted
  <2>3. LegalHistory' /\ PaidTwiceOnlyByOverlap' /\ OnlyOwnersAct' /\ AnswersMatchTrail'
    BY <1>1, <2>1 DEF vars, IInv, LegalHistory, PaidTwiceOnlyByOverlap, OnlyOwnersAct,
                      AnswersMatchTrail, HasPaid, Crossed, Permitted
  <2>4. OwnConnection'
    BY <1>1 DEF vars, IInv, OwnConnection, Crossed
  <2>5. QED
    BY <2>2, <2>3, <2>4 DEF IInv
<1>2. SUFFICES ASSUME Next PROVE IInv'
  BY <1>1
<1>3. (Crossed => Crossed') /\ OwnConnection'
  BY <1>2, CrossingStep
<1>4. ASSUME NEW q \in Request, Forbid(q) \/ StatementFails(q) PROVE IInv'
  <2>1. /\ pc[q] # "answered" /\ pc' = [pc EXCEPT ![q] = "answered"]
        /\ \/ answer' = [answer EXCEPT ![q] = "forbidden"]
           \/ answer' = [answer EXCEPT ![q] = "failed"]
        /\ UNCHANGED <<rls, settings, found_at, status, audit_log>>
    BY <1>4 DEF Forbid, StatementFails, Answer
  <2>2. TypeOK'
    BY <2>1 DEF IInv, TypeOK
  <2>3. QED
    BY <1>3, <2>1, <2>2, QuietStep
<1>5. ASSUME NEW q \in Request, NEW c \in Conn, Approve(q, c) PROVE IInv'
  <2>1. CASE tenant[q] = Owner /\ RowVisible(c) /\ status = "pending_approval"
    <3>1. /\ pc[q] = "handler" /\ Permitted(q) /\ UNCHANGED <<rls, settings, found_at>>
          /\ WriteInvoice(q, c, "approved", "approved")
      BY <1>5, <2>1 DEF Approve
    <3>2. QED
      BY <2>1, <3>1, WriteInvoiceStep, <1>3
  <2>2. CASE ~ (tenant[q] = Owner /\ RowVisible(c) /\ status = "pending_approval")
    <3>1. /\ pc[q] = "handler" /\ pc' = [pc EXCEPT ![q] = "answered"]
          /\ answer' = [answer EXCEPT ![q] = "not found"]
          /\ UNCHANGED <<rls, settings, found_at, status, audit_log>>
      BY <1>5, <2>2 DEF Approve, Answer
    <3>2. TypeOK'
      BY <3>1 DEF IInv, TypeOK
    <3>3. QED
      BY <1>3, <3>1, <3>2, QuietStep
  <2>3. QED
    BY <2>1, <2>2
<1>6. ASSUME NEW q \in Request, NEW c \in Conn, MarkPaid(q, c) PROVE IInv'
  <2>1. pc[q] = "pay" /\ tenant[q] = Owner /\ Permitted(q) /\ UNCHANGED <<rls, settings, found_at>>
    BY <1>6 DEF MarkPaid, IInv, AboutToPay
  <2>2. CASE RowVisible(c)
    <3>1. WriteInvoice(q, c, "paid", "processed")
      BY <1>6, <2>2 DEF MarkPaid
    <3>2. QED
      BY <2>1, <3>1, WriteInvoiceStep, <1>3
  <2>3. CASE ~ RowVisible(c)
    <3>1. /\ pc' = [pc EXCEPT ![q] = "answered"]
          /\ answer' = [answer EXCEPT ![q] = "processed"]
          /\ UNCHANGED <<status, audit_log>>
      BY <1>6, <2>3 DEF MarkPaid, Answer
    <3>2. TypeOK'
      BY <2>1, <3>1 DEF IInv, TypeOK
    <3>3. rls /\ Crossed /\ status \in {"approved", "paid"}
      BY <2>1, <2>3 DEF RowVisible, IInv, AboutToPay, OwnConnection
    <3>4. QED
      BY <1>3, <2>1, <3>1, <3>2, <3>3, QuietStep
  <2>4. QED
    BY <2>2, <2>3
<1>7. QED
  BY <1>2, <1>3, <1>4, <1>5, <1>6, FindStep, SettingStep DEF Next

(* The inductive invariant holds throughout. *)
LEMMA Inductive == Spec => []IInv
BY InitIInv, NextIInv, PTL DEF Spec

(* The types of the tables, the connections and the requests' places. *)
THEOREM TypeCorrect == Spec => []TypeOK
<1>1. IInv => TypeOK
  BY DEF IInv
<1>2. QED
  BY <1>1, Inductive, PTL

(* The invoice is approved at most once, before any payment, and what is   *)
(* paid was approved: approve checks the status where it writes, and pay's *)
(* check, though made in an earlier statement, cannot become untrue.       *)
THEOREM History == Spec => []LegalHistory
<1>1. IInv => LegalHistory
  BY DEF IInv
<1>2. QED
  BY <1>1, Inductive, PTL

(* A second payment is made only by a request that overlapped the first.   *)
THEOREM SecondPayments == Spec => []PaidTwiceOnlyByOverlap
<1>1. IInv => PaidTwiceOnlyByOverlap
  BY DEF IInv
<1>2. QED
  BY <1>1, Inductive, PTL

(* No mixture of connection settings lets another tenant's request, or one *)
(* without the role, change the invoice.                                   *)
THEOREM OwnersOnly == Spec => []OnlyOwnersAct
<1>1. IInv => OnlyOwnersAct
  BY DEF IInv
<1>2. QED
  BY <1>1, Inductive, PTL

(* The trail agrees with the invoice, and every answer with the trail, but *)
(* for a payment answered as processed without one: that is told only      *)
(* under row-level security, after connections were crossed, of an invoice *)
(* that is approved or paid.                                               *)
THEOREM HonestAnswers == Spec => []AnswersMatchTrail
<1>1. IInv => AnswersMatchTrail
  BY DEF IInv
<1>2. QED
  BY <1>1, Inductive, PTL
=============================================================================
