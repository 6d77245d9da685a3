-------------------------- MODULE MCInvoiceRequests --------------------------
(* An approval and two payments by administrators of the owning tenant, a  *)
(* payment by another tenant's super_admin, whom the policies let pass,    *)
(* and one by a viewer.                                                    *)
EXTENDS InvoiceRequests, TLC

CONSTANTS a1, p1, p2, o1, v1, ta, tb

MCOperation == [q \in Request |-> IF q = a1 THEN "approve" ELSE "pay"]
MCTenant    == [q \in Request |-> IF q = o1 THEN tb ELSE ta]
MCRole      == [q \in Request |->
  IF q = v1 THEN "viewer" ELSE IF q = o1 THEN "super_admin" ELSE "tenant_admin"]

PaymentSymmetry == Permutations(Conn) \cup Permutations({p1, p2})
=============================================================================
