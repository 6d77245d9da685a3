----------------------------- MODULE MCDelegation -----------------------------
EXTENDS Delegation, TLC

CONSTANTS ana, cleo,  \* a viewer of one tenant and a super_admin of another
          ta, tb, ap, reporting

(* Rows of the manifest: payments need approval and no viewer may ask for  *)
(* them; reports are open to all; parsing has the default policy.          *)
MCCapability == {"payment_processing", "report_generation", "invoice_parsing", "email_processing"}
Staff == {"tenant_admin", "accountant", "super_admin"}
MCCapabilityPolicy ==
  [c \in MCCapability |->
     CASE c = "payment_processing" -> [approval |-> TRUE, limit |-> 0, roles |-> Staff]
       [] c = "report_generation"  ->
            [approval |-> FALSE, limit |-> NoLimit, roles |-> Staff \cup {"viewer"}]
       [] OTHER -> [approval |-> FALSE, limit |-> NoLimit, roles |-> Staff]]

MCRoutes == <<[needs |-> {"invoice_parsing", "payment_processing"}, lead |-> ap],
              [needs |-> {"report_generation"}, lead |-> reporting]>>
MCGranted == CEO :> MCCapability \ {"email_processing"}
             @@ ap :> {"invoice_parsing", "payment_processing"}
             @@ reporting :> {"report_generation"}

MCContext == ana :> [tenant |-> ta, role |-> "viewer"]
          @@ cleo :> [tenant |-> tb, role |-> "super_admin"]

Asks(tenant, needs) == [tenant |-> tenant, needs |-> needs, amount |-> 0,
                        flagged |-> FALSE, approved |-> tenant = ta]
MCTask == ana :> Asks(ta, {"report_generation"})
       @@ cleo :> Asks(tb, {"report_generation"})

Part(needs) == [needs |-> needs, flagged |-> FALSE]
MCDecompositions ==
  {<<>>, <<Part({"payment_processing"}), Part({"report_generation"})>>,
   <<Part({"report_generation"}), Part({"email_processing"})>>,
   <<[needs |-> {"report_generation"}, flagged |-> TRUE]>>,
   <<Part({"report_generation", "invoice_parsing"})>>}
=============================================================================
