--------------------------- MODULE MCPlanCreation ---------------------------
(* Up to three tasks over three names, one of them possibly repeated, with *)
(* up to two dependencies each, a repeated, a self and an unknown one      *)
(* among them.                                                             *)
EXTENDS PlanCreation

CONSTANT MaxTasks

MCNames == {"a", "b", "c"}

MCDependencies ==
  {<<>>, <<"a">>, <<"b">>, <<"c">>, <<"a", "b">>, <<"c", "a">>, <<"b", "c">>,
   <<"a", "a">>, <<"unknown", "a">>}

(* The capabilities go with the name: they do not interact with the graph. *)
MCCapabilities ==
  [a |-> <<"report_generation">>,
   b |-> <<"bank_sync", "accounting_sync", "data_import">>,
   c |-> <<>>]

MCTasks ==
  {[name |-> n, dependencies |-> d, required_capabilities |-> MCCapabilities[n]] :
     n \in MCNames, d \in MCDependencies}

MCDecompositions == UNION {[1..k -> MCTasks] : k \in 0..MaxTasks}

MCProfiles ==
  <<[id |-> "clawkeeper",       capabilities |-> {"invoice_parsing", "data_import"}],
    [id |-> "cfo",              capabilities |-> {"report_generation"}],
    [id |-> "reporting_lead",   capabilities |-> {"report_generation"}],
    [id |-> "integration_lead", capabilities |-> {"bank_sync", "accounting_sync"}]>>
=============================================================================
