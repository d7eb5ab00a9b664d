------------------------- MODULE MCReconcilerShared -------------------------
(***************************************************************************)
(* A PrometheusInstance and a RabbitMQCluster of the same name: their      *)
(* controllers run side by side and both name their Ingress foo-ingress.   *)
(***************************************************************************)
EXTENDS ReconcilerLifecycle, Adapters

MCKind == [prom |-> "PrometheusInstance", rabbit |-> "RabbitMQCluster"]
MCKey == DOMAIN MCKind
MCControllerOf == [k \in MCKey |-> ControllerName[MCKind[k]]]
MCTarget == [k \in MCKey |-> TargetObject(MCKind[k], "foo")]
MCExtra == [k \in MCKey |-> ExtraResources(MCKind[k], "foo")]
MCObject == Range(MCTarget) \cup UNION {Range(MCExtra[k]) : k \in MCKey}
=============================================================================
