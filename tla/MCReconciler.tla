---------------------------- MODULE MCReconciler ----------------------------
(***************************************************************************)
(* One PrometheusInstance: a target that may linger in termination and two *)
(* auxiliary objects, the Service and then the Ingress.                    *)
(***************************************************************************)
EXTENDS ReconcilerLifecycle, Adapters

MCKey == {"prom"}
MCKind == "PrometheusInstance"
MCControllerOf == [k \in MCKey |-> ControllerName[MCKind]]
MCTarget == [k \in MCKey |-> TargetObject(MCKind, k)]
MCExtra == [k \in MCKey |-> ExtraResources(MCKind, k)]
MCLingering == Range(MCTarget)
MCObject == Range(MCTarget) \cup UNION {Range(MCExtra[k]) : k \in MCKey}
=============================================================================
