-------------------------- MODULE MCReconcilerPair --------------------------
(***************************************************************************)
(* Two ValkeyClusters, reconciled by the one worker of one controller, each*)
(* with a target and an external Service.                                  *)
(***************************************************************************)
EXTENDS ReconcilerLifecycle, Adapters

MCKey == {"a", "b"}
MCKind == "ValkeyCluster"
MCControllerOf == [k \in MCKey |-> ControllerName[MCKind]]
MCTarget == [k \in MCKey |-> TargetObject(MCKind, k)]
MCExtra == [k \in MCKey |-> ExtraResources(MCKind, k)]
MCLingering == Range(MCTarget)
MCObject == Range(MCTarget) \cup UNION {Range(MCExtra[k]) : k \in MCKey}
=============================================================================
