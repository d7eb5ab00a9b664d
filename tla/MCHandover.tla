----------------------------- MODULE MCHandover -----------------------------
(***************************************************************************)
(* One ValkeyCluster with its external Service.                            *)
(***************************************************************************)
EXTENDS Handover, Adapters

MCKey == {"valkey"}
MCKind == "ValkeyCluster"
MCControllerOf == [k \in MCKey |-> ControllerName[MCKind]]
MCTarget == [k \in MCKey |-> TargetObject(MCKind, k)]
MCExtra == [k \in MCKey |-> ExtraResources(MCKind, k)]
MCLingering == Range(MCTarget)
MCObject == Range(MCTarget) \cup UNION {Range(MCExtra[k]) : k \in MCKey}
=============================================================================
