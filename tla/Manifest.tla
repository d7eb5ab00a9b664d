------------------------------ MODULE Manifest ------------------------------
(***************************************************************************)
(* What the operator asks of one foreign object, and what the API server   *)
(* makes of it. The manifests are those of the six BuildManifest methods,  *)
(* of ingress.Build and of the Service of internal/valkey; they are sent   *)
(* with Server-Side Apply and ForceOwnership, over and over, while users   *)
(* edit the CR and outsiders (vendor operators, people with kubectl) edit  *)
(* the object. The first thing the operator does to a CR is to write it    *)
(* back, through its Go types, with a finalizer.                           *)
(*                                                                         *)
(* A manifest is the set of the fields it carries. The value of a field is *)
(* the count the CR asks for, or just Asked.                               *)
(***************************************************************************)
EXTENDS Integers

CONSTANTS
    Builders,    \* the manifests considered
    Counts,      \* replicas, instances or shards a user asks for
    MaxEdits,    \* edits of the CR
    MaxForeign   \* edits of the object by others

AllBuilders == {"CNPG", "MariaDB", "Valkey", "RabbitMQ", "Prometheus",
                "Grafana", "Ingress", "ValkeyService"}

ASSUME ManifestAssumption ==
    /\ Builders \subseteq AllBuilders
    /\ Counts \subseteq Nat \ {0}
    /\ MaxEdits \in Nat /\ MaxForeign \in Nat

VARIABLES
    builder,   \* whose manifest
    spec,      \* the spec of the CR: count, and the options it sets
    fin,       \* the CR has the operator's finalizer
    fields,    \* fields[f]: the value of f and the managers that own it
    synced,    \* the object was last written by an apply of this spec
    budget     \* edits left

vars == <<builder, spec, fin, fields, synced, budget>>

(***************************************************************************)
(* The manifests. Each adapter has fields it always sets and a table of    *)
(* the fields that appear only with an option of the CR.                   *)
(***************************************************************************)
Labels == {"labels.managed-by", "labels.owner"}

\* The fields of the options that are set.
Chosen(s, table) == {table[o] : o \in s.opts \cap DOMAIN table}

\* Slip: a list with no cpu in it is taken for an empty one.
ResourceListJSONCpuOnly(s) ==
    s.opts \cap {"requests.cpu", "limits.cpu"}

\* resourceListJSON: of requests and limits only cpu and memory are passed on.
ResourceListJSON(s) ==
    s.opts \cap {"requests.cpu", "requests.memory", "limits.cpu", "limits.memory"}

CnpgOptional ==
    [image |-> "imageName", storageClass |-> "storage.storageClass",
     expose |-> "managed.services", exposeAnnotations |-> "managed.services.annotations",
     podMonitor |-> "monitoring.enablePodMonitor"]

CnpgManifest(s) ==
    Labels \cup {"instances", "storage.size", "bootstrap.initdb"}
    \cup Chosen(s, CnpgOptional) \cup ResourceListJSON(s)

MariaDBOptional ==
    [image |-> "image", storageClass |-> "storage.storageClassName",
     expose |-> "service.type", exposeAnnotations |-> "service.metadata.annotations",
     podMonitor |-> "metrics"]

\* Galera goes with more than one replica.
MariaDBManifest(s) ==
    Labels \cup {"replicas", "storage.size", "database", "username",
                 "passwordSecretKeyRef", "rootPasswordSecretKeyRef"}
    \cup (IF s.count > 1 THEN {"galera.enabled"} ELSE {})
    \cup Chosen(s, MariaDBOptional) \cup ResourceListJSON(s)

ValkeyOptional ==
    [image |-> "image", storageClass |-> "persistence.storageClassName"]

ValkeyManifest(s) ==
    Labels \cup {"shards", "replicas", "persistence.size"}
    \cup Chosen(s, ValkeyOptional) \cup ResourceListJSON(s)

RabbitMQOptional ==
    [image |-> "image", storageClass |-> "persistence.storageClassName"]

RabbitMQManifest(s) ==
    Labels \cup {"replicas", "persistence.storage"}
    \cup Chosen(s, RabbitMQOptional) \cup ResourceListJSON(s)

PrometheusOptional ==
    [version |-> "version", retention |-> "retention",
     storage |-> "storage.volumeClaimTemplate",
     storageClass |-> "storage.volumeClaimTemplate.storageClassName"]

PrometheusManifest(s) ==
    Labels \cup {"replicas", "serviceMonitorSelector", "podMonitorSelector",
                 "securityContext"}
    \cup Chosen(s, PrometheusOptional) \cup ResourceListJSON(s)

GrafanaOptional ==
    [version |-> "version", ingress |-> "ingress.rules",
     ingressClassName |-> "ingress.ingressClassName",
     tlsSecretName |-> "ingress.tls",
     ingressAnnotations |-> "ingress.metadata.annotations",
     storage |-> "persistentVolumeClaim",
     storageClass |-> "persistentVolumeClaim.storageClassName"]

GrafanaManifest(s) ==
    Labels \cup {"deployment.replicas"} \cup Chosen(s, GrafanaOptional)

IngressOptional ==
    [ingressClassName |-> "ingressClassName", tlsSecretName |-> "tls",
     ingressAnnotations |-> "annotations"]

IngressManifest(s) == Labels \cup {"rules"} \cup Chosen(s, IngressOptional)

ValkeyServiceOptional == [exposeAnnotations |-> "annotations"]

ValkeyServiceManifest(s) ==
    Labels \cup {"type", "selector", "ports"} \cup Chosen(s, ValkeyServiceOptional)

BuildManifest(s) ==
    CASE builder = "CNPG"          -> CnpgManifest(s)
      [] builder = "MariaDB"       -> MariaDBManifest(s)
      [] builder = "Valkey"        -> ValkeyManifest(s)
      [] builder = "RabbitMQ"      -> RabbitMQManifest(s)
      [] builder = "Prometheus"    -> PrometheusManifest(s)
      [] builder = "Grafana"       -> GrafanaManifest(s)
      [] builder = "Ingress"       -> IngressManifest(s)
      [] builder = "ValkeyService" -> ValkeyServiceManifest(s)

(***************************************************************************)
(* Values, options and fields.                                             *)
(***************************************************************************)
CountFields == {"instances", "replicas", "shards", "deployment.replicas"}

\* No value, the value the CR asks for, a value someone else chose.
Unset == 0
Asked == 1
Alien == 1000

\* The count a manifest carries; that of a Valkey cluster counts its shards.
ValueOf(f, s) ==
    IF f \in CountFields /\ ~(builder = "Valkey" /\ f = "replicas") THEN s.count
    ELSE Asked

ResourceOption == {"requests.cpu", "limits.memory", "requests.other"}

\* The monitoring struct. With "podMonitor" its toggle is true, without false.
MonitoringOption == {"monitoring"}

\* The options the CRD of each kind offers.
OptionsOf(b) ==
    CASE b = "CNPG"          -> DOMAIN CnpgOptional \cup ResourceOption \cup MonitoringOption
      [] b = "MariaDB"       -> DOMAIN MariaDBOptional \cup ResourceOption \cup MonitoringOption
      [] b = "Valkey"        -> DOMAIN ValkeyOptional \cup ResourceOption
      [] b = "RabbitMQ"      -> DOMAIN RabbitMQOptional \cup ResourceOption
      [] b = "Prometheus"    -> DOMAIN PrometheusOptional \cup ResourceOption
      [] b = "Grafana"       -> DOMAIN GrafanaOptional
      [] b = "Ingress"       -> DOMAIN IngressOptional
      [] b = "ValkeyService" -> DOMAIN ValkeyServiceOptional

\* Options that live inside an optional struct of the CR.
Inside ==
    [exposeAnnotations |-> "expose", ingressClassName |-> "ingress",
     tlsSecretName |-> "ingress", ingressAnnotations |-> "ingress",
     storageClass |-> "storage", podMonitor |-> "monitoring"]

\* The struct is there: it is required, or it is set.
Offered(o) ==
    o \in DOMAIN Inside /\ Inside[o] \in OptionsOf(builder) => Inside[o] \in spec.opts

\* Every field the manifest can carry, and one it never does.
Field ==
    BuildManifest([count |-> 2, opts |-> OptionsOf(builder)]) \cup {"unmanaged"}

Managers == {"operator", "outsider"}

TypeOK ==
    /\ builder \in Builders
    /\ spec \in [count : Counts, opts : SUBSET OptionsOf(builder)]
    /\ fin \in BOOLEAN
    /\ fields \in [Field -> [val : {Unset, Asked, Alien} \cup Counts, by : SUBSET Managers]]
    /\ synced \in BOOLEAN
    /\ budget \in [edits : 0..MaxEdits, foreign : 0..MaxForeign]

(***************************************************************************)
(* Adding the finalizer: a full Update of the typed CR.                    *)
(***************************************************************************)
\* Slip: monitoring tagged omitempty, which never omits a struct.
SentOmitEmpty(opts) ==
    opts \cup (MonitoringOption \cap OptionsOf(builder))

\* What the Go types leave of the options: monitoring is tagged omitzero and
\* is not sent when its only toggle is false.
Sent(opts) == IF "podMonitor" \in opts THEN opts ELSE opts \ {"monitoring"}

\* The CRD default of the toggle, for a monitoring struct sent without it.
Defaulted(opts) ==
    IF "monitoring" \in opts THEN opts \cup {"podMonitor"} ELSE opts

AddFinalizer ==
    /\ ~fin
    /\ fin' = TRUE
    /\ spec' = [spec EXCEPT !.opts = Defaulted(Sent(@))]
    /\ UNCHANGED <<builder, fields, synced, budget>>

(***************************************************************************)
(* Server-Side Apply with ForceOwnership.                                  *)
(***************************************************************************)
Nothing == [val |-> Unset, by |-> {}]

\* Slip: a merge patch, which leaves alone what it does not mention.
MergePatch(m) ==
    [f \in Field |-> IF f \in m THEN [val |-> ValueOf(f, spec), by |-> {"operator"}]
                     ELSE fields[f]]

\* A field in the manifest gets its value and is ours, together with whoever
\* already wanted that value; a field we no longer list goes, unless another
\* manager owns it too.
ServerSideApply(m) ==
    [f \in Field |->
        LET old == fields[f] IN
        IF f \in m
        THEN [val |-> ValueOf(f, spec),
              by  |-> IF old.val = ValueOf(f, spec) THEN old.by \cup {"operator"}
                      ELSE {"operator"}]
        ELSE IF old.by = {"operator"} THEN Nothing
        ELSE [old EXCEPT !.by = @ \ {"operator"}]]

\* Slip: the target is applied before the finalizer is there.
ApplyTargetEarly ==
    /\ fields' = ServerSideApply(BuildManifest(spec))
    /\ synced' = TRUE
    /\ UNCHANGED <<builder, spec, fin, budget>>

\* applyTarget.
ApplyTarget ==
    /\ fin
    /\ fields' = ServerSideApply(BuildManifest(spec))
    /\ synced' = TRUE
    /\ UNCHANGED <<builder, spec, fin, budget>>

(***************************************************************************)
(* Users and outsiders.                                                    *)
(***************************************************************************)
UserStep(s) ==
    /\ budget.edits > 0
    /\ budget' = [budget EXCEPT !.edits = @ - 1]
    /\ spec' = s
    /\ synced' = FALSE
    /\ UNCHANGED <<builder, fin, fields>>

\* Users write YAML: the toggle they leave out gets its default, the toggle
\* they turn off stays off.
UserSets(o) ==
    /\ o \notin spec.opts /\ Offered(o)
    /\ UserStep([spec EXCEPT !.opts =
                   IF o = "monitoring" THEN Defaulted(@ \cup {o}) ELSE @ \cup {o}])

\* Removing a struct removes the options inside it.
UserUnsets(o) ==
    /\ o \in spec.opts
    /\ UserStep([spec EXCEPT !.opts =
                   {p \in @ \ {o} : ~(p \in DOMAIN Inside /\ Inside[p] = o)}])

UserScales(n) ==
    /\ n # spec.count
    /\ UserStep([spec EXCEPT !.count = n])

\* Others edit an object that exists.
ForeignStep(f, new) ==
    /\ budget.foreign > 0
    /\ fields["labels.owner"] # Nothing
    /\ budget' = [budget EXCEPT !.foreign = @ - 1]
    /\ fields' = [fields EXCEPT ![f] = new]
    /\ fields' # fields
    /\ synced' = FALSE
    /\ UNCHANGED <<builder, spec, fin>>

\* An edit makes its author the only owner of what it changed.
OutsiderEdits(f) == ForeignStep(f, [val |-> Alien, by |-> {"outsider"}])

\* An apply of the value that is there makes its author another owner.
OutsiderAgrees(f) ==
    /\ fields[f].val # Unset
    /\ ForeignStep(f, [fields[f] EXCEPT !.by = @ \cup {"outsider"}])

(***************************************************************************)
(* Specification.                                                          *)
(***************************************************************************)
Init ==
    /\ builder \in Builders
    /\ spec \in [count : Counts, opts : {{}}]
    /\ fin = FALSE
    /\ fields = [f \in Field |-> Nothing]
    /\ synced = FALSE
    /\ budget = [edits |-> MaxEdits, foreign |-> MaxForeign]

Next ==
    \/ AddFinalizer
    \/ ApplyTarget
    \/ \E o \in OptionsOf(builder) : UserSets(o) \/ UserUnsets(o)
    \/ \E n \in Counts : UserScales(n)
    \/ \E f \in Field : OutsiderEdits(f) \/ OutsiderAgrees(f)

Spec == Init /\ [][Next]_vars

(***************************************************************************)
(* Properties.                                                             *)
(***************************************************************************)
\* After an apply the object is what the CR asks for, whatever options were
\* on before and whoever edited the object: every field of the manifest has
\* the CR's value, and a field of an option that was turned off is gone, or
\* kept only by an owner of its own (reconciler.go:258-268).
MatchesManifest ==
    synced => \A f \in Field :
        IF f \in BuildManifest(spec)
        THEN fields[f].val = ValueOf(f, spec)
        ELSE fields[f].val # Unset => fields[f].by = {"outsider"}

\* The inductive invariant behind it. An object is in step only with a CR that
\* has its finalizer, so that no write of the CR puts it out of step unseen,
\* and a field has a value only as long as somebody owns it: what the operator
\* gives up is then gone, or the outsider's (reconciler.go:193-199, 258-268).
ManifestInv ==
    /\ TypeOK
    /\ MatchesManifest
    /\ synced => fin
    /\ \A f \in Field : fields[f].by = {} => fields[f].val = Unset

\* The options of s that the adapters pass on.
PassedOn(s) == s.opts \ {"requests.other", "monitoring"}

\* No option of a CR is lost on its way: every edit changes what is applied,
\* but for requests and limits other than cpu and memory (BuildManifest of the
\* adapters, ingress.Build).
EditReachesTarget ==
    [][PassedOn(spec') # PassedOn(spec) => BuildManifest(spec') # BuildManifest(spec)]_vars

\* The operator's own write of the CR asks for nothing the user did not: a
\* value that Go takes for empty must come back from the API server's defaults
\* as what it was (reconciler.go:193-199, the json tags and defaults of the
\* types). Counts are positive here; for zero see module Reconciler.
WriteKeepsRequest ==
    [][budget' = budget => BuildManifest(spec') = BuildManifest(spec)]_vars

\* postgrescluster_types.go:79, of enablePodMonitor: "Enabled by default". A CR
\* that says nothing about monitoring has its PodMonitor or ServiceMonitor.
MonitoredByDefault ==
    synced /\ builder \in {"CNPG", "MariaDB"} /\ "monitoring" \notin spec.opts =>
        \E f \in {"monitoring.enablePodMonitor", "metrics"} \cap Field :
            fields[f].val # Unset
=============================================================================
