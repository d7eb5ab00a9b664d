--------------------------- MODULE ManifestProofs ---------------------------
(***************************************************************************)
(* What the applied object has of the CR and of others, and what of the CR *)
(* reaches the manifest, for any counts and any number of edits.           *)
(***************************************************************************)
EXTENDS Manifest, TLAPS

(***************************************************************************)
(* Server-Side Apply.                                                      *)
(***************************************************************************)
\* What the object may hold of one field: a field nobody owns has no value.
Entry == [val : {Unset, Asked, Alien} \cup Counts, by : SUBSET Managers]

\* Whatever manifest is applied, its fields get the values of the CR, and a
\* field that it leaves out keeps a value only for the outsider.
LEMMA ApplyFacts ==
    ASSUME NEW m, spec.count \in Counts, fields \in [Field -> Entry],
           \A f \in Field : fields[f].by = {} => fields[f].val = Unset
    PROVE  /\ ServerSideApply(m) \in [Field -> Entry]
           /\ \A f \in Field :
                /\ f \in m => ServerSideApply(m)[f].val = ValueOf(f, spec)
                /\ ServerSideApply(m)[f].by = {} => ServerSideApply(m)[f].val = Unset
                /\ f \notin m /\ ServerSideApply(m)[f].val # Unset
                     => ServerSideApply(m)[f].by = {"outsider"}
<1> DEFINE A == ServerSideApply(m)
           New(f) == IF f \in m
                     THEN [val |-> ValueOf(f, spec),
                           by  |-> IF fields[f].val = ValueOf(f, spec)
                                   THEN fields[f].by \cup {"operator"}
                                   ELSE {"operator"}]
                     ELSE IF fields[f].by = {"operator"} THEN Nothing
                     ELSE [fields[f] EXCEPT !.by = @ \ {"operator"}]
<1>1. A = [f \in Field |-> New(f)]
  BY DEF ServerSideApply
<1>2. ASSUME NEW f \in Field
      PROVE  /\ New(f) \in Entry
             /\ f \in m => New(f).val = ValueOf(f, spec)
             /\ New(f).by = {} => New(f).val = Unset
             /\ f \notin m /\ New(f).val # Unset => New(f).by = {"outsider"}
  <2>1. /\ fields[f] \in Entry /\ fields[f].by \in SUBSET Managers
        /\ fields[f].val \in {Unset, Asked, Alien} \cup Counts
    BY DEF Entry
  <2>2. CASE f \in m
    <3>1. ValueOf(f, spec) \in {Unset, Asked, Alien} \cup Counts
      BY DEF ValueOf
    <3> HIDE DEF New
    <3>2. New(f) = [val |-> ValueOf(f, spec),
                    by  |-> IF fields[f].val = ValueOf(f, spec)
                            THEN fields[f].by \cup {"operator"}
                            ELSE {"operator"}]
      BY <2>2 DEF New
    <3>3. /\ New(f).val = ValueOf(f, spec)
          /\ New(f).by \in SUBSET Managers /\ "operator" \in New(f).by
      BY <3>2, <2>1 DEF Managers
    <3>4. New(f) \in Entry
      BY <3>1, <3>2, <3>3 DEF Entry
    <3> QED BY <2>2, <3>3, <3>4
  <2>3. CASE f \notin m /\ fields[f].by = {"operator"}
    BY <2>3 DEF Nothing, Entry, Managers
  <2>4. CASE f \notin m /\ fields[f].by # {"operator"}
    <3> HIDE DEF New
    <3>1. New(f) = [fields[f] EXCEPT !.by = fields[f].by \ {"operator"}]
      BY <2>4 DEF New
    <3>2. /\ New(f) \in Entry /\ New(f).val = fields[f].val
          /\ New(f).by = fields[f].by \ {"operator"}
      BY <3>1, <2>1 DEF Entry
    <3>3. fields[f].by \in {{}, {"outsider"}, {"operator", "outsider"}}
      BY <2>1, <2>4 DEF Managers
    <3>4. fields[f].by = {} => New(f).val = Unset
      BY <3>2
    <3>5. fields[f].by # {} => New(f).by = {"outsider"}
      BY <3>2, <3>3
    <3> QED BY <2>4, <3>2, <3>4, <3>5
  <2> QED BY <2>2, <2>3, <2>4
<1> HIDE DEF New
<1>3. A \in [Field -> Entry] /\ \A f \in Field : A[f] = New(f)
  BY <1>1, <1>2
<1> QED BY <1>2, <1>3

(***************************************************************************)
(* The manifests.                                                          *)
(***************************************************************************)
\* An option's field is in the table's part of a manifest when the option is
\* set, and only then if no other option has that field.
LEMMA ChosenFacts ==
    ASSUME NEW s, NEW table, NEW o \in DOMAIN table,
           \A p \in DOMAIN table : table[p] = table[o] => p = o
    PROVE  table[o] \in Chosen(s, table) <=> o \in s.opts
BY DEF Chosen

\* The options an adapter passes on.
Passable == OptionsOf(builder) \ {"requests.other", "monitoring"}

\* Each of them has a field of its own, which is in the manifest exactly when
\* the option is set.
LEMMA OptionHasField ==
    ASSUME builder \in AllBuilders, NEW o \in Passable
    PROVE  \E f : \A s : f \in BuildManifest(s) <=> o \in s.opts
<1>1. CASE builder = "CNPG"
  <2>1. \A s : BuildManifest(s) = CnpgManifest(s)
    BY <1>1 DEF BuildManifest
  <2>2. o \in DOMAIN CnpgOptional \/ o \in {"requests.cpu", "limits.memory"}
    BY <1>1 DEF Passable, OptionsOf, ResourceOption, MonitoringOption
  <2>3. CASE o \in DOMAIN CnpgOptional
    <3>1. \A p \in DOMAIN CnpgOptional : CnpgOptional[p] = CnpgOptional[o] => p = o
      BY <2>3 DEF CnpgOptional
    <3>2. \A s : CnpgOptional[o] \in CnpgManifest(s) <=> CnpgOptional[o] \in Chosen(s, CnpgOptional)
      BY <2>3 DEF CnpgManifest, CnpgOptional, Labels, ResourceListJSON
    <3> QED BY <2>1, <2>3, <3>1, <3>2, ChosenFacts
  <2>4. CASE o \in {"requests.cpu", "limits.memory"}
    <3>1. \A p \in DOMAIN CnpgOptional : CnpgOptional[p] # o
      BY <2>4 DEF CnpgOptional
    <3>2. \A s : o \in CnpgManifest(s) <=> o \in s.opts
      BY <2>4, <3>1 DEF CnpgManifest, Chosen, Labels, ResourceListJSON
    <3> QED BY <2>1, <3>2
  <2> QED BY <2>2, <2>3, <2>4
<1>2. CASE builder = "MariaDB"
  <2>1. \A s : BuildManifest(s) = MariaDBManifest(s)
    BY <1>2 DEF BuildManifest
  <2>2. o \in DOMAIN MariaDBOptional \/ o \in {"requests.cpu", "limits.memory"}
    BY <1>2 DEF Passable, OptionsOf, ResourceOption, MonitoringOption
  <2>3. CASE o \in DOMAIN MariaDBOptional
    <3>1. \A p \in DOMAIN MariaDBOptional : MariaDBOptional[p] = MariaDBOptional[o] => p = o
      BY <2>3 DEF MariaDBOptional
    <3>2. \A s : MariaDBOptional[o] \in MariaDBManifest(s) <=> MariaDBOptional[o] \in Chosen(s, MariaDBOptional)
      BY <2>3 DEF MariaDBManifest, MariaDBOptional, Labels, ResourceListJSON
    <3> QED BY <2>1, <2>3, <3>1, <3>2, ChosenFacts
  <2>4. CASE o \in {"requests.cpu", "limits.memory"}
    <3>1. \A p \in DOMAIN MariaDBOptional : MariaDBOptional[p] # o
      BY <2>4 DEF MariaDBOptional
    <3>2. \A s : o \in MariaDBManifest(s) <=> o \in s.opts
      BY <2>4, <3>1 DEF MariaDBManifest, Chosen, Labels, ResourceListJSON
    <3> QED BY <2>1, <3>2
  <2> QED BY <2>2, <2>3, <2>4
<1>3. CASE builder = "Valkey"
  <2>1. \A s : BuildManifest(s) = ValkeyManifest(s)
    BY <1>3 DEF BuildManifest
  <2>2. o \in DOMAIN ValkeyOptional \/ o \in {"requests.cpu", "limits.memory"}
    BY <1>3 DEF Passable, OptionsOf, ResourceOption
  <2>3. CASE o \in DOMAIN ValkeyOptional
    <3>1. \A p \in DOMAIN ValkeyOptional : ValkeyOptional[p] = ValkeyOptional[o] => p = o
      BY <2>3 DEF ValkeyOptional
    <3>2. \A s : ValkeyOptional[o] \in ValkeyManifest(s) <=> ValkeyOptional[o] \in Chosen(s, ValkeyOptional)
      BY <2>3 DEF ValkeyManifest, ValkeyOptional, Labels, ResourceListJSON
    <3> QED BY <2>1, <2>3, <3>1, <3>2, ChosenFacts
  <2>4. CASE o \in {"requests.cpu", "limits.memory"}
    <3>1. \A p \in DOMAIN ValkeyOptional : ValkeyOptional[p] # o
      BY <2>4 DEF ValkeyOptional
    <3>2. \A s : o \in ValkeyManifest(s) <=> o \in s.opts
      BY <2>4, <3>1 DEF ValkeyManifest, Chosen, Labels, ResourceListJSON
    <3> QED BY <2>1, <3>2
  <2> QED BY <2>2, <2>3, <2>4
<1>4. CASE builder = "RabbitMQ"
  <2>1. \A s : BuildManifest(s) = RabbitMQManifest(s)
    BY <1>4 DEF BuildManifest
  <2>2. o \in DOMAIN RabbitMQOptional \/ o \in {"requests.cpu", "limits.memory"}
    BY <1>4 DEF Passable, OptionsOf, ResourceOption
  <2>3. CASE o \in DOMAIN RabbitMQOptional
    <3>1. \A p \in DOMAIN RabbitMQOptional : RabbitMQOptional[p] = RabbitMQOptional[o] => p = o
      BY <2>3 DEF RabbitMQOptional
    <3>2. \A s : RabbitMQOptional[o] \in RabbitMQManifest(s) <=> RabbitMQOptional[o] \in Chosen(s, RabbitMQOptional)
      BY <2>3 DEF RabbitMQManifest, RabbitMQOptional, Labels, ResourceListJSON
    <3> QED BY <2>1, <2>3, <3>1, <3>2, ChosenFacts
  <2>4. CASE o \in {"requests.cpu", "limits.memory"}
    <3>1. \A p \in DOMAIN RabbitMQOptional : RabbitMQOptional[p] # o
      BY <2>4 DEF RabbitMQOptional
    <3>2. \A s : o \in RabbitMQManifest(s) <=> o \in s.opts
      BY <2>4, <3>1 DEF RabbitMQManifest, Chosen, Labels, ResourceListJSON
    <3> QED BY <2>1, <3>2
  <2> QED BY <2>2, <2>3, <2>4
<1>5. CASE builder = "Prometheus"
  <2>1. \A s : BuildManifest(s) = PrometheusManifest(s)
    BY <1>5 DEF BuildManifest
  <2>2. o \in DOMAIN PrometheusOptional \/ o \in {"requests.cpu", "limits.memory"}
    BY <1>5 DEF Passable, OptionsOf, ResourceOption
  <2>3. CASE o \in DOMAIN PrometheusOptional
    <3>1. \A p \in DOMAIN PrometheusOptional : PrometheusOptional[p] = PrometheusOptional[o] => p = o
      BY <2>3 DEF PrometheusOptional
    <3>2. \A s : PrometheusOptional[o] \in PrometheusManifest(s) <=> PrometheusOptional[o] \in Chosen(s, PrometheusOptional)
      BY <2>3 DEF PrometheusManifest, PrometheusOptional, Labels, ResourceListJSON
    <3> QED BY <2>1, <2>3, <3>1, <3>2, ChosenFacts
  <2>4. CASE o \in {"requests.cpu", "limits.memory"}
    <3>1. \A p \in DOMAIN PrometheusOptional : PrometheusOptional[p] # o
      BY <2>4 DEF PrometheusOptional
    <3>2. \A s : o \in PrometheusManifest(s) <=> o \in s.opts
      BY <2>4, <3>1 DEF PrometheusManifest, Chosen, Labels, ResourceListJSON
    <3> QED BY <2>1, <3>2
  <2> QED BY <2>2, <2>3, <2>4
<1>6. CASE builder = "Grafana"
  <2>1. \A s : BuildManifest(s) = GrafanaManifest(s)
    BY <1>6 DEF BuildManifest
  <2>2. o \in DOMAIN GrafanaOptional
    BY <1>6 DEF Passable, OptionsOf
  <2>3. \A p \in DOMAIN GrafanaOptional : GrafanaOptional[p] = GrafanaOptional[o] => p = o
    BY <2>2 DEF GrafanaOptional
  <2>4. \A s : GrafanaOptional[o] \in GrafanaManifest(s) <=> GrafanaOptional[o] \in Chosen(s, GrafanaOptional)
    BY <2>2 DEF GrafanaManifest, GrafanaOptional, Labels
  <2> QED BY <2>1, <2>2, <2>3, <2>4, ChosenFacts
<1>7. CASE builder = "Ingress"
  <2>1. \A s : BuildManifest(s) = IngressManifest(s)
    BY <1>7 DEF BuildManifest
  <2>2. o \in DOMAIN IngressOptional
    BY <1>7 DEF Passable, OptionsOf
  <2>3. \A p \in DOMAIN IngressOptional : IngressOptional[p] = IngressOptional[o] => p = o
    BY <2>2 DEF IngressOptional
  <2>4. \A s : IngressOptional[o] \in IngressManifest(s) <=> IngressOptional[o] \in Chosen(s, IngressOptional)
    BY <2>2 DEF IngressManifest, IngressOptional, Labels
  <2> QED BY <2>1, <2>2, <2>3, <2>4, ChosenFacts
<1>8. CASE builder = "ValkeyService"
  <2>1. \A s : BuildManifest(s) = ValkeyServiceManifest(s)
    BY <1>8 DEF BuildManifest
  <2>2. o \in DOMAIN ValkeyServiceOptional
    BY <1>8 DEF Passable, OptionsOf
  <2>3. \A p \in DOMAIN ValkeyServiceOptional : ValkeyServiceOptional[p] = ValkeyServiceOptional[o] => p = o
    BY <2>2 DEF ValkeyServiceOptional
  <2>4. \A s : ValkeyServiceOptional[o] \in ValkeyServiceManifest(s) <=> ValkeyServiceOptional[o] \in Chosen(s, ValkeyServiceOptional)
    BY <2>2 DEF ValkeyServiceManifest, ValkeyServiceOptional, Labels
  <2> QED BY <2>1, <2>2, <2>3, <2>4, ChosenFacts
<1> QED BY <1>1, <1>2, <1>3, <1>4, <1>5, <1>6, <1>7, <1>8 DEF AllBuilders

\* So two specs with the same manifest pass on the same options.
LEMMA ManifestTellsOptions ==
    ASSUME builder \in AllBuilders, NEW s, NEW t,
           s.opts \subseteq OptionsOf(builder), t.opts \subseteq OptionsOf(builder),
           BuildManifest(s) = BuildManifest(t)
    PROVE  PassedOn(s) = PassedOn(t)
<1>1. \A o \in Passable : o \in s.opts <=> o \in t.opts
  <2> TAKE o \in Passable
  <2>1. PICK f : \A r : f \in BuildManifest(r) <=> o \in r.opts
    BY OptionHasField
  <2> QED BY <2>1
<1> QED BY <1>1 DEF PassedOn, Passable

\* A table does not know the monitoring struct, only the toggle in it.
LEMMA ChosenWithoutStruct ==
    ASSUME NEW s, NEW t, NEW table, "monitoring" \notin DOMAIN table,
           s.opts \ {"monitoring"} = t.opts \ {"monitoring"}
    PROVE  Chosen(s, table) = Chosen(t, table)
<1>1. s.opts \cap DOMAIN table = t.opts \cap DOMAIN table
  OBVIOUS
<1> QED BY <1>1 DEF Chosen

\* The struct itself is in no manifest.
LEMMA StructIsSilent ==
    ASSUME builder \in AllBuilders, NEW s, NEW t, s.count = t.count,
           s.opts \ {"monitoring"} = t.opts \ {"monitoring"}
    PROVE  BuildManifest(s) = BuildManifest(t)
<1>r. ResourceListJSON(s) = ResourceListJSON(t)
  BY DEF ResourceListJSON
<1>1. CASE builder = "CNPG"
  <2>1. Chosen(s, CnpgOptional) = Chosen(t, CnpgOptional)
    BY ChosenWithoutStruct DEF CnpgOptional
  <2> QED BY <1>1, <1>r, <2>1 DEF BuildManifest, CnpgManifest
<1>2. CASE builder = "MariaDB"
  <2>1. Chosen(s, MariaDBOptional) = Chosen(t, MariaDBOptional)
    BY ChosenWithoutStruct DEF MariaDBOptional
  <2> QED BY <1>2, <1>r, <2>1 DEF BuildManifest, MariaDBManifest
<1>3. CASE builder = "Valkey"
  <2>1. Chosen(s, ValkeyOptional) = Chosen(t, ValkeyOptional)
    BY ChosenWithoutStruct DEF ValkeyOptional
  <2> QED BY <1>3, <1>r, <2>1 DEF BuildManifest, ValkeyManifest
<1>4. CASE builder = "RabbitMQ"
  <2>1. Chosen(s, RabbitMQOptional) = Chosen(t, RabbitMQOptional)
    BY ChosenWithoutStruct DEF RabbitMQOptional
  <2> QED BY <1>4, <1>r, <2>1 DEF BuildManifest, RabbitMQManifest
<1>5. CASE builder = "Prometheus"
  <2>1. Chosen(s, PrometheusOptional) = Chosen(t, PrometheusOptional)
    BY ChosenWithoutStruct DEF PrometheusOptional
  <2> QED BY <1>5, <1>r, <2>1 DEF BuildManifest, PrometheusManifest
<1>6. CASE builder = "Grafana"
  <2>1. Chosen(s, GrafanaOptional) = Chosen(t, GrafanaOptional)
    BY ChosenWithoutStruct DEF GrafanaOptional
  <2> QED BY <1>6, <2>1 DEF BuildManifest, GrafanaManifest
<1>7. CASE builder = "Ingress"
  <2>1. Chosen(s, IngressOptional) = Chosen(t, IngressOptional)
    BY ChosenWithoutStruct DEF IngressOptional
  <2> QED BY <1>7, <2>1 DEF BuildManifest, IngressManifest
<1>8. CASE builder = "ValkeyService"
  <2>1. Chosen(s, ValkeyServiceOptional) = Chosen(t, ValkeyServiceOptional)
    BY ChosenWithoutStruct DEF ValkeyServiceOptional
  <2> QED BY <1>8, <2>1 DEF BuildManifest, ValkeyServiceManifest
<1> QED BY <1>1, <1>2, <1>3, <1>4, <1>5, <1>6, <1>7, <1>8 DEF AllBuilders

\* The toggle is offered by the kinds that offer the struct.
LEMMA ToggleWithStruct ==
    ASSUME builder \in AllBuilders, "monitoring" \in OptionsOf(builder)
    PROVE  "podMonitor" \in OptionsOf(builder)
<1>1. CASE builder \in {"CNPG", "MariaDB"}
  BY <1>1 DEF OptionsOf, CnpgOptional, MariaDBOptional
<1>2. CASE builder \in {"Valkey", "RabbitMQ", "Prometheus"}
  BY <1>2 DEF OptionsOf, ResourceOption, ValkeyOptional, RabbitMQOptional, PrometheusOptional
<1>3. CASE builder \in {"Grafana", "Ingress", "ValkeyService"}
  BY <1>3 DEF OptionsOf, GrafanaOptional, IngressOptional, ValkeyServiceOptional
<1> QED BY <1>1, <1>2, <1>3 DEF AllBuilders

\* What writing the CR through its Go types does to the options.
LEMMA WriteBackOptions ==
    ASSUME NEW opts
    PROVE  /\ Defaulted(Sent(opts)) \subseteq opts
           /\ Defaulted(Sent(opts)) \ {"monitoring"} = opts \ {"monitoring"}
BY DEF Defaulted, Sent
(***************************************************************************)
(* The inductive invariant.                                                *)
(***************************************************************************)
Budgets == [edits : 0..MaxEdits, foreign : 0..MaxForeign]

Specs == [count : Counts, opts : SUBSET OptionsOf(builder)]

LEMMA ManifestInit == Init => ManifestInv
<1> SUFFICES ASSUME Init PROVE ManifestInv
  OBVIOUS
<1>1. Nothing \in Entry /\ Nothing.val = Unset
  BY DEF Nothing, Entry
<1>2. fields \in [Field -> Entry] /\ \A f \in Field : fields[f].val = Unset
  BY <1>1 DEF Init
<1>3. builder \in Builders /\ fin \in BOOLEAN /\ synced \in BOOLEAN /\ ~synced
  BY DEF Init
<1>4. spec \in Specs
  BY DEF Init, Specs
<1>5. budget \in Budgets
  BY ManifestAssumption DEF Init, Budgets
<1>6. TypeOK
  BY <1>2, <1>3, <1>4, <1>5 DEF TypeOK, Entry, Specs, Budgets
<1> QED BY <1>2, <1>3, <1>6 DEF ManifestInv, MatchesManifest

\* A step that leaves the builder alone keeps the fields and the manifests.
LEMMA SameBuilder ==
    ASSUME builder' = builder
    PROVE  /\ Field' = Field /\ OptionsOf(builder)' = OptionsOf(builder)
           /\ BuildManifest(spec)' = BuildManifest(spec')
           /\ \A f : ValueOf(f, spec)' = ValueOf(f, spec')
BY DEF Field, BuildManifest, ValueOf

LEMMA UserFacts ==
    ASSUME NEW s, UserStep(s)
    PROVE  /\ budget.edits > 0 /\ budget' = [budget EXCEPT !.edits = @ - 1]
           /\ spec' = s /\ synced' = FALSE /\ UNCHANGED <<builder, fin, fields>>
BY DEF UserStep

\* The options users end up with are ones the kind offers.
LEMMA UserEdits ==
    ASSUME ManifestInv,
           \/ \E o \in OptionsOf(builder) : UserSets(o) \/ UserUnsets(o)
           \/ \E n \in Counts : UserScales(n)
    PROVE  /\ spec' \in Specs /\ budget' \in Budgets /\ budget' # budget
           /\ ~synced' /\ synced' \in BOOLEAN /\ UNCHANGED <<builder, fin, fields>>
<1>1. spec \in Specs /\ spec.count \in Counts /\ spec.opts \subseteq OptionsOf(builder)
  BY DEF ManifestInv, TypeOK, Specs
<1>2. builder \in AllBuilders
  BY ManifestAssumption DEF ManifestInv, TypeOK
<1>3. \E s \in Specs : UserStep(s)
  <2>1. ASSUME NEW o \in OptionsOf(builder), UserSets(o) PROVE \E s \in Specs : UserStep(s)
    <3> DEFINE new == IF o = "monitoring" THEN Defaulted(spec.opts \cup {o}) ELSE spec.opts \cup {o}
    <3>1. new \subseteq OptionsOf(builder)
      BY <1>1, <1>2, ToggleWithStruct DEF Defaulted
    <3>2. UserStep([spec EXCEPT !.opts = new])
      BY <2>1 DEF UserSets
    <3> HIDE DEF new
    <3>3. [spec EXCEPT !.opts = new] \in Specs
      BY <1>1, <3>1 DEF Specs
    <3> QED BY <3>2, <3>3
  <2>2. ASSUME NEW o \in OptionsOf(builder), UserUnsets(o) PROVE \E s \in Specs : UserStep(s)
    <3> DEFINE new == {p \in spec.opts \ {o} : ~(p \in DOMAIN Inside /\ Inside[p] = o)}
    <3>1. new \subseteq OptionsOf(builder)
      BY <1>1
    <3>2. UserStep([spec EXCEPT !.opts = new])
      BY <2>2 DEF UserUnsets
    <3> HIDE DEF new
    <3>3. [spec EXCEPT !.opts = new] \in Specs
      BY <1>1, <3>1 DEF Specs
    <3> QED BY <3>2, <3>3
  <2>3. ASSUME NEW n \in Counts, UserScales(n) PROVE \E s \in Specs : UserStep(s)
    <3>1. UserStep([spec EXCEPT !.count = n])
      BY <2>3 DEF UserScales
    <3>2. [spec EXCEPT !.count = n] \in Specs
      BY <1>1 DEF Specs
    <3> QED BY <3>1, <3>2
  <2> QED BY <2>1, <2>2, <2>3
<1>4. PICK s \in Specs : UserStep(s)
  BY <1>3
<1>5. budget' \in Budgets /\ budget' # budget
  <2>1. budget.edits > 0 /\ budget' = [budget EXCEPT !.edits = @ - 1]
    BY <1>4, UserFacts
  <2>2. budget \in Budgets
    BY DEF ManifestInv, TypeOK, Budgets
  <2> QED BY <2>1, <2>2, ManifestAssumption DEF Budgets
<1> QED BY <1>4, <1>5, UserFacts

\* What others do to a field leaves it with an owner.
LEMMA ForeignEdits ==
    ASSUME ManifestInv, \E f \in Field : OutsiderEdits(f) \/ OutsiderAgrees(f)
    PROVE  /\ fields' \in [Field -> Entry] /\ budget' \in Budgets /\ budget' # budget
           /\ \A f \in Field : fields'[f].by = {} => fields'[f].val = Unset
           /\ ~synced' /\ synced' \in BOOLEAN /\ UNCHANGED <<builder, spec, fin>>
<1>0. /\ fields \in [Field -> Entry]
      /\ \A f \in Field : fields[f].by = {} => fields[f].val = Unset
  BY DEF ManifestInv, TypeOK, Entry
<1>1. \E f \in Field : \E new \in Entry : "outsider" \in new.by /\ ForeignStep(f, new)
  <2>1. ASSUME NEW f \in Field, OutsiderEdits(f)
        PROVE  \E new \in Entry : "outsider" \in new.by /\ ForeignStep(f, new)
    <3>1. [val |-> Alien, by |-> {"outsider"}] \in Entry
      BY DEF Entry, Managers
    <3> QED BY <2>1, <3>1 DEF OutsiderEdits
  <2>2. ASSUME NEW f \in Field, OutsiderAgrees(f)
        PROVE  \E new \in Entry : "outsider" \in new.by /\ ForeignStep(f, new)
    <3> DEFINE new == [fields[f] EXCEPT !.by = fields[f].by \cup {"outsider"}]
    <3>1. new \in Entry /\ "outsider" \in new.by
      BY <1>0 DEF Entry, Managers
    <3>2. ForeignStep(f, new)
      BY <2>2 DEF OutsiderAgrees
    <3> QED BY <3>1, <3>2
  <2> QED BY <2>1, <2>2
<1>2. PICK f \in Field, new \in Entry : "outsider" \in new.by /\ ForeignStep(f, new)
  BY <1>1
<1>3. /\ budget.foreign > 0 /\ budget' = [budget EXCEPT !.foreign = @ - 1]
      /\ fields' = [fields EXCEPT ![f] = new]
      /\ synced' = FALSE /\ UNCHANGED <<builder, spec, fin>>
  BY <1>2 DEF ForeignStep
<1>4. budget' \in Budgets /\ budget' # budget
  BY <1>3, ManifestAssumption DEF ManifestInv, TypeOK, Budgets
<1>5. fields' \in [Field -> Entry]
  BY <1>0, <1>3
<1>6. \A g \in Field : fields'[g].by = {} => fields'[g].val = Unset
  BY <1>0, <1>2, <1>3
<1> QED BY <1>3, <1>4, <1>5, <1>6
LEMMA ManifestNext == ManifestInv /\ [Next]_vars => ManifestInv'
<1> SUFFICES ASSUME ManifestInv, [Next]_vars PROVE ManifestInv'
  OBVIOUS
<1>i. /\ builder \in Builders /\ spec \in Specs /\ fin \in BOOLEAN
      /\ fields \in [Field -> Entry] /\ synced \in BOOLEAN /\ budget \in Budgets
      /\ synced => fin
      /\ \A f \in Field : fields[f].by = {} => fields[f].val = Unset
  BY DEF ManifestInv, TypeOK, Specs, Entry, Budgets
<1>s. spec.count \in Counts /\ spec.opts \subseteq OptionsOf(builder)
  BY <1>i DEF Specs
\* In every step but ApplyTarget and stuttering the object is out of step.
<1>u. ASSUME builder' = builder, spec' \in Specs, fin' \in BOOLEAN,
             fields' \in [Field -> Entry], synced' \in BOOLEAN, budget' \in Budgets,
             synced' => fin',
             \A f \in Field : fields'[f].by = {} => fields'[f].val = Unset,
             synced' => MatchesManifest'
      PROVE  ManifestInv'
  <2>1. Field' = Field /\ Specs' = Specs /\ OptionsOf(builder)' = OptionsOf(builder)
    BY <1>u, SameBuilder DEF Specs
  <2>2. TypeOK'
    BY <1>i, <1>u, <2>1 DEF TypeOK, Specs, Entry, Budgets
  <2>3. MatchesManifest'
    BY <1>u DEF MatchesManifest
  <2> QED BY <1>u, <2>1, <2>2, <2>3 DEF ManifestInv
<1>1. CASE AddFinalizer
  <2>1. /\ ~fin /\ fin' = TRUE /\ spec' = [spec EXCEPT !.opts = Defaulted(Sent(spec.opts))]
        /\ UNCHANGED <<builder, fields, synced, budget>>
    BY <1>1 DEF AddFinalizer
  <2>2. spec' \in Specs
    BY <1>i, <1>s, <2>1, WriteBackOptions DEF Specs
  <2> QED BY <1>i, <1>u, <2>1, <2>2
<1>2. CASE ApplyTarget
  <2>1. /\ fin /\ fields' = ServerSideApply(BuildManifest(spec)) /\ synced' = TRUE
        /\ UNCHANGED <<builder, spec, fin, budget>>
    BY <1>2 DEF ApplyTarget
  <2>2. /\ fields' \in [Field -> Entry]
        /\ \A f \in Field :
             /\ f \in BuildManifest(spec) => fields'[f].val = ValueOf(f, spec)
             /\ fields'[f].by = {} => fields'[f].val = Unset
             /\ f \notin BuildManifest(spec) /\ fields'[f].val # Unset
                  => fields'[f].by = {"outsider"}
    BY <1>i, <1>s, <2>1, ApplyFacts
  <2>3. /\ Field' = Field /\ BuildManifest(spec)' = BuildManifest(spec)
        /\ \A f : ValueOf(f, spec)' = ValueOf(f, spec)
    BY <2>1, SameBuilder
  <2>4. MatchesManifest'
    BY <2>2, <2>3 DEF MatchesManifest
  <2> QED BY <1>i, <1>u, <2>1, <2>2, <2>4
<1>3. CASE \/ \E o \in OptionsOf(builder) : UserSets(o) \/ UserUnsets(o)
           \/ \E n \in Counts : UserScales(n)
  BY <1>i, <1>u, <1>3, UserEdits
<1>4. CASE \E f \in Field : OutsiderEdits(f) \/ OutsiderAgrees(f)
  BY <1>i, <1>u, <1>4, ForeignEdits
<1>5. CASE UNCHANGED vars
  <2>1. /\ UNCHANGED <<builder, spec, fin, fields, synced, budget>>
        /\ Field' = Field /\ BuildManifest(spec)' = BuildManifest(spec)
        /\ \A f : ValueOf(f, spec)' = ValueOf(f, spec)
    BY <1>5, SameBuilder DEF vars
  <2>2. MatchesManifest'
    BY <2>1 DEF MatchesManifest, ManifestInv
  <2> QED BY <1>i, <1>u, <2>1, <2>2
<1> QED BY <1>1, <1>2, <1>3, <1>4, <1>5 DEF Next

(***************************************************************************)
(* Theorems.                                                               *)
(***************************************************************************)
\* An object is in step only with a CR that has its finalizer, and no value
\* outlives its owners (reconciler.go:193-199, 258-268).
THEOREM ManifestInductive == Spec => []ManifestInv
<1> QED BY ManifestInit, ManifestNext, PTL DEF Spec

\* After an apply the object is what the CR asks for: fields of options that
\* were turned off are gone, or kept by an owner of their own, after any
\* edits of the CR and of the object (reconciler.go:258-268).
THEOREM AppliedMatches == Spec => []MatchesManifest
<1>1. ManifestInv => MatchesManifest
  BY DEF ManifestInv
<1> QED BY <1>1, ManifestInductive, PTL

\* Writing the CR back through its Go types, and whatever else the operator
\* does, leaves what will be applied as it was (reconciler.go:193-199, the
\* json tags and defaults of the types).
THEOREM RequestKept == Spec => WriteKeepsRequest
<1> DEFINE A == budget' = budget => BuildManifest(spec') = BuildManifest(spec)
<1>1. ManifestInv /\ [Next]_vars => [A]_vars
  <2> SUFFICES ASSUME ManifestInv, Next, budget' = budget
               PROVE  BuildManifest(spec') = BuildManifest(spec)
    OBVIOUS
  <2>1. CASE AddFinalizer
    <3>1. spec \in Specs /\ builder \in AllBuilders
      BY ManifestAssumption DEF ManifestInv, TypeOK, Specs
    <3>2. spec' = [spec EXCEPT !.opts = Defaulted(Sent(spec.opts))]
      BY <2>1 DEF AddFinalizer
    <3>3. spec'.count = spec.count /\ spec'.opts = Defaulted(Sent(spec.opts))
      BY <3>1, <3>2 DEF Specs
    <3>4. spec'.opts \ {"monitoring"} = spec.opts \ {"monitoring"}
      BY <3>3, WriteBackOptions
    <3> QED BY <3>1, <3>3, <3>4, StructIsSilent
  <2>2. CASE ApplyTarget
    BY <2>2 DEF ApplyTarget
  <2> QED BY <2>1, <2>2, UserEdits, ForeignEdits DEF Next
<1>2. Spec => [][A]_vars
  BY <1>1, ManifestInductive, PTL DEF Spec
<1> QED BY <1>2 DEF WriteKeepsRequest

\* Every option of every kind has its own mark in the manifest, so that an
\* edit of one, or of several at once, changes what is applied (BuildManifest
\* of the adapters, ingress.Build).
THEOREM EditsReachTarget == Spec => EditReachesTarget
<1> DEFINE A == PassedOn(spec') # PassedOn(spec) => BuildManifest(spec') # BuildManifest(spec)
<1>1. ManifestInv /\ ManifestInv' /\ [Next]_vars => [A]_vars
  <2> SUFFICES ASSUME ManifestInv, ManifestInv', Next PROVE A
    OBVIOUS
  <2>1. builder' = builder
    BY UserEdits, ForeignEdits DEF Next, AddFinalizer, ApplyTarget
  <2>2. builder \in AllBuilders /\ spec.opts \subseteq OptionsOf(builder)
    BY ManifestAssumption DEF ManifestInv, TypeOK
  <2>3. spec'.opts \subseteq OptionsOf(builder)
    BY <2>1, SameBuilder DEF ManifestInv, TypeOK
  <2> QED BY <2>2, <2>3, ManifestTellsOptions
<1>2. Spec => [][A]_vars
  BY <1>1, ManifestInductive, PTL DEF Spec
<1> QED BY <1>2 DEF EditReachesTarget
=============================================================================
