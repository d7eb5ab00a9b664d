------------------------------ MODULE Adapters ------------------------------
(***************************************************************************)
(* What the six adapters call things: the controller of each CR kind, the  *)
(* target it drives and the auxiliary objects it lists. All objects of a   *)
(* CR live in its namespace; an object is identified by its kind and its   *)
(* name, here the name of the CR followed by a suffix.                     *)
(***************************************************************************)
EXTENDS Sequences

\* The kinds, each with the name of its controller.
ControllerName ==
    [PostgresCluster |-> "postgrescluster", ValkeyCluster |-> "valkeycluster",
     GrafanaInstance |-> "grafanainstance", MariaDBCluster |-> "mariadbcluster",
     RabbitMQCluster |-> "rabbitmqcluster",
     PrometheusInstance |-> "prometheusinstance"]

\* GVK() of each adapter.
TargetKind ==
    [PostgresCluster |-> "Cluster", ValkeyCluster |-> "ValkeyCluster",
     GrafanaInstance |-> "Grafana", MariaDBCluster |-> "MariaDB",
     RabbitMQCluster |-> "RabbitmqCluster", PrometheusInstance |-> "Prometheus"]

\* TargetName() is the name of the CR.
TargetObject(kind, name) == <<TargetKind[kind], name, "">>

\* The Service is applied before the Ingress that routes to it.
PrometheusExtras(name) == << <<"Service", name, "-web">>, <<"Ingress", name, "-ingress">> >>

RabbitMQExtras(name) == << <<"Ingress", name, "-ingress">> >>

ValkeyExtras(name) == << <<"Service", name, "-external">> >>

\* Every auxiliary object the adapter of kind may want, in apply order; the
\* other adapters do not implement ExtraResourcesAdapter.
ExtraResources(kind, name) ==
    CASE kind = "PrometheusInstance" -> PrometheusExtras(name)
      [] kind = "RabbitMQCluster"    -> RabbitMQExtras(name)
      [] kind = "ValkeyCluster"      -> ValkeyExtras(name)
      [] OTHER                       -> << >>
=============================================================================
