--------------------------- MODULE KogitoService ---------------------------
(***************************************************************************)
(* The deployment of one Kogito service on OpenShift: the KogitoRuntime    *)
(* controller (controllers/common/runtime_controller.go) and the service   *)
(* deployer it runs (core/kogitoservice).  A pass collects what the        *)
(* service needs (its own ConfigMap, the user's ConfigMap and Secret, the  *)
(* references of its KogitoInfras, the image), applies it to a Deployment, *)
(* a Service and a Route, asks the running service what monitoring and     *)
(* messaging resources it wants, and reports all of this in the status.    *)
(* What follows for the protobuf files of the service, and the endpoints   *)
(* of other services, is the subject of SupportingServices.                *)
(*                                                                         *)
(* The controller watches the KogitoRuntime and what it owns as the        *)
(* controller; it watches neither the KogitoInfras nor the ImageStream.    *)
(* As in KogitoInfra, reads come from informer caches that lag behind, and *)
(* an update with a copy that is not current is a conflict.                *)
(***************************************************************************)
EXTENDS Naturals, Sequences, FiniteSets

CONSTANTS
  Specs,        \* the specs a user may give the KogitoRuntime
  Infras,       \* the KogitoInfras of the namespace
  InfraStates,  \* the states another controller may give each of them
  KindOf,       \* the kind of resource each of them binds
  UserObjects,  \* the ConfigMaps and Secrets of the user
  Images,       \* the images the tag of the ImageStream may stand for
  Groups,       \* the API groups of Prometheus and Grafana that are there
  Dashboards,   \* the Grafana dashboards that the running service lists
  Topics,       \* the topics that it lists
  Events,       \* the events it consumes on incoming topics
  None,         \* no name, no value
  MaxReplicas,  \* bound: replicas
  MaxTriggers,  \* bound: Knative triggers for one event
  MaxEdits,     \* bound: edits of the spec
  MaxChanges,   \* bound: changes of KogitoInfras, images, user objects
  MaxPodLosses, \* bound: pods that fail
  MaxFaults,    \* bound: failing API calls and requests to the service
  MaxCrashes,   \* bound: restarts of the operator
  MaxTotal,     \* bound: all of these together
  MaxLag        \* bound: informers that lag, once so many of these happened

Kinds == {"runtime", "config", "deployment", "service", "route", "stream", "extra", "infra"}

Values == {"v", "w"}
SpecType == [replicas : 0 .. MaxReplicas, config : Values, env : Values \cup {None},
             props : UserObjects \cup {None}, trust : UserObjects \cup {None},
             infra : Seq(Infras), route : BOOLEAN]

InfraType == [exists : BOOLEAN, configured : BOOLEAN, refs : SUBSET Values]

ASSUME ServiceAssumption ==
  /\ Specs # {} /\ Specs \subseteq SpecType
  /\ InfraStates \in [Infras -> SUBSET InfraType]
  /\ \A i \in Infras : InfraStates[i] # {}
  /\ KindOf \in [Infras -> {"Kafka", "Broker", "Other"}]
  /\ Groups \subseteq {"prometheus", "grafana"}
  /\ None \notin Values \cup UserObjects \cup Images

ASSUME ServiceBoundsAssumption ==
  /\ MaxReplicas \in Nat /\ MaxTriggers \in Nat /\ MaxEdits \in Nat
  /\ MaxChanges \in Nat /\ MaxPodLosses \in Nat /\ MaxFaults \in Nat
  /\ MaxCrashes \in Nat /\ MaxTotal \in Nat
  /\ MaxLag \in [0 .. MaxTotal -> Nat]

\* References to the ConfigMap of the service, to objects of the user and to
\* those of KogitoInfras.
Own == <<"own", "config">>
UserRef(o) == <<"user", o>>
InfraRef(i, v) == <<i, v>>
Refs == {Own} \cup {UserRef(o) : o \in UserObjects}
          \cup {InfraRef(i, v) : i \in Infras, v \in Values}

Mounted(names) == {UserRef(o) : o \in names \ {None}}

\* Environment variables: the one of the spec, the external URL, the name of
\* the trust store file, and the sink that Knative injects.
EnvNames == {"user", "url", "cert", "sink"}
NoEnv == [n \in EnvNames |-> None]
Env == [EnvNames -> Values \cup {"uri", "file", "broker", None}]

Deployments == [replicas : 0 .. MaxReplicas, image : Images, refs : SUBSET Refs, env : Env]
NoDeployment == [replicas |-> 0, image |-> None, refs |-> {}, env |-> NoEnv]

\* The ImageStream: a KogitoBuild may have made it before the service, which
\* then adds itself as an owner.
Streams == [exists : BOOLEAN, owned : BOOLEAN, failed : BOOLEAN]
NoStream == [exists |-> FALSE, owned |-> FALSE, failed |-> FALSE]

\* Objects made once for monitoring and messaging.
Extras == {"serviceMonitor", "sinkBinding"} \cup Dashboards \cup Topics

Errors == {"None", "ReconciliationFailure", "TrustStoreMountFailure",
           "KogitoInfraNotReady", "ProcessingImageStreamDelta", "ImageNotFound",
           "MonitoringIntegrationFailure", "MessagingProvisionFailure"}

\* The conditions Deployed, Provisioning (with its reason) and Failed (with
\* its reason), the image, the external URI and the events.
Statuses == {"Unset", "True", "False"}
StatusType ==
  [deployed : Statuses,
   provisioning : {"Unset", "InProgress", "Finished", "UnrecoverableError"},
   failed : Statuses, reason : Errors,
   image : Images \cup {None}, uri : {"uri", None}, events : SUBSET Events]
NoStatus == [deployed |-> "Unset", provisioning |-> "Unset", failed |-> "Unset",
             reason |-> "None", image |-> None, uri |-> None, events |-> {}]

VARIABLES
  spec,         \* the KogitoRuntime in the API server: its spec
  status,       \*   and its status
  config,       \* its ConfigMap with application properties, or None
  deployment,   \* its Deployment
  available,    \*   and the replicas of it that are available
  service,      \* its Service exists
  route,        \* its Route: absent, created, admitted or rejected
  stream,       \* its ImageStream, with its owner reference or without
  tag,          \* the image the tag of the ImageStream stands for, or None
  extras,       \* monitoring and messaging objects
  triggers,     \* the Knative triggers for each event
  infra,        \* the KogitoInfras
  user,         \* the user's objects: absent, present, or without the key
  cached,       \* the informer caches, a copy for each kind of object
  current,      \*   and the kinds whose copy is current
  passCurrent,  \* the copy of the KogitoRuntime in the pass is current
  queued,       \* there is a request in the work queue
  pass,         \* the reconcile pass being executed
  used          \* how much of each bound was used

ownedVars == <<config, deployment, available, service, route, stream>>
extraVars == <<extras, triggers>>
worldVars == <<tag, infra, user>>
cacheVars == <<cached, current>>
vars == <<spec, status, ownedVars, extraVars, worldVars, cacheVars, passCurrent,
          queued, pass, used>>

\* Kinds with an informer that puts requests into the queue.
Watched == {"runtime", "config", "deployment", "service", "route"}

Live(k) ==
  CASE k = "runtime"    -> [spec |-> spec, status |-> status]
    [] k = "config"     -> config
    [] k = "deployment" -> [spec |-> deployment, available |-> available]
    [] k = "service"    -> service
    [] k = "route"      -> route
    [] k = "stream"     -> stream
    [] k = "extra"      -> [extras |-> extras, triggers |-> triggers]
    [] k = "infra"      -> infra

IdlePass == [pc |-> "idle", spec |-> CHOOSE s \in Specs : TRUE, status |-> NoStatus,
             infras |-> << >>, seen |-> {}, refs |-> {}, image |-> None,
             todo |-> {}, error |-> "None", panics |-> FALSE]

\* A user created the KogitoRuntime, and nothing of it was made yet, but
\* maybe the ImageStream, by a KogitoBuild.
Init ==
  /\ spec \in Specs
  /\ status = NoStatus
  /\ config = None
  /\ deployment = NoDeployment
  /\ available = 0
  /\ service = FALSE
  /\ route = "absent"
  /\ stream \in {NoStream, [NoStream EXCEPT !.exists = TRUE]}
  /\ tag \in IF stream.exists THEN Images ELSE {None}
  /\ extras = {}
  /\ triggers = [e \in Events |-> 0]
  /\ infra \in {f \in [Infras -> InfraType] : \A i \in Infras : f[i] \in InfraStates[i]}
  /\ user \in [UserObjects -> {"absent", "noKey", "present"}]
  /\ cached = [k \in Kinds |-> Live(k)]
  /\ current = Kinds
  /\ passCurrent = FALSE
  /\ queued = TRUE
  /\ pass = IdlePass
  /\ used = [edits |-> 0, changes |-> 0, losses |-> 0, faults |-> 0, crashes |-> 0]

Total == used.edits + used.changes + used.losses + used.faults + used.crashes
Use(what, max) ==
  /\ used[what] < max
  /\ Total < MaxTotal
  /\ used' = [used EXCEPT ![what] = @ + 1]
Fault == Use("faults", MaxFaults)

-----------------------------------------------------------------------------
\* The reconcile pass.

\* The worker is at this place, and not too many informers lag.
At(pc) == pass.pc = pc /\ Cardinality(Kinds \ current) <= MaxLag[Total]
Goto(pc) == pass' = [pass EXCEPT !.pc = pc]
Fail(error) == pass' = [pass EXCEPT !.pc = "status", !.error = error]
Outdate(k) ==
  /\ current' = current \ {k}
  /\ Cardinality(Kinds \ current') <= MaxLag[Total] + 1

\* The worker takes the request and copies the KogitoRuntime from the cache.
FetchKogitoRuntimeInstance ==
  /\ At("idle") /\ queued
  /\ queued' = FALSE
  /\ pass' = [IdlePass EXCEPT !.pc = "rbac", !.spec = cached["runtime"].spec,
                              !.status = cached["runtime"].status]
  /\ passCurrent' = ("runtime" \in current)
  /\ UNCHANGED <<spec, status, ownedVars, extraVars, worldVars, cacheVars, used>>

\* The roles of all services of the namespace; an error ends the pass before
\* anything is reported.
SetupRBAC ==
  /\ At("rbac")
  /\ \/ Goto("config") /\ UNCHANGED <<queued, passCurrent, used>>
     \/ /\ Fault
        /\ pass' = IdlePass
        /\ passCurrent' = FALSE
        /\ queued' = TRUE
  /\ UNCHANGED <<spec, status, ownedVars, extraVars, worldVars, cacheVars>>

\* ProcessDelta for the one object of a kind.  A creation is refused when
\* the object is there, an update when it is gone or the copy not current.
Accepted(k, absent) ==
  IF cached[k] = absent THEN Live(k) = absent
                        ELSE k \in current /\ Live(k) # absent

\* Mutant: the ConfigMap is made, and never updated.
ConfigCreate ==
  /\ At("config")
  /\ IF cached["config"] = None /\ config = None
       THEN config' = pass.spec.config /\ Outdate("config")
       ELSE UNCHANGED <<config, current>>
  /\ pass' = [pass EXCEPT !.pc = "properties", !.refs = @ \cup {Own}]
  /\ UNCHANGED <<spec, status, deployment, available, service, route, stream,
                 extraVars, worldVars, cached, passCurrent, queued, used>>

\* The ConfigMap with the application properties of the spec.
ConfigReconcile ==
  /\ At("config")
  /\ LET same == cached["config"] = pass.spec.config
     IN \/ /\ same
           /\ pass' = [pass EXCEPT !.pc = "properties", !.refs = @ \cup {Own}]
           /\ UNCHANGED <<config, current, used>>
        \/ /\ ~same /\ Accepted("config", None)
           /\ config' = pass.spec.config
           /\ Outdate("config")
           /\ pass' = [pass EXCEPT !.pc = "properties", !.refs = @ \cup {Own}]
           /\ UNCHANGED used
        \/ /\ ~same /\ ~Accepted("config", None)
           /\ Fail("ReconciliationFailure")
           /\ UNCHANGED <<config, current, used>>
        \/ /\ ~same /\ Fault
           /\ Fail("ReconciliationFailure")
           /\ UNCHANGED <<config, current>>
  /\ UNCHANGED <<spec, status, deployment, available, service, route, stream,
                 extraVars, worldVars, cached, passCurrent, queued>>

\* The ConfigMap of the user that the spec names.
PropertiesConfigMapReconcile ==
  /\ At("properties")
  /\ LET o == pass.spec.props
     IN IF o # None /\ user[o] = "absent"
          THEN Fail("ReconciliationFailure")
          ELSE pass' = [pass EXCEPT !.pc = "truststore", !.refs = @ \cup Mounted({o})]
  /\ UNCHANGED <<spec, status, ownedVars, extraVars, worldVars, cacheVars,
                 passCurrent, queued, used>>

\* The trust store Secret, which must have the key of the file.
TrustStoreReconcile ==
  /\ At("truststore")
  /\ LET o == pass.spec.trust
     IN IF o # None /\ user[o] # "present"
          THEN Fail("TrustStoreMountFailure")
          ELSE pass' = [pass EXCEPT !.pc = "infra", !.infras = pass.spec.infra,
                                    !.refs = @ \cup Mounted({o})]
  /\ UNCHANGED <<spec, status, ownedVars, extraVars, worldVars, cacheVars,
                 passCurrent, queued, used>>

\* The next KogitoInfra of the spec: its references are taken from this copy.
FetchInfra ==
  /\ At("infra")
  /\ IF pass.infras = << >> THEN Goto("stream")
     ELSE LET i == Head(pass.infras)
              copy == cached["infra"][i]
          IN IF copy.exists
               THEN pass' = [pass EXCEPT !.pc = "ready",
                                         !.seen = {InfraRef(i, v) : v \in copy.refs}]
               ELSE Fail("ReconciliationFailure")
  /\ UNCHANGED <<spec, status, ownedVars, extraVars, worldVars, cacheVars,
                 passCurrent, queued, used>>

\* Mutant: a KogitoInfra need only exist.
InfraExists ==
  /\ At("ready")
  /\ pass' = [pass EXCEPT !.pc = "infra", !.infras = Tail(@), !.refs = @ \cup pass.seen,
                          !.seen = {}]
  /\ UNCHANGED <<spec, status, ownedVars, extraVars, worldVars, cacheVars,
                 passCurrent, queued, used>>

\* Whether it is ready is read from another copy.
CheckInfraDependencies ==
  /\ At("ready")
  /\ LET copy == cached["infra"][Head(pass.infras)]
     IN CASE copy.exists /\ copy.configured ->
               pass' = [pass EXCEPT !.pc = "infra", !.infras = Tail(@),
                                    !.refs = @ \cup pass.seen, !.seen = {}]
          [] copy.exists /\ ~copy.configured -> Fail("KogitoInfraNotReady")
          [] ~copy.exists -> Fail("ReconciliationFailure")
  /\ UNCHANGED <<spec, status, ownedVars, extraVars, worldVars, cacheVars,
                 passCurrent, queued, used>>

\* The ImageStream.  Whatever is done about it, the pass ends here and comes
\* back later.
ReconcileImageStream ==
  /\ At("stream")
  /\ LET same == cached["stream"].owned
     IN \/ same /\ Goto("image") /\ UNCHANGED <<stream, current, used>>
        \/ /\ ~same /\ Accepted("stream", NoStream)
           /\ stream' = [stream EXCEPT !.exists = TRUE, !.owned = TRUE]
           /\ Outdate("stream")
           /\ Fail("ProcessingImageStreamDelta")
           /\ UNCHANGED used
        \/ /\ ~same /\ ~Accepted("stream", NoStream)
           /\ Fail("ReconciliationFailure")
           /\ UNCHANGED <<stream, current, used>>
        \/ /\ ~same /\ Fault
           /\ Fail("ReconciliationFailure")
           /\ UNCHANGED <<stream, current>>
  /\ UNCHANGED <<spec, status, config, deployment, available, service, route,
                 extraVars, worldVars, cached, passCurrent, queued>>

\* Mutant: a tag without an image is not noticed.
ImageUnchecked ==
  /\ At("image")
  /\ pass' = [pass EXCEPT !.pc = "deployment", !.image = tag]
  /\ UNCHANGED <<spec, status, ownedVars, extraVars, worldVars, cacheVars,
                 passCurrent, queued, used>>

\* The image: from the tag itself, unless the copy of the ImageStream says
\* that the import failed.
ResolveImage ==
  /\ At("image")
  /\ \/ /\ UNCHANGED used
        /\ CASE cached["stream"].failed -> Fail("ReconciliationFailure")
             [] ~cached["stream"].failed /\ tag = None -> Fail("ImageNotFound")
             [] OTHER -> pass' = [pass EXCEPT !.pc = "deployment", !.image = tag]
     \/ Fault /\ Fail("ReconciliationFailure")
  /\ UNCHANGED <<spec, status, ownedVars, extraVars, worldVars, cacheVars,
                 passCurrent, queued>>

\* The Deployment that a spec asks for; the external URL comes from the
\* status.
RequestedEnv(s, uri) ==
  [user |-> s.env, url |-> uri, cert |-> IF s.trust = None THEN None ELSE "file",
   sink |-> None]
\* What is mounted already is not mounted again.
MountReferences(d, refs) == [d EXCEPT !.refs = @ \cup refs]
CreateDeployment(s, uri, image, refs) ==
  MountReferences([replicas |-> s.replicas, image |-> image, refs |-> {},
                   env |-> RequestedEnv(s, uri)], refs)

\* Mutant: variables of others are not taken over.
OnlyRequested(deployed, requested) == requested

\* DiffEnvVar and the comparator: when there are more variables in the
\* Deployment than requested, those that are not requested are taken over.
Set(env) == {n \in EnvNames : env[n] # None}
IgnoreInjectedVariables(deployed, requested) ==
  IF Cardinality(Set(deployed.env)) > Cardinality(Set(requested.env))
    THEN [requested EXCEPT !.env = [n \in EnvNames |-> IF @[n] = None THEN deployed.env[n]
                                                                    ELSE @[n]]]
    ELSE requested

\* The order of volumes does not count: references are sets.
CreateDeploymentComparator(deployed, requested) ==
  IgnoreInjectedVariables(deployed, requested) = deployed

\* The Deployment.  When the version of the server cannot be read, the code
\* dereferences nil: the deferred status update runs, and the process ends.
DeploymentReconcile ==
  /\ At("deployment")
  /\ LET copy == cached["deployment"].spec
         requested == CreateDeployment(pass.spec, pass.status.uri, pass.image, pass.refs)
         same == CreateDeploymentComparator(copy, requested)
         accepted == IF copy = NoDeployment
                       THEN deployment = NoDeployment
                       ELSE "deployment" \in current /\ deployment # NoDeployment
     IN \/ /\ same
           /\ Goto("service")
           /\ UNCHANGED <<deployment, current, used>>
        \/ /\ ~same /\ accepted
           /\ deployment' = IgnoreInjectedVariables(copy, requested)
           /\ Outdate("deployment")
           /\ Goto("service")
           /\ UNCHANGED used
        \/ /\ ~same /\ ~accepted
           /\ Fail("ReconciliationFailure")
           /\ UNCHANGED <<deployment, current, used>>
        \/ /\ ~same /\ Fault
           /\ Fail("ReconciliationFailure")
           /\ UNCHANGED <<deployment, current>>
        \/ /\ Fault
           /\ pass' = [pass EXCEPT !.pc = "status", !.panics = TRUE]
           /\ UNCHANGED <<deployment, current>>
  /\ UNCHANGED <<spec, status, config, available, service, route, stream,
                 extraVars, worldVars, cached, passCurrent, queued>>

\* The Service.  Its ports, selector and type are always the same.
SameService == cached["service"]
CreateService ==
  /\ ~service
  /\ service' = TRUE
  /\ Outdate("service")
ServiceReconcile ==
  /\ At("service")
  /\ \/ SameService /\ Goto("route") /\ UNCHANGED <<service, current, used>>
     \/ ~SameService /\ CreateService /\ Goto("route") /\ UNCHANGED used
     \/ /\ ~SameService /\ service
        /\ Fail("ReconciliationFailure")
        /\ UNCHANGED <<service, current, used>>
     \/ /\ ~SameService /\ Fault
        /\ Fail("ReconciliationFailure")
        /\ UNCHANGED <<service, current>>
  /\ UNCHANGED <<spec, status, config, deployment, available, route, stream,
                 extraVars, worldVars, cached, passCurrent, queued>>

\* The Route, if it is not disabled; an error is only logged.
CreateRoute ==
  /\ route = "absent"
  /\ route' = "created"
  /\ Outdate("route")
RouteReconcile ==
  /\ At("route")
  /\ LET create == pass.spec.route /\ cached["route"] = "absent"
     IN \/ (~create \/ route # "absent") /\ UNCHANGED <<route, current, used>>
        \/ create /\ CreateRoute /\ UNCHANGED used
        \/ create /\ Fault /\ UNCHANGED <<route, current>>
  /\ Goto("prometheus")
  /\ UNCHANGED <<spec, status, config, deployment, available, service, stream,
                 extraVars, worldVars, cached, passCurrent, queued>>

\* Monitoring and messaging go on once a pod is available.
IsDeploymentAvailable == cached["deployment"].available > 0

\* CreateIfNotExists for one object: it is taken from the list, or an error
\* ends the pass.
CreateIfNotExists(o, next, error) ==
  \/ /\ o \in cached["extra"].extras
     /\ next
     /\ UNCHANGED <<extraVars, current, used>>
  \/ /\ o \notin cached["extra"].extras /\ o \notin extras
     /\ extras' = extras \cup {o}
     /\ Outdate("extra")
     /\ next
     /\ UNCHANGED <<triggers, used>>
  \/ /\ o \notin cached["extra"].extras /\ o \in extras
     /\ Fail(error)
     /\ UNCHANGED <<extraVars, current, used>>
  \/ /\ o \notin cached["extra"].extras /\ Fault
     /\ Fail(error)
     /\ UNCHANGED <<extraVars, current>>

\* The ServiceMonitor, unless the service answers that it has no add-on for
\* it, or does not answer.
ConfigurePrometheus ==
  /\ At("prometheus")
  /\ LET asked == "prometheus" \in Groups /\ IsDeploymentAvailable
     IN \/ ~asked /\ Goto("grafana") /\ UNCHANGED <<extraVars, current, used>>
        \/ asked /\ CreateIfNotExists("serviceMonitor", Goto("grafana"),
                                     "MonitoringIntegrationFailure")
        \/ /\ asked /\ Fault
           /\ Goto("grafana") \/ Fail("MonitoringIntegrationFailure")
           /\ UNCHANGED <<extraVars, current>>
  /\ UNCHANGED <<spec, status, ownedVars, worldVars, cached, passCurrent, queued>>

\* The dashboards the service lists; one without the add-on lists none.
FetchGrafanaDashboards ==
  /\ At("grafana")
  /\ LET asked == "grafana" \in Groups /\ IsDeploymentAvailable
     IN \/ ~asked /\ Goto("kafka") /\ UNCHANGED used
        \/ /\ asked
           /\ pass' = [pass EXCEPT !.pc = "dashboards", !.todo = Dashboards]
           /\ UNCHANGED used
        \/ asked /\ Fault /\ Fail("MonitoringIntegrationFailure")
  /\ UNCHANGED <<spec, status, ownedVars, extraVars, worldVars, cacheVars,
                 passCurrent, queued>>

Done(o) == pass' = [pass EXCEPT !.todo = @ \ {o}]

DeployGrafanaDashboards ==
  /\ At("dashboards")
  /\ \/ pass.todo = {} /\ Goto("kafka") /\ UNCHANGED <<extraVars, current, used>>
     \/ \E o \in pass.todo :
          CreateIfNotExists(o, Done(o), "MonitoringIntegrationFailure")
  /\ UNCHANGED <<spec, status, ownedVars, worldVars, cached, passCurrent, queued>>

\* fetchInfraDependency: the KogitoInfras of the spec are fetched up to the
\* first of the kind; one that is missing is an error.
Position(kind) ==
  LET found == {n \in 1 .. Len(pass.spec.infra) : KindOf[pass.spec.infra[n]] = kind}
  IN IF found = {} THEN 0 ELSE CHOOSE n \in found : \A m \in found : n <= m
Missing(kind) ==
  \E n \in 1 .. (IF Position(kind) = 0 THEN Len(pass.spec.infra) ELSE Position(kind)) :
    ~cached["infra"][pass.spec.infra[n]].exists

\* What the running service lists is also the new status of its events; a
\* service without a pod lists nothing.
FetchTopics(pc, todo) ==
  \/ /\ ~IsDeploymentAvailable
     /\ pass' = [pass EXCEPT !.pc = pc, !.todo = {}, !.status.events = {}]
     /\ UNCHANGED used
  \/ /\ IsDeploymentAvailable
     /\ pass' = [pass EXCEPT !.pc = pc, !.todo = todo, !.status.events = Events]
     /\ UNCHANGED used
  \/ IsDeploymentAvailable /\ Fault /\ Fail("MessagingProvisionFailure")

\* The Kafka topics.  They are left alone when the ConfigMap with the address
\* of Kafka, which a KogitoInfra that is ready has, was lost.
KafkaMessaging ==
  /\ At("kafka")
  /\ \/ Missing("Kafka") /\ Fail("MessagingProvisionFailure") /\ UNCHANGED used
     \/ ~Missing("Kafka") /\ Position("Kafka") = 0 /\ Goto("knative") /\ UNCHANGED used
     \/ ~Missing("Kafka") /\ Position("Kafka") > 0 /\ FetchTopics("topics", Topics)
     \/ ~Missing("Kafka") /\ Position("Kafka") > 0 /\ Fault /\ Goto("knative")
  /\ UNCHANGED <<spec, status, ownedVars, extraVars, worldVars, cacheVars,
                 passCurrent, queued>>

CreateKafkaTopic(o) == CreateIfNotExists(o, Done(o), "MessagingProvisionFailure")
CreateRequiredKafkaTopics ==
  /\ At("topics")
  /\ \/ pass.todo = {} /\ Goto("knative") /\ UNCHANGED <<extraVars, current, used>>
     \/ \E o \in pass.todo : CreateKafkaTopic(o)
  /\ UNCHANGED <<spec, status, ownedVars, worldVars, cached, passCurrent, queued>>

\* The SinkBinding of a service bound to a Knative broker.
KnativeMessaging ==
  /\ At("knative")
  /\ \/ /\ Missing("Broker")
        /\ Fail("MessagingProvisionFailure")
        /\ UNCHANGED <<extraVars, current, used>>
     \/ /\ ~Missing("Broker") /\ Position("Broker") = 0
        /\ Goto("status")
        /\ UNCHANGED <<extraVars, current, used>>
     \/ /\ ~Missing("Broker") /\ Position("Broker") > 0
        /\ CreateIfNotExists("sinkBinding", Goto("events"), "MessagingProvisionFailure")
  /\ UNCHANGED <<spec, status, ownedVars, worldVars, cached, passCurrent, queued>>

FetchEvents ==
  /\ At("events")
  /\ FetchTopics("triggers", Events)
  /\ UNCHANGED <<spec, status, ownedVars, extraVars, worldVars, cacheVars,
                 passCurrent, queued>>

TriggerExists(e) == cached["extra"].triggers[e] > 0

\* A trigger for every event that has none in the cache; its name is random,
\* and no creation is refused.
CreateKnativeTriggersIfNotExists ==
  /\ At("triggers")
  /\ \/ pass.todo = {} /\ Goto("status") /\ UNCHANGED <<extraVars, current, used>>
     \/ \E e \in pass.todo :
          \/ /\ TriggerExists(e)
             /\ Done(e)
             /\ UNCHANGED <<extraVars, current, used>>
          \/ /\ ~TriggerExists(e) /\ triggers[e] < MaxTriggers
             /\ triggers' = [triggers EXCEPT ![e] = @ + 1]
             /\ Outdate("extra")
             /\ Done(e)
             /\ UNCHANGED <<extras, used>>
          \/ /\ ~TriggerExists(e) /\ Fault
             /\ Fail("MessagingProvisionFailure")
             /\ UNCHANGED <<extraVars, current>>
  /\ UNCHANGED <<spec, status, ownedVars, worldVars, cached, passCurrent, queued>>

-----------------------------------------------------------------------------
\* The status, and the end of the pass.

\* ReconciliationErrors: the pass waits for something.
IsReconciliationError(e) == e \notin {"None", "ReconciliationFailure"}

\* Mutant: Provisioning is left as it was.
FailedOnly(st, error, n) ==
  [st EXCEPT !.failed = "True", !.reason = error,
             !.deployed = IF n > 0 THEN "True" ELSE "False"]

SetFailedConditions(st, error, n) ==
  [st EXCEPT !.failed = "True", !.reason = error,
             !.provisioning = IF IsReconciliationError(error) THEN "InProgress"
                                                              ELSE "UnrecoverableError",
             !.deployed = IF n > 0 THEN "True" ELSE "False"]

\* Mutant: an earlier failure is not invalidated.
KeepFailed(st, expected, n) ==
  [st EXCEPT !.deployed = IF n > 0 THEN "True" ELSE "False",
             !.provisioning = IF n = expected THEN "Finished" ELSE "InProgress"]

InvalidateFailedCondition(st) ==
  [st EXCEPT !.failed = IF @ = "Unset" THEN @ ELSE "False"]

\* n replicas are available.  More than expected is no case of the code.
HandleConditionTransition(st, expected, n) ==
  LET ok == InvalidateFailedCondition(st)
  IN CASE n = expected -> [ok EXCEPT !.deployed = "True", !.provisioning = "Finished"]
       [] n # expected /\ n = 0 ->
            [ok EXCEPT !.deployed = "False", !.provisioning = "InProgress"]
       [] n > 0 /\ n < expected ->
            [ok EXCEPT !.deployed = "True", !.provisioning = "InProgress"]
       [] OTHER -> ok

UpdateImageStatus(st, d) == IF d = NoDeployment THEN st ELSE [st EXCEPT !.image = d.image]

\* The URI of a Route; that of a rejected one is not looked at.
ValidateRouteStatus(r) == r # "rejected"
UpdateRouteStatus(st, s, r) ==
  IF s.route /\ ValidateRouteStatus(r) /\ r # "absent" THEN [st EXCEPT !.uri = "uri"] ELSE st

FetchReadyReplicas == cached["deployment"].available

NewStatus ==
  IF pass.error # "None"
    THEN SetFailedConditions(pass.status, pass.error, FetchReadyReplicas)
    ELSE UpdateRouteStatus(
           UpdateImageStatus(
             HandleConditionTransition(pass.status, pass.spec.replicas, FetchReadyReplicas),
             cached["deployment"].spec),
           pass.spec, cached["route"])

\* Mutant: the status is written whatever the version of the copy.
OverwriteStatus ==
  /\ At("status")
  /\ status' = NewStatus
  /\ IF status' = status THEN UNCHANGED current ELSE Outdate("runtime")
  /\ pass' = IF pass.panics THEN [IdlePass EXCEPT !.pc = "panic"] ELSE IdlePass
  /\ passCurrent' = FALSE
  /\ queued' = (queued \/ pass.error # "None")
  /\ UNCHANGED <<spec, ownedVars, extraVars, worldVars, cached, used>>

\* Mutant: what is waited for does not bring the request back.
RetryFailures ==
  /\ At("status")
  /\ IF passCurrent THEN status' = NewStatus ELSE UNCHANGED status
  /\ IF status' = status THEN UNCHANGED current ELSE Outdate("runtime")
  /\ pass' = IF pass.panics THEN [IdlePass EXCEPT !.pc = "panic"] ELSE IdlePass
  /\ passCurrent' = FALSE
  /\ queued' = (queued \/ pass.error = "ReconciliationFailure")
  /\ UNCHANGED <<spec, ownedVars, extraVars, worldVars, cached, used>>

\* The deferred HandleStatusUpdate: a write that fails is only logged.  Then
\* the request comes back if there was an error.
HandleStatusUpdate ==
  /\ At("status")
  /\ \/ /\ passCurrent /\ status' = NewStatus
        /\ IF status' = status THEN UNCHANGED current ELSE Outdate("runtime")
        /\ UNCHANGED used
     \/ ~passCurrent /\ UNCHANGED <<status, current, used>>
     \/ Fault /\ UNCHANGED <<status, current>>
  /\ pass' = IF pass.panics THEN [IdlePass EXCEPT !.pc = "panic"] ELSE IdlePass
  /\ passCurrent' = FALSE
  /\ queued' = (queued \/ pass.error # "None")
  /\ UNCHANGED <<spec, ownedVars, extraVars, worldVars, cached>>

\* The operator starts anew: the pass is lost, the caches are listed again.
Afresh ==
  /\ pass' = IdlePass
  /\ passCurrent' = FALSE
  /\ cached' = [k \in Kinds |-> Live(k)]
  /\ current' = Kinds
  /\ queued' = TRUE
  /\ UNCHANGED <<spec, status, ownedVars, extraVars, worldVars>>

Exit == At("panic") /\ Afresh /\ UNCHANGED used

Working ==
  \/ FetchKogitoRuntimeInstance \/ SetupRBAC \/ ConfigReconcile
  \/ PropertiesConfigMapReconcile \/ TrustStoreReconcile
  \/ FetchInfra \/ CheckInfraDependencies
  \/ ReconcileImageStream \/ ResolveImage \/ DeploymentReconcile
  \/ ServiceReconcile \/ RouteReconcile
  \/ ConfigurePrometheus \/ FetchGrafanaDashboards \/ DeployGrafanaDashboards
  \/ KafkaMessaging \/ CreateRequiredKafkaTopics
  \/ KnativeMessaging \/ FetchEvents \/ CreateKnativeTriggersIfNotExists
  \/ HandleStatusUpdate \/ Exit

-----------------------------------------------------------------------------
\* The environment.

\* A user edits the spec.
EditSpec ==
  /\ Use("edits", MaxEdits)
  /\ spec' \in Specs \ {spec}
  /\ Outdate("runtime")
  /\ passCurrent' = FALSE
  /\ UNCHANGED <<status, ownedVars, extraVars, worldVars, cached, queued, pass>>

\* A KogitoInfra is reconciled or deleted; an object of the user comes, goes
\* or changes.
ChangeInfra ==
  /\ Use("changes", MaxChanges)
  /\ \E i \in Infras : \E s \in InfraStates[i] \ {infra[i]} : infra' = [infra EXCEPT ![i] = s]
  /\ Outdate("infra")
  /\ UNCHANGED <<spec, status, ownedVars, extraVars, tag, user, cached, passCurrent,
                 queued, pass>>

ChangeUserObject ==
  /\ Use("changes", MaxChanges)
  /\ \E o \in UserObjects : \E s \in {"absent", "noKey", "present"} \ {user[o]} :
       user' = [user EXCEPT ![o] = s]
  /\ UNCHANGED <<spec, status, ownedVars, extraVars, tag, infra, cacheVars,
                 passCurrent, queued, pass>>

\* OpenShift imports an image for the tag, or fails to.  The first import is
\* no change.
ImportImage ==
  /\ stream.exists
  /\ \/ /\ tag' \in Images \ {tag}
        /\ stream' = [stream EXCEPT !.failed = FALSE]
        /\ IF tag = None THEN UNCHANGED used ELSE Use("changes", MaxChanges)
     \/ /\ ~stream.failed
        /\ stream' = [stream EXCEPT !.failed = TRUE]
        /\ Use("changes", MaxChanges)
        /\ UNCHANGED tag
  /\ Outdate("stream")
  /\ UNCHANGED <<spec, status, config, deployment, available, service, route,
                 extraVars, infra, user, cached, passCurrent, queued, pass>>

DeploymentChanges ==
  /\ Outdate("deployment")
  /\ UNCHANGED <<spec, status, config, service, route, stream, extraVars, worldVars,
                 cached, passCurrent, queued, pass>>

\* The image trigger of OpenShift sets the image of the Deployment, and
\* Knative its sink.
TriggerImage ==
  /\ deployment # NoDeployment /\ tag # None /\ deployment.image # tag
  /\ deployment' = [deployment EXCEPT !.image = tag]
  /\ DeploymentChanges
  /\ UNCHANGED <<available, used>>

InjectSink ==
  /\ deployment # NoDeployment /\ "sinkBinding" \in extras
  /\ deployment.env["sink"] = None
  /\ deployment' = [deployment EXCEPT !.env["sink"] = "broker"]
  /\ DeploymentChanges
  /\ UNCHANGED <<available, used>>

\* Pods come and go until they are as many as the Deployment wants.
ScalePods ==
  /\ \/ available < deployment.replicas /\ available' = available + 1
     \/ available > deployment.replicas /\ available' = available - 1
  /\ DeploymentChanges
  /\ UNCHANGED <<deployment, used>>

LosePod ==
  /\ available > 0
  /\ Use("losses", MaxPodLosses)
  /\ available' = available - 1
  /\ DeploymentChanges
  /\ UNCHANGED deployment

\* The router admits a Route or rejects it.
AdmitRoute ==
  /\ route = "created"
  /\ route' \in {"admitted", "rejected"}
  /\ Outdate("route")
  /\ UNCHANGED <<spec, status, config, deployment, available, service, stream,
                 extraVars, worldVars, cached, passCurrent, queued, pass, used>>

\* Someone deletes an object of the service.
DeleteOwned ==
  /\ Use("changes", MaxChanges)
  /\ \/ /\ config # None /\ config' = None
        /\ Outdate("config")
        /\ UNCHANGED <<deployment, available, service, route>>
     \/ /\ deployment # NoDeployment /\ deployment' = NoDeployment /\ available' = 0
        /\ Outdate("deployment")
        /\ UNCHANGED <<config, service, route>>
     \/ /\ service /\ service' = FALSE
        /\ Outdate("service")
        /\ UNCHANGED <<config, deployment, available, route>>
     \/ /\ route # "absent" /\ route' = "absent"
        /\ Outdate("route")
        /\ UNCHANGED <<config, deployment, available, service>>
  /\ UNCHANGED <<spec, status, stream, extraVars, worldVars, cached, passCurrent,
                 queued, pass>>

\* An informer catches up.
Sync(k) ==
  /\ k \notin current
  /\ cached' = [cached EXCEPT ![k] = Live(k)]
  /\ current' = current \cup {k}
  /\ queued' = (queued \/ k \in Watched)
  /\ UNCHANGED <<spec, status, ownedVars, extraVars, worldVars, passCurrent, pass, used>>

\* The periodic resynchronisation of the informers.
Resync ==
  /\ queued' = TRUE
  /\ UNCHANGED <<spec, status, ownedVars, extraVars, worldVars, cacheVars,
                 passCurrent, pass, used>>

Restart == Use("crashes", MaxCrashes) /\ Afresh

Environment ==
  \/ EditSpec \/ ChangeInfra \/ ChangeUserObject \/ ImportImage \/ TriggerImage
  \/ InjectSink \/ ScalePods \/ LosePod \/ AdmitRoute \/ DeleteOwned \/ Resync \/ Restart

Next == Working \/ Environment \/ \E k \in Kinds : Sync(k)

Spec == Init /\ [][Next]_vars

\* The worker and the informers go on, and so do the controllers of
\* Deployments and SinkBindings.
Fairness ==
  /\ WF_vars(Working)
  /\ \A k \in Kinds : WF_vars(Sync(k))
  /\ WF_vars(ScalePods)
  /\ WF_vars(InjectSink)
FairSpec == Spec /\ Fairness

-----------------------------------------------------------------------------
\* Properties.

CachedType(k, c) ==
  CASE k = "runtime"    -> c \in [spec : Specs, status : StatusType]
    [] k = "config"     -> c \in Values \cup {None}
    [] k = "deployment" -> c \in [spec : Deployments \cup {NoDeployment},
                                  available : 0 .. MaxReplicas]
    [] k = "service"    -> c \in BOOLEAN
    [] k = "route"      -> c \in {"absent", "created", "admitted", "rejected"}
    [] k = "stream"     -> c \in Streams
    [] k = "extra"      -> c \in [extras : SUBSET Extras,
                                  triggers : [Events -> 0 .. MaxTriggers]]
    [] k = "infra"      -> c \in [Infras -> InfraType]

PCs == {"idle", "rbac", "config", "properties", "truststore", "infra", "ready",
        "stream", "image", "deployment", "service", "route", "prometheus", "grafana",
        "dashboards", "kafka", "topics", "knative", "events", "triggers", "status",
        "panic"}
PassType ==
  [pc : PCs, spec : Specs, status : StatusType, infras : Seq(Infras), seen : SUBSET Refs,
   refs : SUBSET Refs, image : Images \cup {None}, todo : SUBSET (Extras \cup Events),
   error : Errors, panics : BOOLEAN]

\* The variables have their types.
TypeOK ==
  /\ spec \in Specs /\ status \in StatusType
  /\ \A k \in Kinds : CachedType(k, Live(k)) /\ CachedType(k, cached[k])
  /\ tag \in Images \cup {None}
  /\ user \in [UserObjects -> {"absent", "noKey", "present"}]
  /\ current \subseteq Kinds
  /\ passCurrent \in BOOLEAN /\ queued \in BOOLEAN
  /\ pass \in PassType
  /\ used \in [edits : 0 .. MaxEdits, changes : 0 .. MaxChanges, losses : 0 .. MaxPodLosses,
               faults : 0 .. MaxFaults, crashes : 0 .. MaxCrashes]

\* Provisioning is not reported finished while the service is reported
\* failed or without a pod (status.go, setFailedConditions and
\* handleConditionTransition).
FinishedIsDeployed ==
  status.provisioning = "Finished" => status.deployed = "True" /\ status.failed # "True"

\* The URL in the Deployment is one that was reported, and is still reported:
\* no pass overwrites the status from an older copy (runtime_deployer.go,
\* OnDeploymentCreate; status.go, updateRouteStatus).
UrlIsReported == deployment.env["url"] # None => status.uri = deployment.env["url"]

InfraSeq(s) == {s.infra[n] : n \in 1 .. Len(s.infra)}

\* Nothing is missing that the spec asks for.
InfraReady(i) == infra[i].exists /\ infra[i].configured
Ready ==
  /\ tag # None /\ ~stream.failed
  /\ spec.props # None => user[spec.props] # "absent"
  /\ spec.trust # None => user[spec.trust] = "present"
  /\ \A i \in InfraSeq(spec) : InfraReady(i)

\* The objects are as the spec asks, possibly with more variables.
Wanted ==
  CreateDeployment(spec, status.uri, tag,
    {Own} \cup Mounted({spec.props, spec.trust})
      \cup UNION {{InfraRef(i, v) : v \in infra[i].refs} : i \in InfraSeq(spec)})
Matches ==
  /\ config = spec.config /\ service /\ (spec.route => route # "absent")
  /\ [deployment EXCEPT !.env = NoEnv] = [Wanted EXCEPT !.env = NoEnv]
  /\ \A n \in Set(Wanted.env) : deployment.env[n] = Wanted.env[n]

Resyncs == WF_vars(Resync)

\* Once nothing is missing, the objects become what the spec asks for and
\* stay so, given the periodic resynchronisation: changes of a KogitoInfra
\* are not watched, and failures to create a Route are only logged.
ObjectsSettle == (Resyncs /\ <>[]Ready) => <>[]Matches

\* And the status says that all went well, with the URI of the Route.
Settled ==
  /\ status.deployed = "True" /\ status.provisioning = "Finished" /\ status.failed # "True"
  /\ status.image = deployment.image
  /\ spec.route /\ route = "admitted" => status.uri = "uri"
StatusSettles == (Resyncs /\ <>[]Ready) => <>[]Settled

\* A failure that has gone is not reported for ever: every pass that fails
\* comes back (reconciliation_error.go, GetReconcileResultFor), so this needs
\* no resynchronisation.
FailureClears == <>[]Ready => <>[](status.failed # "True")

\* A KogitoInfra that is not ready is reported as a failure.
WaitingIsReported ==
  (Resyncs /\ <>[](\E i \in InfraSeq(spec) : ~InfraReady(i))) => <>[](status.failed = "True")

\* The operator and the controllers that change its Deployment come to rest:
\* none undoes for ever what another did (comparator.go,
\* ignoreInjectedVariables).
DeploymentRests == <>[][deployment' = deployment]_vars

============================================================================
