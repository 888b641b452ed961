------------------------ MODULE SupportingServices ------------------------
(***************************************************************************)
(* The services of one namespace and how they find each other.  A          *)
(* KogitoSupportingService (Data Index, Jobs Service, Trusty, consoles)    *)
(* that serves others publishes its address in an endpoint ConfigMap,      *)
(* which is injected into the Deployments of KogitoRuntimes, of users who  *)
(* annotated their own, and of consoles.  A KogitoRuntime publishes its    *)
(* protobuf files in a ConfigMap, which is mounted on the Data Index.      *)
(*                                                                         *)
(* Three controllers write the same Deployments, each with one worker:     *)
(* controllers/common/supportingservice_controller.go, runtime_controller  *)
(* and runtimedeployment_controller.  A step is one call to the API server *)
(* or a group of reads that no step of the same controller separates.  An  *)
(* update with a copy that is not current is a conflict.  What else the    *)
(* service deployer does for one service is the subject of KogitoService.  *)
(***************************************************************************)
EXTENDS Naturals, FiniteSets

CONSTANTS
  Services,    \* the names of KogitoSupportingServices
  TypeOf,      \*   and their types
  Runtimes,    \* the names of KogitoRuntimes
  Plain,       \* annotated Deployments of users
  Files,       \* the protobuf files of a KogitoRuntime
  None,        \* no object
  MaxChanges,  \* bound: what users create, delete and change
  MaxFaults,   \* bound: failing calls
  MaxCrashes   \* bound: restarts of the operator from outside

Types == {"DataIndex", "Explainability", "JobsService", "MgmtConsole",
          "TaskConsole", "TrustyAI", "TrustyUI"}

ASSUME NamesAssumption ==
  /\ TypeOf \in [Services -> Types]
  /\ Services \cap Runtimes = {} /\ Services \cap Plain = {} /\ Runtimes \cap Plain = {}
  /\ None \notin Services \cup Runtimes \cup Plain
  /\ IsFiniteSet(Services)

ASSUME BoundsAssumption == MaxChanges \in Nat /\ MaxFaults \in Nat /\ MaxCrashes \in Nat

Owners == Services \cup Runtimes
Annotated == Runtimes \cup Plain
Named == Services \cup Annotated

\* A Deployment: the endpoint ConfigMaps in its environment, the protobuf
\* files mounted, and whether it is told to watch them.  It is owned when the
\* object it was made for still exists.
Deployments ==
  [exists : BOOLEAN, owned : BOOLEAN, envFrom : SUBSET Services,
   mounts : SUBSET (Runtimes \X Files), watch : BOOLEAN]
NoDeployment ==
  [exists |-> FALSE, owned |-> FALSE, envFrom |-> {}, mounts |-> {}, watch |-> FALSE]

Controllers == {"supporting", "runtime", "deployment"}

\* The pass of a controller: where it is, for which object, whether that
\* object was deleted since it was read, the Deployment it wants, and a list
\* it read.
Positions == {"idle", "read", "deploy", "endpoint", "inject", "console", "update",
              "protobuf", "volume"}
Passes == [pc : Positions, key : Named \cup {None}, gone : BOOLEAN,
           want : Deployments, listed : SUBSET Runtimes]
Idle == [pc |-> "idle", key |-> None, gone |-> FALSE, want |-> NoDeployment, listed |-> {}]

VARIABLES
  exists,      \* the KogitoSupportingServices and KogitoRuntimes that exist
  deployment,  \* the Deployments of the namespace
  available,   \*   and those of KogitoRuntimes with a pod that answers
  endpoint,    \* the endpoint ConfigMap of each service
  protobuf,    \* the protobuf ConfigMap of each KogitoRuntime
  served,      \* the protobuf files each KogitoRuntime serves
  queue,       \* the work queue of each controller
  pass,        \*   and its pass
  held,        \* the Deployments each pass holds copies of
  current,     \*   and the copies that are current
  used         \* how much of each bound was used

cluster == <<exists, deployment, available, endpoint, protobuf, served>>
vars == <<cluster, queue, pass, held, current, used>>

Existence == {"absent", "owned", "orphan"}
TypeOK ==
  /\ exists \subseteq Owners
  /\ deployment \in [Named -> Deployments]
  /\ available \subseteq Runtimes
  /\ endpoint \in [Services -> Existence]
  /\ protobuf \in [Runtimes -> [files : SUBSET Files, owned : BOOLEAN]]
  /\ served \in [Runtimes -> SUBSET Files]
  /\ queue \in [Controllers -> SUBSET Named]
  /\ pass \in [Controllers -> Passes]
  /\ held = [c \in Controllers |-> held[c]]
  /\ \A c \in Controllers :
       /\ DOMAIN held[c] \subseteq Named
       /\ held[c] \in [DOMAIN held[c] -> Deployments]
  /\ current \in [Controllers -> SUBSET Named]
  /\ \A c \in Controllers : current[c] \subseteq DOMAIN held[c]
  /\ used \in [changes : 0 .. MaxChanges, faults : 0 .. MaxFaults, crashes : 0 .. MaxCrashes]

NoProtobuf == [files |-> {}, owned |-> FALSE]
NoCopies == [d \in {} |-> NoDeployment]

\* A request for every object there is.
AllRequests ==
  [c \in Controllers |->
     CASE c = "supporting" -> exists \cap Services
       [] c = "runtime"    -> exists \cap Runtimes
       [] c = "deployment" -> {d \in Annotated : deployment[d].exists}]

\* At first nothing is deployed but the Deployments of users.
Init ==
  /\ exists \in SUBSET Owners
  /\ deployment = [d \in Named |->
                     [NoDeployment EXCEPT !.exists = d \in Plain, !.owned = d \in Plain]]
  /\ available = {}
  /\ endpoint = [s \in Services |-> "absent"]
  /\ protobuf = [r \in Runtimes |-> NoProtobuf]
  /\ served \in [Runtimes -> SUBSET Files]
  /\ queue = AllRequests
  /\ pass = [c \in Controllers |-> Idle]
  /\ held = [c \in Controllers |-> NoCopies]
  /\ current = [c \in Controllers |-> {}]
  /\ used = [changes |-> 0, faults |-> 0, crashes |-> 0]

-----------------------------------------------------------------------------
(***************************************************************************)
(* The API server, the watches and the passes.                             *)
(***************************************************************************)

\* The requests that an event of the objects named D puts into the queues:
\* each of the three controllers watches Deployments of its own.
Notify(q, D) ==
  [q EXCEPT !["supporting"] = @ \cup (D \cap Services),
            !["runtime"] = @ \cup (D \cap Runtimes),
            !["deployment"] = @ \cup (D \cap Annotated)]

\* A request for the owner of a ConfigMap or of an instance.
NotifyOwner(k) ==
  queue' = [queue EXCEPT !["supporting"] = @ \cup ({k} \cap Services),
                         !["runtime"] = @ \cup ({k} \cap Runtimes)]

\* The writer c makes the Deployment d new.  Unless nothing changed, the copies
\* that others hold are not current any more.
Change(c, d, new) ==
  /\ deployment' = [deployment EXCEPT ![d] = new]
  /\ queue' = IF new = deployment[d] THEN queue ELSE Notify(queue, {d})
  /\ current' = [e \in Controllers |->
                   IF e = c \/ new # deployment[d] THEN current[e] \ {d} ELSE current[e]]

Go(c, pc) == pass' = [pass EXCEPT ![c].pc = pc]

End(c) == pass' = [pass EXCEPT ![c] = Idle]

Drop(c) == held' = [held EXCEPT ![c] = NoCopies]

\* The pass fails: the request returns to the queue.
Retry(c) ==
  /\ End(c) /\ Drop(c)
  /\ current' = [current EXCEPT ![c] = {}]
  /\ queue' = [queue EXCEPT ![c] = @ \cup {pass[c].key}]
  /\ UNCHANGED <<cluster, used>>

Done(c) ==
  /\ End(c) /\ Drop(c)
  /\ current' = [current EXCEPT ![c] = {}]
  /\ UNCHANGED <<cluster, queue, used>>

\* The pass takes copies of the Deployments D.
Hold(c, D) ==
  /\ held' = [held EXCEPT ![c] = [d \in D |-> deployment[d]]]
  /\ current' = [current EXCEPT ![c] = D]

\* A panic ends the process; a new one starts with a request for every object.
Restart ==
  /\ pass' = [c \in Controllers |-> Idle]
  /\ held' = [c \in Controllers |-> NoCopies]
  /\ current' = [c \in Controllers |-> {}]
  /\ queue' = AllRequests
  /\ UNCHANGED cluster

-----------------------------------------------------------------------------
(***************************************************************************)
(* Managers: what the controllers look up.                                 *)
(***************************************************************************)
OfType(t) == {s \in exists \cap Services : TypeOf[s] = t}

\* Mutant: one service too many.
DuplicatesOfThree(t) == Cardinality(OfType(t)) > 2

Duplicates(t) == Cardinality(OfType(t)) > 1

EnsureSingletonService(s) == s \in exists => ~Duplicates(TypeOf[s])

\* The first service of the type in a list of the informer cache, which has
\* no order.
FetchKogitoSupportingServiceForServiceType(t) ==
  IF OfType(t) = {} THEN {None} ELSE OfType(t)

\* The Deployment that such a service owns.
FetchKogitoSupportingServiceDeployment(t) ==
  {IF s # None /\ deployment[s].exists /\ deployment[s].owned THEN s ELSE None :
     s \in FetchKogitoSupportingServiceForServiceType(t)}

FetchEndPointConfigMap(s) == s # None /\ endpoint[s] # "absent"

\* Mutant: a service that was not found is used.
InjectEndpointsUnchecked(types) ==
  {{chosen[t] : t \in types} :
     chosen \in {f \in [types -> Services \cup {None}] :
                   \A t \in types : f[t] \in FetchKogitoSupportingServiceForServiceType(t)}}

\* The endpoints, at most one for each type, that may be injected.
InjectEndpoints(types) ==
  {{s \in Services : FetchEndPointConfigMap(s) /\ \E t \in types : chosen[t] = s} :
     chosen \in {f \in [types -> Services \cup {None}] :
                   \A t \in types : f[t] \in FetchKogitoSupportingServiceForServiceType(t)}}

\* Mutant: the management console is left to find the Data Index by itself.
DataIndexForRuntimes ==
  [reads |-> {}, protobufs |-> TRUE, publishes |-> TRUE, injects |-> {}]

\* What the pass for a service of each type does: the types whose endpoint it
\* puts into the Deployment, whether it mounts protobuf files, whether it
\* publishes an endpoint, and the types it injects that into besides runtimes.
DataIndexReconcile ==
  [reads |-> {}, protobufs |-> TRUE, publishes |-> TRUE, injects |-> {"MgmtConsole"}]
ExplainabilityReconcile ==
  [reads |-> {}, protobufs |-> FALSE, publishes |-> FALSE, injects |-> {}]
JobsServiceReconcile ==
  [reads |-> {}, protobufs |-> FALSE, publishes |-> TRUE, injects |-> {}]
MgmtConsoleReconcile ==
  [reads |-> {"DataIndex"}, protobufs |-> FALSE, publishes |-> FALSE, injects |-> {}]
TaskConsoleReconcile ==
  [reads |-> {"DataIndex"}, protobufs |-> FALSE, publishes |-> FALSE, injects |-> {}]
TrustyAIReconcile ==
  [reads |-> {}, protobufs |-> FALSE, publishes |-> TRUE, injects |-> {}]
TrustyUIReconcile ==
  [reads |-> {"TrustyAI"}, protobufs |-> FALSE, publishes |-> FALSE, injects |-> {}]

GetSupportedResources ==
  [DataIndex |-> DataIndexReconcile, Explainability |-> ExplainabilityReconcile,
   JobsService |-> JobsServiceReconcile, MgmtConsole |-> MgmtConsoleReconcile,
   TaskConsole |-> TaskConsoleReconcile, TrustyAI |-> TrustyAIReconcile,
   TrustyUI |-> TrustyUIReconcile]
GetSupportingServiceReconciler(s) == GetSupportedResources[TypeOf[s]]

\* The types whose endpoint the Deployment made for k reads.
RuntimeReads == {"DataIndex", "JobsService", "TrustyAI"}

\* Mutant: runtimes are deployed without the hook.
OnServiceCreate(k) == IF k \in Runtimes THEN {} ELSE GetSupportingServiceReconciler(k).reads

OnDeploymentCreate(k) ==
  IF k \in Runtimes THEN RuntimeReads ELSE GetSupportingServiceReconciler(k).reads

FetchProtoBufConfigMap(r) == {p \in {r} : protobuf[p].files # {}}
FetchAllProtoBufConfigMaps == UNION {FetchProtoBufConfigMap(r) : r \in Runtimes}

FetchDeployment(k) == {d \in {k} : deployment[d].exists}
FetchKogitoRuntimeDeployments == {d \in Annotated : deployment[d].exists}

MountAsEnvFrom(d, endpoints) == [d EXCEPT !.envFrom = @ \cup endpoints]
MountAsVolume(d, r) == [d EXCEPT !.mounts = @ \cup ({r} \X protobuf[r].files)]

\* Mutant: the Data Index is not told to watch the files.
UpdateWithoutWatch(d) == d

UpdateProtoBufPropInToDeploymentEnv(d) == [d EXCEPT !.watch = TRUE]

-----------------------------------------------------------------------------
(***************************************************************************)
(* The service deployer, as both controllers of services run it.           *)
(***************************************************************************)

\* A pass of c for k begins with the endpoints of the new Deployment; the Data
\* Index also lists the protobuf ConfigMaps.
CreateDeployment(c, k) ==
  \E envFrom \in InjectEndpoints(OnDeploymentCreate(k)) :
    pass' = [pass EXCEPT ![c] =
               [pc |-> "read", key |-> k, gone |-> FALSE,
                want |-> [NoDeployment EXCEPT !.exists = TRUE, !.envFrom = envFrom],
                listed |-> IF k \in Services /\ GetSupportingServiceReconciler(k).protobufs
                           THEN FetchAllProtoBufConfigMaps ELSE {}]]

\* Each ConfigMap listed is read to mount its files, then the Deployment in the
\* cluster is read.  A ConfigMap that is gone is used nevertheless.
MountAllProtoBufConfigMaps(c) ==
  LET listed == pass[c].listed IN
  /\ pass[c].pc = "read" /\ listed \subseteq FetchAllProtoBufConfigMaps
  /\ pass' = [pass EXCEPT ![c].pc = "deploy", ![c].listed = {},
                          ![c].want.mounts = UNION {{r} \X protobuf[r].files : r \in listed}]
  /\ Hold(c, FetchDeployment(pass[c].key))
  /\ UNCHANGED <<cluster, queue, used>>

MountPanics(c) ==
  /\ pass[c].pc = "read" /\ ~(pass[c].listed \subseteq FetchAllProtoBufConfigMaps)
  /\ Restart /\ UNCHANGED used

\* The comparator looks at what is requested and keeps variables that others
\* added; it does not look at owners.
ProcessDelta(c) ==
  LET k == pass[c].key
      want == pass[c].want
      new == [want EXCEPT !.owned = ~pass[c].gone,
                          !.watch = k \in DOMAIN held[c] /\ held[c][k].watch]
      same == k \in DOMAIN held[c] /\ held[c][k].envFrom = want.envFrom
                /\ held[c][k].mounts = want.mounts
      next == CASE k \in Runtimes -> "protobuf"
                [] k \in Services /\ GetSupportingServiceReconciler(k).publishes -> "endpoint"
                [] OTHER -> "idle"
  IN
  /\ pass[c].pc = "deploy"
  /\ \/ /\ same \/ k \notin DOMAIN held[c] \/ k \in current[c]
        /\ IF same THEN UNCHANGED <<deployment, queue>> /\ current' = [current EXCEPT ![c] = {}]
                ELSE Change(c, k, new)
        /\ pass' = [pass EXCEPT ![c] = IF next = "idle" THEN Idle
                                       ELSE [@ EXCEPT !.pc = next, !.want = NoDeployment]]
        /\ Drop(c)
        /\ UNCHANGED <<exists, available, endpoint, protobuf, served, used>>
     \/ /\ ~same /\ k \in DOMAIN held[c] \ current[c]
        /\ Retry(c)

\* An update of the Deployment d with the copy the pass holds, changed to new.
\* It names the same owner as before.
Update(c, d, new) ==
  /\ d \in current[c]
  /\ Change(c, d, [new EXCEPT !.owned = deployment[d].owned])
  /\ UNCHANGED <<exists, available, endpoint, protobuf, served, used>>

-----------------------------------------------------------------------------
(***************************************************************************)
(* The KogitoSupportingService controller.                                 *)
(***************************************************************************)
\* The instance is read and its type must be unique: with a second service of
\* the type the pass fails, for both of them.
ReconcileService(s) ==
  /\ pass["supporting"].pc = "idle" /\ s \in queue["supporting"]
  /\ queue' = [queue EXCEPT !["supporting"] = IF EnsureSingletonService(s) THEN @ \ {s} ELSE @]
  /\ IF s \in exists /\ EnsureSingletonService(s)
     THEN CreateDeployment("supporting", s)
     ELSE UNCHANGED pass
  /\ UNCHANGED <<cluster, held, current, used>>

\* After the Deployments of runtimes the Data Index turns to the console.
AfterRuntimes(c) ==
  IF GetSupportingServiceReconciler(pass[c].key).injects # {} THEN Go(c, "console") ELSE End(c)

\* The endpoint ConfigMap is made when there is none; one that an earlier
\* instance left has the same content and stays.  Then the Deployments with the
\* annotation of runtimes are listed.
ReconcileEndpoint ==
  LET c == "supporting"
      s == pass[c].key
      found == FetchKogitoRuntimeDeployments
  IN
  /\ pass[c].pc = "endpoint"
  /\ endpoint' = [endpoint EXCEPT ![s] =
                     IF @ # "absent" THEN @ ELSE IF pass[c].gone THEN "orphan" ELSE "owned"]
  /\ IF endpoint[s] = "absent" THEN NotifyOwner(s) ELSE UNCHANGED queue
  /\ Hold(c, found)
  /\ IF found = {} THEN AfterRuntimes(c) ELSE Go(c, "inject")
  /\ UNCHANGED <<exists, deployment, available, protobuf, served, used>>

\* They are updated one by one; the first conflict ends the pass.
InjectSupportingServiceURLIntoKogitoRuntime ==
  LET c == "supporting"
      s == pass[c].key
  IN
  /\ pass[c].pc = "inject"
  /\ \E d \in DOMAIN held[c] :
       \/ /\ Update(c, d, MountAsEnvFrom(held[c][d], {s}))
          /\ held' = [held EXCEPT ![c] = [e \in DOMAIN held[c] \ {d} |-> held[c][e]]]
          /\ IF DOMAIN held[c] = {d} THEN AfterRuntimes(c) ELSE UNCHANGED pass
       \/ /\ d \notin current[c] /\ Retry(c)

\* The Data Index also injects its endpoint into the management console.
InjectDataIndexURLIntoSupportingService ==
  LET c == "supporting"
      s == pass[c].key
  IN
  /\ pass[c].pc = "console"
  /\ \E t \in GetSupportingServiceReconciler(s).injects :
     \E m \in FetchKogitoSupportingServiceDeployment(t) :
       IF m # None /\ FetchEndPointConfigMap(s)
       THEN Hold(c, {m}) /\ Go(c, "update") /\ UNCHANGED <<cluster, queue, used>>
       ELSE Done(c)

\* The last update of a pass, from the copy of d to new.
UpdateLast(c, d, new) ==
  \/ Update(c, d, new) /\ End(c) /\ Drop(c)
  \/ d \notin current[c] /\ Retry(c)

UpdateConsole ==
  LET c == "supporting" IN
  /\ pass[c].pc = "update"
  /\ \E m \in DOMAIN held[c] :
       UpdateLast(c, m, MountAsEnvFrom(held[c][m], {pass[c].key}))

-----------------------------------------------------------------------------
(***************************************************************************)
(* The KogitoRuntime controller, after the service is deployed, and the    *)
(* controller of annotated Deployments.                                    *)
(***************************************************************************)
Take(c, k) ==
  /\ pass[c].pc = "idle" /\ k \in queue[c]
  /\ queue' = [queue EXCEPT ![c] = @ \ {k}]

ReconcileRuntime(r) ==
  /\ Take("runtime", r)
  /\ IF r \in exists
     THEN CreateDeployment("runtime", r)
     ELSE UNCHANGED pass
  /\ UNCHANGED <<cluster, held, current, used>>

\* The Deployment of the Data Index is read when there are files to mount.
MountProtoBufConfigMapOnDataIndex ==
  LET c == "runtime" IN
  \E d \in FetchKogitoSupportingServiceDeployment("DataIndex") :
    IF d # None /\ FetchProtoBufConfigMap(pass[c].key) # {}
    THEN Hold(c, {d}) /\ Go(c, "volume")
    ELSE End(c) /\ UNCHANGED <<held, current>>

\* The running service is asked for its protobuf files.  Files that cannot be
\* read are left out, and an answer other than 200 for the list means none.
GetProtobufData(r, files) ==
  /\ files \subseteq served[r]
  /\ files = served[r] \/ used.faults < MaxFaults
  /\ used' = IF files = served[r] THEN used ELSE [used EXCEPT !.faults = @ + 1]

\* A change of the ConfigMap ends the pass; without files it is deleted.  A
\* ConfigMap that is as it should be is mounted on the Data Index.
ReconcileProtoBufConfigMap(files) ==
  LET c == "runtime"
      r == pass[c].key
  IN
  /\ pass[c].pc = "protobuf" /\ r \in available
  /\ GetProtobufData(r, files)
  /\ IF files = protobuf[r].files
     THEN MountProtoBufConfigMapOnDataIndex /\ UNCHANGED <<queue, protobuf>>
     ELSE /\ protobuf' = [protobuf EXCEPT ![r] =
                             IF files = {} THEN NoProtobuf
                             ELSE [files |-> files, owned |-> ~pass[c].gone]]
          /\ End(c)
          /\ NotifyOwner(r)
          /\ UNCHANGED <<held, current>>
  /\ UNCHANGED <<exists, deployment, available, endpoint, served>>

DeploymentNotReachable ==
  /\ pass["runtime"].pc = "protobuf" /\ pass["runtime"].key \notin available
  /\ Retry("runtime")

\* The ConfigMap is read again for its files, and may be gone.
UpdateDataIndex ==
  LET c == "runtime"
      r == pass[c].key
  IN
  /\ pass[c].pc = "volume"
  /\ IF protobuf[r].files = {}
     THEN Restart /\ UNCHANGED used
     ELSE \E d \in DOMAIN held[c] :
            UpdateLast(c, d, UpdateProtoBufPropInToDeploymentEnv(MountAsVolume(held[c][d], r)))

ReconcileDeployment(d) ==
  LET c == "deployment" IN
  /\ Take(c, d)
  /\ IF deployment[d].exists
     THEN Hold(c, {d}) /\ pass' = [pass EXCEPT ![c] = [Idle EXCEPT !.pc = "inject", !.key = d]]
     ELSE UNCHANGED <<pass, held, current>>
  /\ UNCHANGED <<cluster, used>>

\* Endpoints are added to the Deployment and never taken away.
InjectSupportingServiceEndpointIntoDeployment ==
  LET c == "deployment"
      d == pass[c].key
  IN
  /\ pass[c].pc = "inject"
  /\ \E envFrom \in InjectEndpoints(RuntimeReads) :
       UpdateLast(c, d, MountAsEnvFrom(held[c][d], envFrom))

-----------------------------------------------------------------------------
(***************************************************************************)
(* Users, pods, garbage collection, faults.                                *)
(***************************************************************************)
Count(what) == used' = [used EXCEPT ![what] = @ + 1]

Create(k) ==
  /\ k \in Owners \ exists /\ used.changes < MaxChanges
  /\ exists' = exists \cup {k}
  /\ NotifyOwner(k) /\ Count("changes")
  /\ UNCHANGED <<deployment, available, endpoint, protobuf, served, pass, held, current>>

\* What a deleted object owned is left to the garbage collector.
Delete(k) ==
  /\ k \in exists /\ used.changes < MaxChanges
  /\ exists' = exists \ {k}
  /\ deployment' = [deployment EXCEPT ![k].owned = FALSE]
  /\ endpoint' = [s \in Services |->
                    IF s = k /\ endpoint[s] = "owned" THEN "orphan" ELSE endpoint[s]]
  /\ protobuf' = [r \in Runtimes |-> IF r = k THEN [protobuf[r] EXCEPT !.owned = FALSE]
                                      ELSE protobuf[r]]
  /\ pass' = [c \in Controllers |-> [pass[c] EXCEPT !.gone = @ \/ pass[c].key = k]]
  /\ Count("changes")
  /\ UNCHANGED <<available, served, queue, held, current>>

\* The pods of another version of the service, with other files, take over.
Serve(r, files) ==
  /\ files # served[r] /\ used.changes < MaxChanges
  /\ served' = [served EXCEPT ![r] = files]
  /\ queue' = IF deployment[r].exists THEN Notify(queue, {r}) ELSE queue
  /\ Count("changes")
  /\ UNCHANGED <<exists, deployment, available, endpoint, protobuf, pass, held, current>>

PodsStart(r) ==
  /\ deployment[r].exists /\ r \notin available
  /\ available' = available \cup {r}
  /\ queue' = Notify(queue, {r})
  /\ UNCHANGED <<exists, deployment, endpoint, protobuf, served, pass, held, current, used>>

CollectDeployment(d) ==
  /\ deployment[d].exists /\ ~deployment[d].owned
  /\ Change(None, d, NoDeployment)
  /\ available' = available \ {d}
  /\ UNCHANGED <<exists, endpoint, protobuf, served, pass, held, used>>

CollectEndpoint(s) ==
  /\ endpoint[s] = "orphan"
  /\ endpoint' = [endpoint EXCEPT ![s] = "absent"]
  /\ NotifyOwner(s)
  /\ UNCHANGED <<exists, deployment, available, protobuf, served, pass, held, current, used>>

CollectProtobuf(r) ==
  /\ protobuf[r].files # {} /\ ~protobuf[r].owned
  /\ protobuf' = [protobuf EXCEPT ![r] = NoProtobuf]
  /\ NotifyOwner(r)
  /\ UNCHANGED <<exists, deployment, available, endpoint, served, pass, held, current, used>>

\* Any call may fail.
Fail(c) ==
  /\ pass[c].pc # "idle" /\ used.faults < MaxFaults
  /\ End(c) /\ Drop(c)
  /\ current' = [current EXCEPT ![c] = {}]
  /\ queue' = [queue EXCEPT ![c] = @ \cup {pass[c].key}]
  /\ Count("faults")
  /\ UNCHANGED cluster

Crash ==
  /\ used.crashes < MaxCrashes
  /\ Restart /\ Count("crashes")

\* The informers deliver every object again, hours after the last change.
Resync ==
  /\ \A c \in Controllers : queue[c] = {} /\ pass[c] = Idle
  /\ queue' = AllRequests
  /\ UNCHANGED <<cluster, pass, held, current, used>>

Supporting ==
  \/ \E s \in Services : ReconcileService(s)
  \/ ReconcileEndpoint \/ InjectSupportingServiceURLIntoKogitoRuntime
  \/ InjectDataIndexURLIntoSupportingService \/ UpdateConsole

Runtime ==
  \/ \E r \in Runtimes : ReconcileRuntime(r)
  \/ \E files \in SUBSET Files : ReconcileProtoBufConfigMap(files)
  \/ DeploymentNotReachable \/ UpdateDataIndex

Step(c) ==
  MountAllProtoBufConfigMaps(c) \/ MountPanics(c) \/ ProcessDelta(c)

Controller(c) ==
  \/ Step(c)
  \/ c = "supporting" /\ Supporting
  \/ c = "runtime" /\ Runtime
  \/ c = "deployment" /\ \/ \E d \in Annotated : ReconcileDeployment(d)
                          \/ InjectSupportingServiceEndpointIntoDeployment

Collect ==
  \/ \E d \in Named : CollectDeployment(d)
  \/ \E s \in Services : CollectEndpoint(s)
  \/ \E r \in Runtimes : CollectProtobuf(r)

Environment ==
  \/ \E k \in Owners : Create(k) \/ Delete(k)
  \/ \E r \in Runtimes : PodsStart(r) \/ \E files \in SUBSET Files : Serve(r, files)
  \/ \E c \in Controllers : Fail(c)
  \/ Crash

Next ==
  \/ \E c \in Controllers : Controller(c)
  \/ Collect \/ Environment \/ Resync

\* Workers run and serve each request in turn, the garbage collector collects
\* and pods start.  A resync may never come: properties that need one say so.
Fairness ==
  /\ \A c \in Controllers : WF_vars(Controller(c))
  /\ \A s \in Services : SF_vars(ReconcileService(s))
  /\ \A r \in Runtimes : SF_vars(ReconcileRuntime(r))
  /\ \A d \in Annotated : SF_vars(ReconcileDeployment(d))
  /\ WF_vars(Collect)
  /\ \A r \in Runtimes : WF_vars(PodsStart(r))

Spec == Init /\ [][Next]_vars /\ Fairness

-----------------------------------------------------------------------------
(***************************************************************************)
(* Properties.                                                             *)
(***************************************************************************)

\* Of several services of one type at most one has a Deployment, whatever
\* users create and delete while a pass runs (EnsureSingletonService).
SingletonDeployed ==
  \A s, x \in exists \cap Services :
    /\ TypeOf[s] = TypeOf[x]
    /\ deployment[s].exists /\ deployment[s].owned
    /\ deployment[x].exists /\ deployment[x].owned
    => s = x

NoDuplicates == \A t \in Types : ~Duplicates(t)

Published == {s \in exists \cap Services : GetSupportingServiceReconciler(s).publishes}
Protobufs == UNION {{r} \X protobuf[r].files : r \in Runtimes}

\* Without any resync, and whatever the order of events: once users stop, every
\* runtime, annotated Deployment and management console has the endpoints of
\* the services there are, and the Data Index has the protobuf files.
AdditionsArrive ==
  <>[](NoDuplicates =>
         /\ \A d \in Annotated : deployment[d].exists => Published \subseteq deployment[d].envFrom
         /\ \A m \in OfType("MgmtConsole") : OfType("DataIndex") \subseteq deployment[m].envFrom
         /\ \A x \in OfType("DataIndex") :
              deployment[x].exists /\ Protobufs \subseteq deployment[x].mounts)

\* With resyncs, references to endpoints and protobuf files that are gone
\* disappear, consoles that no service injects into find their endpoint, and a
\* Data Index made after the runtimes watches their files.
ReferencesSettle ==
  WF_vars(Resync) =>
    <>[](NoDuplicates =>
           /\ \A k \in exists :
                /\ deployment[k].exists /\ deployment[k].owned
                /\ deployment[k].envFrom =
                     {s \in Published : TypeOf[s] \in OnDeploymentCreate(k)}
           /\ \A r \in exists \cap Runtimes : protobuf[r].files = served[r]
           /\ \A x \in OfType("DataIndex") :
                /\ deployment[x].mounts = Protobufs
                /\ Protobufs # {} => deployment[x].watch)

\* The three controllers do not undo each other's updates for ever: without
\* duplicates the Deployments come to rest.
DeploymentsRest ==
  <>[]NoDuplicates => <>[][deployment' = deployment]_vars

=============================================================================
