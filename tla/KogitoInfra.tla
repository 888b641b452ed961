---------------------------- MODULE KogitoInfra ----------------------------
(***************************************************************************)
(* The KogitoInfra controller (controllers/common/infra_controller.go and  *)
(* core/kogitoinfra) for the KogitoInfra resources of one namespace.  A    *)
(* KogitoInfra binds a resource of another operator (Infinispan, Kafka,    *)
(* MongoDB, Keycloak, a Knative broker) to Kogito services: the controller *)
(* waits until the resource is ready, writes what services must know about *)
(* it to ConfigMaps and Secrets, and lists these in the status.            *)
(*                                                                         *)
(* Most of these objects are named after the kind and the runtime, not     *)
(* after the KogitoInfra, so two KogitoInfras of a kind share them.        *)
(*                                                                         *)
(* Reads come from informer caches that lag behind; a copy is current      *)
(* until its object is written again, and an update with a copy that is    *)
(* not current is a conflict.                                              *)
(***************************************************************************)
EXTENDS Naturals, Sequences, FiniteSets

CONSTANTS
  Infras,       \* the KogitoInfra resources
  SpecsOf,      \* for each of them, the specs a user may give it
  BackingsOf,   \* for each resource of another operator, how it may be
  Contents,     \* what such a resource, or the infra properties, may say
  UserObjects,  \* ConfigMaps and Secrets of the user that specs refer to
  None,         \* no name, no properties, no data
  MaxEdits,     \* bound: edits of specs
  MaxChanges,   \* bound: changes of resources, APIs and user objects
  MaxOwners,    \* bound: changes of the owner references of a KogitoInfra
  MaxDeletes,   \* bound: deletions of a KogitoInfra
  MaxFaults,    \* bound: failing API calls
  MaxCrashes    \* bound: restarts of the operator

SupportedKinds == {"Infinispan", "Kafka", "MongoDB", "Keycloak", "Broker"}
Kinds == SupportedKinds \cup {"NoResource", "Unsupported"}

Resources == DOMAIN BackingsOf
SpecType == [kind : Kinds, resource : Resources \cup {None},
             props : Contents \cup {None}, refs : SUBSET (UserObjects \cup {None})]

\* A resource of another operator, with what it says of itself and the parts
\* of it that the controller needs: the address services connect to, the
\* Secrets it names, the database user the infra properties name.  Security
\* is said of an Infinispan: endpoint authentication, and encryption.
Backings == [state : {"absent", "notReady", "ready"}, data : Contents,
             parts : SUBSET {"address", "secret", "user"},
             security : SUBSET {"auth", "cert"}]
NoBacking == [state |-> "absent", data |-> None, parts |-> {}, security |-> {}]

ASSUME InfraBoundsAssumption ==
  /\ MaxEdits \in Nat /\ MaxChanges \in Nat /\ MaxOwners \in Nat
  /\ MaxDeletes \in Nat /\ MaxFaults \in Nat /\ MaxCrashes \in Nat

-----------------------------------------------------------------------------
\* The objects the controller generates.

\* Their names: what they are for, and the kind and the runtime, if any.
Config(kind, runtime) == <<"config", kind, runtime>>
Credential(kind, runtime) == <<"credential", kind, runtime>>
TrustStore(runtime) == <<"truststore", "Infinispan", runtime>>
Properties(i) == <<"properties", "any", i>>

\* What the reconciler of a kind generates, in the order it does.
InfinispanRuntime(runtime, security) ==
  IF "auth" \in security
    THEN <<Config("Infinispan", runtime), Credential("Infinispan", runtime)>>
    ELSE <<Config("Infinispan", runtime)>>
TrustStores(security) ==
  IF "cert" \in security
    THEN <<TrustStore("volume"), TrustStore("quarkus"), TrustStore("springboot")>>
    ELSE << >>
KafkaRuntime(runtime) == <<Config("Kafka", runtime)>>
MongoDBRuntime(runtime) == <<Config("MongoDB", runtime), Credential("MongoDB", runtime)>>

Generated(kind, security) ==
  CASE kind = "Infinispan" -> TrustStores(security)
                                \o InfinispanRuntime("quarkus", security)
                                \o InfinispanRuntime("springboot", security)
    [] kind = "Kafka"      -> KafkaRuntime("quarkus") \o KafkaRuntime("springboot")
    [] kind = "MongoDB"    -> MongoDBRuntime("quarkus") \o MongoDBRuntime("springboot")
    [] OTHER               -> << >>

SeqSet(s) == {s[n] : n \in 1 .. Len(s)}

Specs == UNION {SpecsOf[i] : i \in Infras}
UsedKinds == SupportedKinds \cap {s.kind : s \in Specs}

Names ==
  {Properties(i) : i \in Infras}
    \cup (UNION {SeqSet(Generated(s.kind, {"auth", "cert"})) : s \in Specs})

ASSUME InfraAssumption ==
  /\ SpecsOf \in [Infras -> SUBSET SpecType]
  /\ \A i \in Infras : SpecsOf[i] # {}
  /\ BackingsOf \in [Resources -> SUBSET Backings]
  /\ \A r \in Resources : BackingsOf[r] # {}
  /\ None \notin Infras \cup Contents \cup Resources \cup UserObjects
  /\ UserObjects \cap Names = {}

\* An object has an owner and says something about the resource and about
\* the infra properties.
Data == (Contents \cup Resources \cup {None}) \X (Contents \cup {None})
NoObject == [owner |-> None, data |-> <<None, None>>]
Object == [owner : Infras, data : Data] \cup {NoObject}

\* What it says, from the spec and from the resource as the pass saw it first
\* and as it is now.
InfinispanConfigData(s) == <<s.resource, None>>
KafkaConfigData(seen) == <<seen.data, None>>
MongoDBConfigData(seen) == <<IF "address" \in seen.parts THEN seen.data ELSE None, None>>
InfinispanCredentialData(now) ==
  <<IF "secret" \in now.parts THEN now.data ELSE None, None>>
MongoDBCredentialData(s, now) == <<now.data, s.props>>
TrustStoreData(now) == <<now.data, None>>
TrustStoreSecretData == <<None, None>>
PropertiesData(s) == <<None, s.props>>

DataOf(o, s, seen, now) ==
  CASE o[1] = "properties"                       -> PropertiesData(s)
    [] o[1] = "config" /\ o[2] = "Infinispan"     -> InfinispanConfigData(s)
    [] o[1] = "config" /\ o[2] = "Kafka"          -> KafkaConfigData(seen)
    [] o[1] = "config" /\ o[2] = "MongoDB"        -> MongoDBConfigData(seen)
    [] o[1] = "credential" /\ o[2] = "Infinispan" -> InfinispanCredentialData(now)
    [] o[1] = "credential" /\ o[2] = "MongoDB"    -> MongoDBCredentialData(s, now)
    [] o = TrustStore("volume")                  -> TrustStoreData(now)
    [] OTHER                                     -> TrustStoreSecretData

\* Why it cannot be made, if it cannot.
InfinispanConfigError(now) ==
  IF "address" \in now.parts THEN "None" ELSE "ReconciliationFailure"
KafkaConfigError(seen) ==
  IF "address" \in seen.parts THEN "None" ELSE "ReconciliationFailure"
TrustStoreError(now) ==
  IF "secret" \in now.parts THEN "None" ELSE "ReconciliationFailure"
MongoDBCredentialError(s, seen, now) ==
  CASE s.props = None                                   -> "ResourceMissingConfig"
    [] s.props # None /\ "user" \notin seen.parts         -> "ResourceConfigError"
    [] s.props # None /\ "user" \in seen.parts
         /\ "secret" \notin now.parts                     -> "ResourceNotFound"
    [] OTHER                                            -> "None"

ObjectError(o, s, seen, now) ==
  CASE o[1] = "config" /\ o[2] = "Infinispan"  -> InfinispanConfigError(now)
    [] o[1] = "config" /\ o[2] = "Kafka"       -> KafkaConfigError(seen)
    [] o[1] = "credential" /\ o[2] = "MongoDB" -> MongoDBCredentialError(s, seen, now)
    [] o = TrustStore("volume")               -> TrustStoreError(now)
    [] OTHER                                  -> "None"

\* The comparators: ConfigMaps carry a label with the name of the
\* KogitoInfra, Secrets do not, and the trust store is never compared.
SameObject(o, deployed, requested) ==
  CASE o = TrustStore("volume")                 -> TRUE
    [] o[1] \in {"config", "properties"}        -> deployed = requested
    [] OTHER                                    -> deployed.data = requested.data

-----------------------------------------------------------------------------
Reasons == {"None", "ReconciliationFailure", "ResourceNotFound",
            "ResourceAPINotFound", "UnsupportedAPIKind", "ResourceNotReady",
            "ResourceConfigError", "ResourceMissingConfig"}

\* Configured with its reason (None: successfully configured), and the
\* references to ConfigMaps and Secrets.
StatusType == [configured : {"Unset", "True", "False"}, reason : Reasons,
               refs : SUBSET (Names \cup UserObjects)]
NoStatus == [configured |-> "Unset", reason |-> "None", refs |-> {}]

VARIABLES
  exists,         \* the KogitoInfras in the API server,
  spec,           \*   their specs,
  status,         \*   their status,
  owned,          \*   and those that have an owner reference
  objects,        \* the generated objects in the API server
  apis,           \* the kinds whose CRD is installed
  backing,        \* the resources of other operators
  userObjects,    \* the user's ConfigMaps and Secrets
  cached,         \* the informer cache of KogitoInfras
  infraCurrent,   \*   and those whose copy in it is current
  cachedObjects,  \* the informer cache of the generated objects
  objectsCurrent, \*   and those whose copy in it is current
  passCurrent,    \* the copy of the KogitoInfra in the pass is current
  queue,          \* the work queue
  pass,           \* the reconcile pass being executed
  used            \* how much of each bound was used

apiVars == <<exists, spec, status, owned, objects>>
worldVars == <<apis, backing, userObjects>>
cacheVars == <<cached, infraCurrent, cachedObjects, objectsCurrent>>
vars == <<apiVars, worldVars, cacheVars, passCurrent, queue, pass, used>>

\* A KogitoInfra as the cache shows it.
Copy(i) == [exists |-> i \in exists, spec |-> spec[i], status |-> status[i],
            owned |-> i \in owned]

NoSpec == [kind |-> "NoResource", resource |-> None, props |-> None, refs |-> {}]
IdlePass == [pc |-> "idle", infra |-> None, spec |-> NoSpec, seen |-> NoBacking,
             todo |-> << >>, refs |-> {}, reason |-> "None"]

\* Users created some KogitoInfras and the caches have seen them.  Each bound
\* may be used up already, so that one instance can have some of them or all.
Init ==
  /\ exists \in (SUBSET Infras) \ {{}}
  /\ spec \in {f \in [Infras -> Specs] :
                 \A i \in Infras : f[i] \in SpecsOf[i]}
  /\ status = [i \in Infras |-> NoStatus]
  /\ owned = {}
  /\ objects = [o \in Names |-> NoObject]
  /\ apis \in SUBSET UsedKinds
  /\ backing \in {f \in [Resources -> UNION {BackingsOf[r] : r \in Resources}] :
                    \A r \in Resources : f[r] \in BackingsOf[r]}
  /\ userObjects \in SUBSET UserObjects
  /\ cached = [i \in Infras |-> Copy(i)]
  /\ infraCurrent = Infras
  /\ cachedObjects = objects
  /\ objectsCurrent = Names
  /\ passCurrent = FALSE
  /\ queue = exists
  /\ pass = IdlePass
  /\ used \in [edits : {0, MaxEdits}, changes : {0, MaxChanges},
               owners : {0, MaxOwners}, deletes : {0, MaxDeletes},
               faults : {0, MaxFaults}, crashes : {0, MaxCrashes}]

Use(what, max) ==
  /\ used[what] < max
  /\ used' = [used EXCEPT ![what] = @ + 1]

-----------------------------------------------------------------------------
\* The reconcile pass.

At(pc) == pass.pc = pc
Fail(reason) == pass' = [pass EXCEPT !.pc = "status", !.reason = reason]

\* Mutant: a KogitoInfra that is gone is not noticed.
FetchGone(i) ==
  /\ At("idle") /\ i \in queue
  /\ queue' = queue \ {i}
  /\ pass' = [IdlePass EXCEPT !.pc = "resource", !.infra = i, !.spec = cached[i].spec]
  /\ passCurrent' = (i \in infraCurrent)
  /\ UNCHANGED <<apiVars, worldVars, cacheVars, used>>

\* The worker takes a request; the references of the status are cleared in
\* the copy.  Of a KogitoInfra that is gone nothing is done.
FetchKogitoInfraInstance(i) ==
  /\ At("idle") /\ i \in queue
  /\ queue' = queue \ {i}
  /\ IF cached[i].exists
       THEN /\ pass' = [IdlePass EXCEPT !.pc = "resource", !.infra = i,
                                        !.spec = cached[i].spec]
            /\ passCurrent' = (i \in infraCurrent)
       ELSE UNCHANGED <<pass, passCurrent>>
  /\ UNCHANGED <<apiVars, worldVars, cacheVars, used>>

\* What keeps a KogitoInfra with this spec from being bound, if anything.
NotReady(r) == IF backing[r].state = "notReady" THEN "ResourceNotReady" ELSE "None"

InfinispanError(s) ==
  CASE "Infinispan" \notin apis -> "ResourceAPINotFound"
    [] "Infinispan" \in apis /\ s.resource = None -> "ResourceConfigError"
    [] OTHER -> IF backing[s.resource].state = "absent"
                  THEN "ResourceNotFound" ELSE NotReady(s.resource)
KafkaError(s) ==
  CASE "Kafka" \notin apis -> "ResourceAPINotFound"
    [] "Kafka" \in apis /\ s.resource = None -> "ResourceConfigError"
    [] OTHER -> IF backing[s.resource].state = "absent"
                  THEN "ResourceNotFound" ELSE NotReady(s.resource)
MongoDBError(s) ==
  CASE "MongoDB" \notin apis -> "ResourceAPINotFound"
    [] "MongoDB" \in apis /\ s.resource = None -> "ResourceConfigError"
    [] OTHER -> IF backing[s.resource].state = "absent"
                  THEN "ResourceNotFound" ELSE NotReady(s.resource)
\* Neither of these two need be ready, and a missing name of a broker is not
\* told from a failure.
KeycloakError(s) ==
  CASE "Keycloak" \notin apis -> "ResourceAPINotFound"
    [] "Keycloak" \in apis /\ s.resource = None -> "ResourceConfigError"
    [] OTHER -> IF backing[s.resource].state = "absent" THEN "ResourceNotFound" ELSE "None"
KnativeError(s) ==
  CASE "Broker" \notin apis -> "ResourceAPINotFound"
    [] "Broker" \in apis /\ s.resource = None -> "ReconciliationFailure"
    [] OTHER -> IF backing[s.resource].state = "absent" THEN "ResourceNotFound" ELSE "None"

ResourceError(s) ==
  CASE s.kind = "NoResource"  -> "None"
    [] s.kind = "Infinispan"  -> InfinispanError(s)
    [] s.kind = "Kafka"       -> KafkaError(s)
    [] s.kind = "MongoDB"     -> MongoDBError(s)
    [] s.kind = "Keycloak"    -> KeycloakError(s)
    [] s.kind = "Broker"      -> KnativeError(s)
    [] s.kind = "Unsupported" -> "UnsupportedAPIKind"

\* Mutant: the encryption of an Infinispan is overlooked.
CheckResourceOnly ==
  /\ At("resource")
  /\ LET s == pass.spec
     IN IF ResourceError(s) # "None" THEN Fail(ResourceError(s))
        ELSE pass' = [pass EXCEPT !.pc = "objects",
                                  !.seen = IF s.resource = None THEN NoBacking
                                                                ELSE backing[s.resource],
                                  !.todo = Generated(s.kind, {})]
  /\ UNCHANGED <<apiVars, worldVars, cacheVars, passCurrent, queue, used>>

\* GetInfraReconciler and the first half of the Reconcile of a kind.  When
\* the server cannot be asked for its APIs, it has none.
CheckResource ==
  /\ At("resource")
  /\ LET s == pass.spec
         e == ResourceError(s)
     IN \/ /\ e = "None" /\ s.kind = "NoResource"
           /\ pass' = [pass EXCEPT !.pc = "properties"]
           /\ UNCHANGED used
        \/ /\ e = "None" /\ s.kind # "NoResource"
           /\ pass' = [pass EXCEPT
                         !.pc = "objects",
                         !.seen = backing[s.resource],
                         !.todo = Generated(s.kind, backing[s.resource].security)]
           /\ UNCHANGED used
        \/ e # "None" /\ Fail(e) /\ UNCHANGED used
        \/ /\ s.kind \in SupportedKinds
           /\ Use("faults", MaxFaults)
           /\ \E reason \in {"ResourceAPINotFound", "ReconciliationFailure"} : Fail(reason)
  /\ UNCHANGED <<apiVars, worldVars, cacheVars, passCurrent, queue>>

\* ProcessDelta for one object: what is requested, whether the cache shows
\* just that, and whether the API server accepts the create or the update.
Now == IF pass.spec.resource = None THEN NoBacking ELSE backing[pass.spec.resource]
Requested(o) == [owner |-> pass.infra, data |-> DataOf(o, pass.spec, pass.seen, Now)]
NoDelta(o) == /\ cachedObjects[o] # NoObject
              /\ SameObject(o, cachedObjects[o], Requested(o))
WriteAccepted(o) ==
  IF cachedObjects[o] = NoObject THEN objects[o] = NoObject
                                 ELSE o \in objectsCurrent /\ objects[o] # NoObject
ProcessDelta(o) ==
  \/ NoDelta(o) /\ UNCHANGED <<objects, objectsCurrent>>
  \/ /\ ~NoDelta(o) /\ WriteAccepted(o)
     /\ objects' = [objects EXCEPT ![o] = Requested(o)]
     /\ objectsCurrent' = objectsCurrent \ {o}

\* Mutant: the error is logged, and the object taken for written.
LogObject(reason) ==
  pass' = [pass EXCEPT !.todo = Tail(@), !.refs = @ \cup {Head(pass.todo)}]

\* The error of one object ends the Reconcile of the kind; the Reconcile of
\* Infinispan returns nil for it, and the pass goes on.
FailObject(reason) ==
  IF pass.spec.kind = "Infinispan"
    THEN pass' = [pass EXCEPT !.pc = "properties", !.todo = << >>]
    ELSE Fail(reason)

\* One generated object, or none left.  The trust store is only made when
\* the cache does not show it.
ReconcileObject ==
  /\ At("objects")
  /\ IF pass.todo = << >>
       THEN /\ pass' = [pass EXCEPT !.pc = "properties"]
            /\ UNCHANGED <<objects, objectsCurrent, used>>
       ELSE LET o == Head(pass.todo)
                e == IF o = TrustStore("volume") /\ NoDelta(o)
                       THEN "None" ELSE ObjectError(o, pass.spec, pass.seen, Now)
            IN \/ /\ e # "None"
                  /\ FailObject(e)
                  /\ UNCHANGED <<objects, objectsCurrent, used>>
               \/ /\ e = "None"
                  /\ ProcessDelta(o)
                  /\ pass' = [pass EXCEPT !.todo = Tail(@), !.refs = @ \cup {o}]
                  /\ UNCHANGED used
               \/ /\ e = "None" /\ ~NoDelta(o) /\ ~WriteAccepted(o)
                  /\ FailObject("ReconciliationFailure")
                  /\ UNCHANGED <<objects, objectsCurrent, used>>
               \/ /\ e = "None" /\ ~NoDelta(o)
                  /\ Use("faults", MaxFaults)
                  /\ FailObject("ReconciliationFailure")
                  /\ UNCHANGED <<objects, objectsCurrent>>
  /\ UNCHANGED <<exists, spec, status, owned, worldVars, cached, infraCurrent,
                 cachedObjects, passCurrent, queue>>

\* The infra properties go to a ConfigMap named after the KogitoInfra.
ReconcileProperties ==
  /\ At("properties")
  /\ LET o == Properties(pass.infra)
     IN \/ /\ pass.spec.props = None
           /\ pass' = [pass EXCEPT !.pc = "references"]
           /\ UNCHANGED <<objects, objectsCurrent, used>>
        \/ /\ pass.spec.props # None
           /\ ProcessDelta(o)
           /\ pass' = [pass EXCEPT !.pc = "references", !.refs = @ \cup {o}]
           /\ UNCHANGED used
        \/ /\ pass.spec.props # None /\ ~NoDelta(o) /\ ~WriteAccepted(o)
           /\ Fail("ReconciliationFailure")
           /\ UNCHANGED <<objects, objectsCurrent, used>>
        \/ /\ pass.spec.props # None /\ ~NoDelta(o)
           /\ Use("faults", MaxFaults)
           /\ Fail("ReconciliationFailure")
           /\ UNCHANGED <<objects, objectsCurrent>>
  /\ UNCHANGED <<exists, spec, status, owned, worldVars, cached, infraCurrent,
                 cachedObjects, passCurrent, queue>>

\* Mutant: the references are listed but not looked up.
ReferencesUnchecked ==
  /\ At("references")
  /\ pass' = [pass EXCEPT !.pc = "status", !.refs = @ \cup (pass.spec.refs \ {None})]
  /\ UNCHANGED <<apiVars, worldVars, cacheVars, passCurrent, queue, used>>

\* The ConfigMaps and Secrets that the spec refers to and that exist.
Found == pass.spec.refs \cap userObjects

\* The references are looked up one after the other, up to the first that
\* is missing or has no name; those before it stay in the status.
ReconcileReferences ==
  /\ At("references")
  /\ \/ /\ Found = pass.spec.refs
        /\ pass' = [pass EXCEPT !.pc = "status", !.refs = @ \cup Found]
        /\ UNCHANGED used
     \/ /\ \E before \in SUBSET Found, r \in pass.spec.refs \ Found :
             pass' = [pass EXCEPT !.pc = "status", !.refs = @ \cup before,
                                  !.reason = IF r = None THEN "ResourceConfigError"
                                                         ELSE "ResourceNotFound"]
        /\ UNCHANGED used
     \/ Use("faults", MaxFaults) /\ Fail("ReconciliationFailure")
  /\ UNCHANGED <<apiVars, worldVars, cacheVars, passCurrent, queue>>

\* Mutant: only an error proper brings the request back.
AgainOnFailure(reason) == reason = "ReconciliationFailure"

\* GetReconcileResultFor: the request comes back for an error, at once or
\* after a while, unless it is one of the configuration.
Again(reason) ==
  reason \notin {"None", "ResourceConfigError", "ResourceMissingConfig"}

\* The operator starts anew: the pass is lost, the caches are listed again
\* and every KogitoInfra in them is an event.
Afresh ==
  /\ pass' = IdlePass
  /\ passCurrent' = FALSE
  /\ cached' = [i \in Infras |-> Copy(i)]
  /\ infraCurrent' = Infras
  /\ cachedObjects' = objects
  /\ objectsCurrent' = Names
  /\ queue' = exists

\* Mutant: the panic ends the worker and not the process.
UpdateOrHang ==
  /\ At("status")
  /\ LET i == pass.infra
         new == [configured |-> IF pass.reason = "None" THEN "True" ELSE "False",
                 reason |-> pass.reason, refs |-> pass.refs]
     IN /\ cached[i].exists
        /\ \/ /\ passCurrent /\ i \in exists
              /\ status' = [status EXCEPT ![i] = new]
              /\ infraCurrent' = IF new = status[i] THEN infraCurrent ELSE infraCurrent \ {i}
           \/ /\ ~(passCurrent /\ i \in exists)
              /\ UNCHANGED <<status, infraCurrent>>
        /\ pass' = IdlePass
        /\ passCurrent' = FALSE
        /\ queue' = IF Again(pass.reason) THEN queue \cup {i} ELSE queue
  /\ UNCHANGED <<exists, spec, owned, objects, worldVars, cached, cachedObjects,
                 objectsCurrent, used>>

\* The deferred UpdateBaseStatus and the end of the pass.  The status is
\* compared with the one in the cache and written if it differs; a write
\* that fails is only logged.  A KogitoInfra that left the cache during the
\* pass makes the comparison panic.
UpdateBaseStatus ==
  /\ At("status")
  /\ LET i == pass.infra
         new == [configured |-> IF pass.reason = "None" THEN "True" ELSE "False",
                 reason |-> pass.reason, refs |-> pass.refs]
         changed == new # cached[i].status
     IN \/ /\ cached[i].exists
           /\ \/ /\ changed /\ passCurrent /\ i \in exists
                 /\ status' = [status EXCEPT ![i] = new]
                 /\ infraCurrent' = infraCurrent \ {i}
                 /\ UNCHANGED used
              \/ /\ ~(changed /\ passCurrent /\ i \in exists)
                 /\ UNCHANGED <<status, infraCurrent, used>>
              \/ /\ changed
                 /\ Use("faults", MaxFaults)
                 /\ UNCHANGED <<status, infraCurrent>>
           /\ pass' = IdlePass
           /\ passCurrent' = FALSE
           /\ queue' = IF Again(pass.reason) THEN queue \cup {i} ELSE queue
           /\ UNCHANGED <<cached, cachedObjects, objectsCurrent>>
        \/ /\ ~cached[i].exists
           /\ Afresh
           /\ UNCHANGED <<status, used>>
  /\ UNCHANGED <<exists, spec, owned, objects, worldVars>>

Working ==
  \/ CheckResource
  \/ ReconcileObject
  \/ ReconcileProperties
  \/ ReconcileReferences
  \/ UpdateBaseStatus

-----------------------------------------------------------------------------
\* The environment.

\* A user edits the spec.
EditSpec(i) ==
  /\ i \in exists
  /\ Use("edits", MaxEdits)
  /\ \E s \in SpecsOf[i] \ {spec[i]} : spec' = [spec EXCEPT ![i] = s]
  /\ infraCurrent' = infraCurrent \ {i}
  /\ passCurrent' = (passCurrent /\ pass.infra # i)
  /\ UNCHANGED <<exists, status, owned, objects, worldVars, cached,
                 cachedObjects, objectsCurrent, queue, pass>>

\* A user or another controller adds or removes owner references of the
\* KogitoInfra, the case the predicate of the controller is there for.
ChangeOwners(i) ==
  /\ i \in exists
  /\ Use("owners", MaxOwners)
  /\ owned' = IF i \in owned THEN owned \ {i} ELSE owned \cup {i}
  /\ infraCurrent' = infraCurrent \ {i}
  /\ passCurrent' = (passCurrent /\ pass.infra # i)
  /\ UNCHANGED <<exists, spec, status, objects, worldVars, cached,
                 cachedObjects, objectsCurrent, queue, pass>>

\* A user deletes a KogitoInfra; the garbage collector takes what it owns.
DeleteInfra(i) ==
  /\ i \in exists
  /\ Use("deletes", MaxDeletes)
  /\ exists' = exists \ {i}
  /\ infraCurrent' = infraCurrent \ {i}
  /\ passCurrent' = (passCurrent /\ pass.infra # i)
  /\ UNCHANGED <<spec, status, owned, objects, worldVars, cached,
                 cachedObjects, objectsCurrent, queue, pass>>

CollectObject(o) ==
  /\ objects[o] # NoObject /\ objects[o].owner \notin exists
  /\ objects' = [objects EXCEPT ![o] = NoObject]
  /\ objectsCurrent' = objectsCurrent \ {o}
  /\ UNCHANGED <<exists, spec, status, owned, worldVars, cached, infraCurrent,
                 cachedObjects, passCurrent, queue, pass, used>>

\* The cluster changes around the operator; nobody tells the controller.
ChangeWorld ==
  /\ Use("changes", MaxChanges)
  /\ \/ /\ \E r \in Resources : \E b \in BackingsOf[r] \ {backing[r]} :
             backing' = [backing EXCEPT ![r] = b]
        /\ UNCHANGED <<apis, userObjects>>
     \/ /\ \E k \in UsedKinds \ apis : apis' = apis \cup {k}
        /\ UNCHANGED <<backing, userObjects>>
     \/ /\ \E u \in UserObjects :
             userObjects' = IF u \in userObjects THEN userObjects \ {u}
                                                 ELSE userObjects \cup {u}
        /\ UNCHANGED <<apis, backing>>
  /\ UNCHANGED <<apiVars, cacheVars, passCurrent, queue, pass>>

\* The informer catches up.  The predicate drops the update of a KogitoInfra
\* whose owner references changed.
SyncInfra(i) ==
  /\ i \notin infraCurrent
  /\ cached' = [cached EXCEPT ![i] = Copy(i)]
  /\ infraCurrent' = infraCurrent \cup {i}
  /\ queue' = IF i \in exists /\ cached[i].owned # (i \in owned)
                THEN queue ELSE queue \cup {i}
  /\ UNCHANGED <<apiVars, worldVars, cachedObjects, objectsCurrent,
                 passCurrent, pass, used>>

\* Mutant: an object without owner is an event, too.
SyncAnyObject(o) ==
  /\ o \notin objectsCurrent
  /\ cachedObjects' = [cachedObjects EXCEPT ![o] = objects[o]]
  /\ objectsCurrent' = objectsCurrent \cup {o}
  /\ queue' = queue \cup {cachedObjects[o].owner, objects[o].owner}
  /\ UNCHANGED <<apiVars, worldVars, cached, infraCurrent, passCurrent, pass, used>>

\* An event of a generated object is one for its owner, before and after.
SyncObject(o) ==
  /\ o \notin objectsCurrent
  /\ cachedObjects' = [cachedObjects EXCEPT ![o] = objects[o]]
  /\ objectsCurrent' = objectsCurrent \cup {o}
  /\ queue' = queue \cup ({cachedObjects[o].owner, objects[o].owner} \ {None})
  /\ UNCHANGED <<apiVars, worldVars, cached, infraCurrent, passCurrent, pass, used>>

\* The informers repeat every object of the cache now and then.
Resync ==
  /\ queue' = queue \cup {i \in Infras : cached[i].exists}
  /\ UNCHANGED <<apiVars, worldVars, cacheVars, passCurrent, pass, used>>

Restart ==
  /\ Use("crashes", MaxCrashes)
  /\ Afresh
  /\ UNCHANGED <<apiVars, worldVars>>

Environment ==
  \/ \E i \in Infras : EditSpec(i) \/ ChangeOwners(i) \/ DeleteInfra(i)
  \/ ChangeWorld
  \/ \E o \in Names : CollectObject(o)

Informers ==
  \/ \E i \in Infras : SyncInfra(i)
  \/ \E o \in Names : SyncObject(o)

Next ==
  \/ \E i \in Infras : FetchKogitoInfraInstance(i)
  \/ Working
  \/ Environment
  \/ Informers
  \/ Resync
  \/ Restart

Spec == Init /\ [][Next]_vars

\* The work queue is first in, first out, so that a request in it is taken
\* in the end; a pass makes progress, informers and the garbage collector
\* catch up.
Fairness ==
  /\ \A i \in Infras : SF_vars(FetchKogitoInfraInstance(i))
  /\ WF_vars(Working)
  /\ \A i \in Infras : WF_vars(SyncInfra(i))
  /\ \A o \in Names : WF_vars(SyncObject(o)) /\ WF_vars(CollectObject(o))

FairSpec == Spec /\ Fairness

-----------------------------------------------------------------------------
\* The properties.

PassType ==
  [pc : {"idle", "resource", "objects", "properties", "references", "status"},
   infra : Infras \cup {None}, spec : SpecType, seen : Backings \cup {NoBacking},
   todo : Seq(Names), refs : SUBSET (Names \cup UserObjects), reason : Reasons]

\* Every variable has its type: the status and the pass only ever hold
\* reasons of the API, and references to objects this controller names.
TypeOK ==
  /\ exists \subseteq Infras
  /\ spec \in [Infras -> SpecType]
  /\ status \in [Infras -> StatusType]
  /\ owned \subseteq Infras
  /\ objects \in [Names -> Object]
  /\ apis \subseteq UsedKinds
  /\ backing \in [Resources -> Backings]
  /\ userObjects \subseteq UserObjects
  /\ cached \in [Infras -> [exists : BOOLEAN, spec : SpecType,
                            status : StatusType, owned : BOOLEAN]]
  /\ infraCurrent \subseteq Infras
  /\ cachedObjects \in [Names -> Object]
  /\ objectsCurrent \subseteq Names
  /\ passCurrent \in BOOLEAN
  /\ queue \subseteq Infras
  /\ pass \in PassType
  /\ used \in [{"edits", "changes", "owners", "deletes", "faults", "crashes"} -> Nat]

\* As long as every KogitoInfra is there, every generated ConfigMap and Secret
\* that a status refers to exists: services mount what the status lists, and a
\* Pod whose ConfigMap is missing does not start.  A reference enters the
\* status only after the write of its object (UpdateBaseStatus is deferred to
\* the end of the pass), though the write was judged from a cache that lags.
ReferencesExist ==
  exists = Infras =>
    \A i \in Infras : \A o \in status[i].refs \cap Names : objects[o] # NoObject

\* What the status of a KogitoInfra should refer to, when everything that its
\* spec names is there.
Available(i) ==
  LET s == spec[i]
      b == IF s.resource = None THEN NoBacking ELSE backing[s.resource]
  IN  /\ i \in exists
      /\ ResourceError(s) = "None"
      /\ \A o \in SeqSet(Generated(s.kind, b.security)) : ObjectError(o, s, b, b) = "None"
      /\ s.refs \subseteq userObjects

Required(i) ==
  LET s == spec[i]
      b == IF s.resource = None THEN NoBacking ELSE backing[s.resource]
  IN  SeqSet(Generated(s.kind, b.security)) \cup s.refs
        \cup (IF s.props = None THEN {} ELSE {Properties(i)})

Bound(i) ==
  LET s == spec[i]
      b == IF s.resource = None THEN NoBacking ELSE backing[s.resource]
  IN  /\ status[i] = [configured |-> "True", reason |-> "None", refs |-> Required(i)]
      /\ \A o \in Required(i) \cap Names :
           /\ objects[o] # NoObject
           /\ o # TrustStore("volume") => objects[o].data = DataOf(o, s, b, b)

\* The informers go on repeating what is in the caches.  The controller does
\* not watch the resources of other operators and only logs a failed status
\* write, so that much of what follows rests on it.
Resyncs == WF_vars(Resync)

\* Once the resource and all that the spec names are there for good, the
\* KogitoInfra is bound for good: Configured, with all its references, to
\* objects that say what the spec and the resource say.
BindingSettles ==
  Resyncs => \A i \in Infras : <>[]Available(i) => <>[]Bound(i)

\* What is known to be missing when the objects are generated: the resource,
\* its API or its readiness, a ConfigMap or Secret the spec refers to.
Missing(i) ==
  /\ i \in exists
  /\ ResourceError(spec[i]) # "None" \/ ~(spec[i].refs \subseteq userObjects)

\* As long as something of this is missing for good, the status says so for
\* good.
UnavailableIsReported ==
  Resyncs =>
    \A i \in Infras : <>[]Missing(i) => <>[](status[i].configured = "False")

\* Once a KogitoInfra is deleted, none of the objects made for it is left for
\* good, though a pass may still be making them when it goes.
NothingLeftBehind ==
  \A i \in Infras :
    <>[](i \notin exists) => <>[](\A o \in Names : objects[o].owner # i)

\* A KogitoInfra that waits for its resource, or whose pass fails, is retried
\* without any event, so it is configured in the end without a resync; only
\* errors of the configuration wait for an edit.
RetriesUntilConfigured ==
  \A i \in Infras :
    <>[](Available(i)
           /\ status[i].reason \notin {"ResourceConfigError", "ResourceMissingConfig"})
      => <>[](status[i].configured = "True")
=============================================================================
