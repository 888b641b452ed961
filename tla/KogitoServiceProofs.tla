------------------------ MODULE KogitoServiceProofs ------------------------
(***************************************************************************)
(* Proofs about KogitoService: its types, that a status that says finished *)
(* is one of a service that is deployed, and that a URL given to the       *)
(* Deployment stays reported.                                              *)
(*                                                                         *)
(* Both properties of the status rest on the same argument.  A status is   *)
(* written only by a pass whose copy of the KogitoRuntime is current, and  *)
(* from that copy; so what holds of every copy (in the cache and in the    *)
(* pass) and is kept by the transition of the conditions holds of the      *)
(* status itself.  For the URL the copies also have to agree with it.      *)
(***************************************************************************)
EXTENDS KogitoService, TLAPS

-----------------------------------------------------------------------------
(* The inductive invariant.                                                 *)

\* The objects in the API server have their types.
ObjectsOK ==
  /\ spec \in Specs /\ status \in StatusType
  /\ config \in Values \cup {None}
  /\ deployment \in Deployments \cup {NoDeployment}
  /\ available \in 0 .. MaxReplicas
  /\ service \in BOOLEAN
  /\ route \in {"absent", "created", "admitted", "rejected"}
  /\ stream \in Streams
  /\ extras \in SUBSET Extras
  /\ triggers \in [Events -> 0 .. MaxTriggers]
  /\ infra \in [Infras -> InfraType]
  /\ tag \in Images \cup {None}
  /\ user \in [UserObjects -> {"absent", "noKey", "present"}]

\* So do their copies in the cache.
CacheOK ==
  /\ cached = [k \in Kinds |-> cached[k]]
  /\ cached["runtime"] \in [spec : Specs, status : StatusType]
  /\ cached["config"] \in Values \cup {None}
  /\ cached["deployment"] \in [spec : Deployments \cup {NoDeployment}, available : 0 .. MaxReplicas]
  /\ cached["service"] \in BOOLEAN
  /\ cached["route"] \in {"absent", "created", "admitted", "rejected"}
  /\ cached["stream"] \in Streams
  /\ cached["extra"] \in [extras : SUBSET Extras, triggers : [Events -> 0 .. MaxTriggers]]
  /\ cached["infra"] \in [Infras -> InfraType]

\* What a pass has found out by the time it gets somewhere.
PassOK(p) ==
  /\ p \in PassType
  /\ p.pc = "ready" => p.infras # << >>
  /\ p.pc = "deployment" => p.image \in Images
  /\ p.pc = "dashboards" => p.todo \subseteq Dashboards
  /\ p.pc = "topics" => p.todo \subseteq Topics
  /\ p.pc = "triggers" => p.todo \subseteq Events

UsedOK ==
  used \in [edits : 0 .. MaxEdits, changes : 0 .. MaxChanges, losses : 0 .. MaxPodLosses,
            faults : 0 .. MaxFaults, crashes : 0 .. MaxCrashes]

\* A status that says finished says deployed, and not failed.
Sound(st) == st.provisioning = "Finished" => st.deployed = "True" /\ st.failed # "True"

\* A URL, wherever it is, is in the status.
Reported(url) == url # None => status.uri = url

ServiceInv ==
  /\ ObjectsOK /\ CacheOK /\ PassOK(pass) /\ UsedOK
  /\ current \in SUBSET Kinds /\ passCurrent \in BOOLEAN /\ queued \in BOOLEAN
  /\ Sound(status) /\ Sound(cached["runtime"].status) /\ Sound(pass.status)
  /\ Reported(deployment.env["url"]) /\ Reported(cached["deployment"].spec.env["url"])
  /\ Reported(pass.status.uri) /\ Reported(cached["runtime"].status.uri)
  /\ "runtime" \in current => cached["runtime"] = [spec |-> spec, status |-> status]
  /\ passCurrent => pass.status.uri = status.uri

-----------------------------------------------------------------------------
(* Parts of a step.                                                         *)

LEMMA NoDeploymentUrl ==
  /\ NoDeployment.env["url"] = None
  /\ NoDeployment.replicas = 0
  /\ \A d \in Deployments : d.env["url"] \in Values \cup {"uri", "file", "broker", None}
BY DEF NoDeployment, NoEnv, EnvNames, Deployments, Env

LEMMA IdlePassOK ==
  PassOK(IdlePass) /\ IdlePass.status.uri = None /\ Sound(IdlePass.status) /\ IdlePass.pc = "idle"
<1>1. (CHOOSE s \in Specs : TRUE) \in Specs
  BY ServiceAssumption, Zenon
<1>2. NoStatus \in StatusType /\ NoStatus.uri = None /\ NoStatus.provisioning = "Unset"
  BY DEF NoStatus, StatusType, Statuses, Errors
<1> QED
  BY <1>1, <1>2 DEF IdlePass, PassOK, PassType, PCs, Sound, Errors

\* Of two counters only the one in use changes, up to its bound.
LEMMA UsedStep ==
  ASSUME UsedOK,
         \/ UNCHANGED used
         \/ Use("edits", MaxEdits) \/ Use("changes", MaxChanges)
         \/ Use("losses", MaxPodLosses) \/ Use("faults", MaxFaults)
         \/ Use("crashes", MaxCrashes)
  PROVE  UsedOK'
<1> USE DEF UsedOK
<1>0. /\ MaxEdits \in Nat /\ MaxChanges \in Nat /\ MaxPodLosses \in Nat
      /\ MaxFaults \in Nat /\ MaxCrashes \in Nat
  BY ServiceBoundsAssumption
<1>1. CASE UNCHANGED used
  BY <1>1
<1>2. CASE Use("edits", MaxEdits)
  <2>1. used' = [used EXCEPT !.edits = used.edits + 1] /\ used.edits < MaxEdits
    BY <1>2, Zenon DEF Use
  <2>2. used.edits + 1 \in 0 .. MaxEdits
    BY <1>0, <2>1
  <2> QED
    BY <2>1, <2>2
<1>3. CASE Use("changes", MaxChanges)
  <2>1. used' = [used EXCEPT !.changes = used.changes + 1] /\ used.changes < MaxChanges
    BY <1>3, Zenon DEF Use
  <2>2. used.changes + 1 \in 0 .. MaxChanges
    BY <1>0, <2>1
  <2> QED
    BY <2>1, <2>2
<1>4. CASE Use("losses", MaxPodLosses)
  <2>1. used' = [used EXCEPT !.losses = used.losses + 1] /\ used.losses < MaxPodLosses
    BY <1>4, Zenon DEF Use
  <2>2. used.losses + 1 \in 0 .. MaxPodLosses
    BY <1>0, <2>1
  <2> QED
    BY <2>1, <2>2
<1>5. CASE Use("faults", MaxFaults)
  <2>1. used' = [used EXCEPT !.faults = used.faults + 1] /\ used.faults < MaxFaults
    BY <1>5, Zenon DEF Use
  <2>2. used.faults + 1 \in 0 .. MaxFaults
    BY <1>0, <2>1
  <2> QED
    BY <2>1, <2>2
<1>6. CASE Use("crashes", MaxCrashes)
  <2>1. used' = [used EXCEPT !.crashes = used.crashes + 1] /\ used.crashes < MaxCrashes
    BY <1>6, Zenon DEF Use
  <2>2. used.crashes + 1 \in 0 .. MaxCrashes
    BY <1>0, <2>1
  <2> QED
    BY <2>1, <2>2
<1> QED
  BY <1>1, <1>2, <1>3, <1>4, <1>5, <1>6

\* A pass that goes on keeps the URI it has read.
Goes(q) == PassOK(q) /\ q.status.uri = pass.status.uri /\ Sound(q.status)

\* Places that need nothing to be known.
Plain == PCs \ {"ready", "deployment", "dashboards", "topics", "triggers"}

LEMMA GotoGoes ==
  ASSUME ServiceInv, NEW pc \in Plain, Goto(pc)
  PROVE  Goes(pass')
<1>1. pass' = [pass EXCEPT !.pc = pc] /\ pass \in PassType /\ Sound(pass.status) /\ pc \in PCs
  BY DEF Goto, ServiceInv, PassOK, Plain
<1>2. pass' \in PassType /\ pass'.pc = pc /\ pass'.status = pass.status
  BY <1>1 DEF PassType
<1> QED
  BY <1>1, <1>2 DEF Goes, PassOK, Plain

LEMMA FailGoes ==
  ASSUME ServiceInv, NEW error \in Errors, Fail(error)
  PROVE  Goes(pass')
<1>1. /\ pass' = [pass EXCEPT !.pc = "status", !.error = error]
      /\ pass \in PassType /\ Sound(pass.status)
  BY DEF Fail, ServiceInv, PassOK
<1>2. pass' \in PassType /\ pass'.pc = "status" /\ pass'.status = pass.status
  BY <1>1, Zenon DEF PassType, PCs
<1> QED
  BY <1>1, <1>2 DEF Goes, PassOK

-----------------------------------------------------------------------------
(* Steps of the worker.                                                     *)

\* The invariant is kept when the pass goes on and the objects it may have
\* written are well-typed, with a URL that is reported.
LEMMA WorkerStep ==
  ASSUME ServiceInv, Goes(pass'), ObjectsOK', UsedOK',
         UNCHANGED <<spec, status, cached, passCurrent, queued>>,
         current' \in SUBSET current, Reported(deployment.env["url"])'
  PROVE  ServiceInv'
<1>1. CacheOK'
  BY DEF ServiceInv, CacheOK
<1>2. PassOK(pass') /\ Sound(pass'.status) /\ pass'.status.uri = pass.status.uri
  BY DEF Goes
<1>3. current' \in SUBSET Kinds /\ passCurrent' \in BOOLEAN /\ queued' \in BOOLEAN
  BY DEF ServiceInv
<1>4. Sound(status)' /\ Sound(cached["runtime"].status)'
  BY DEF ServiceInv, Sound
<1>5. /\ Reported(cached["deployment"].spec.env["url"])'
      /\ Reported(pass.status.uri)' /\ Reported(cached["runtime"].status.uri)'
  BY <1>2 DEF ServiceInv, Reported
<1>6. /\ "runtime" \in current' => cached'["runtime"] = [spec |-> spec', status |-> status']
      /\ passCurrent' => pass'.status.uri = status'.uri
  BY <1>2 DEF ServiceInv
<1> QED
  BY <1>1, <1>2, <1>3, <1>4, <1>5, <1>6 DEF ServiceInv

\* It is kept by steps of the pass that write nothing.
LEMMA ReadingStep ==
  ASSUME ServiceInv, Goes(pass'), Fault \/ UNCHANGED used,
         UNCHANGED <<spec, status, ownedVars, extraVars, worldVars, cacheVars, passCurrent, queued>>
  PROVE  ServiceInv'
<1>1. ObjectsOK'
  BY DEF ServiceInv, ObjectsOK, ownedVars, extraVars, worldVars
<1>2. UsedOK'
  BY UsedStep DEF ServiceInv, Fault
<1>3. UNCHANGED <<spec, status, cached, passCurrent, queued>> /\ current' \in SUBSET current
  BY DEF cacheVars
<1>4. Reported(deployment.env["url"])'
  BY DEF ServiceInv, Reported, ownedVars
<1> QED
  BY <1>1, <1>2, <1>3, <1>4, WorkerStep

LEMMA MountedRefs ==
  ASSUME NEW o \in UserObjects \cup {None}
  PROVE  Mounted({o}) \in SUBSET Refs
BY DEF Mounted, Refs

\* The fields of a pass and of its spec.
LEMMA PassFields ==
  ASSUME ServiceInv
  PROVE  /\ pass \in PassType /\ pass.spec \in SpecType /\ pass.spec \in Specs
         /\ pass.status \in StatusType /\ Sound(pass.status) /\ pass.infras \in Seq(Infras)
         /\ pass.refs \in SUBSET Refs /\ pass.seen \in SUBSET Refs
         /\ pass.spec.props \in UserObjects \cup {None}
         /\ pass.spec.trust \in UserObjects \cup {None}
         /\ pass.spec.infra \in Seq(Infras)
<1>1. pass \in PassType /\ Sound(pass.status)
  BY DEF ServiceInv, PassOK
<1>2. pass.spec \in Specs /\ pass.spec \in SpecType
  BY <1>1, ServiceAssumption DEF PassType
<1>3. pass.status \in StatusType /\ pass.infras \in Seq(Infras)
      /\ pass.refs \in SUBSET Refs /\ pass.seen \in SUBSET Refs
  BY <1>1 DEF PassType
<1> QED
  BY <1>1, <1>2, <1>3 DEF SpecType

LEMMA FetchInstanceStep ==
  ASSUME ServiceInv, FetchKogitoRuntimeInstance
  PROVE  ServiceInv'
<1>1. /\ cached["runtime"] \in [spec : Specs, status : StatusType]
      /\ Sound(cached["runtime"].status) /\ Reported(cached["runtime"].status.uri)
  BY DEF ServiceInv, CacheOK
<1>2. pass' = [IdlePass EXCEPT !.pc = "rbac", !.spec = cached["runtime"].spec,
                               !.status = cached["runtime"].status]
  BY DEF FetchKogitoRuntimeInstance
<1>3. IdlePass \in PassType
  BY IdlePassOK DEF PassOK
<1>4. pass' \in PassType /\ pass'.pc = "rbac" /\ pass'.status = cached["runtime"].status
  BY <1>1, <1>2, <1>3, Zenon DEF PassType, PCs
<1>5. PassOK(pass') /\ Sound(pass'.status)
  BY <1>1, <1>4 DEF PassOK
<1>6. /\ queued' = FALSE /\ passCurrent' = ("runtime" \in current)
      /\ UNCHANGED <<spec, status, ownedVars, extraVars, worldVars, cacheVars, used>>
  BY ZenonT(30) DEF FetchKogitoRuntimeInstance
<1>7. ObjectsOK' /\ CacheOK' /\ UsedOK'
  BY <1>6 DEF ServiceInv, ObjectsOK, CacheOK, UsedOK, ownedVars, extraVars, worldVars, cacheVars
<1>8. UNCHANGED <<spec, status, deployment, cached, current>>
  BY <1>6, ZenonT(30) DEF ownedVars, cacheVars
<1>9. /\ Reported(deployment.env["url"])' /\ Reported(cached["deployment"].spec.env["url"])'
      /\ Reported(pass.status.uri)' /\ Reported(cached["runtime"].status.uri)'
  BY <1>1, <1>4, <1>8 DEF ServiceInv, Reported
<1>10. passCurrent' \in BOOLEAN /\ (passCurrent' => "runtime" \in current)
  <2>1. passCurrent' \in BOOLEAN
    BY <1>6
  <2>2. passCurrent' => "runtime" \in current
    BY <1>6, ZenonT(30)
  <2> QED
    BY <2>1, <2>2
<1>11. "runtime" \in current => cached["runtime"].status = status
  BY DEF ServiceInv
<1>12. passCurrent' => pass'.status.uri = status'.uri
  BY <1>4, <1>8, <1>10, <1>11
<1>13. Sound(status)' /\ Sound(cached["runtime"].status)' /\ queued' \in BOOLEAN
  BY <1>6, <1>8, Zenon DEF ServiceInv, Sound
<1>14. /\ current' \in SUBSET Kinds
       /\ "runtime" \in current' => cached'["runtime"] = [spec |-> spec', status |-> status']
  BY <1>8 DEF ServiceInv
<1> QED
  BY <1>5, <1>7, <1>9, <1>10, <1>12, <1>13, <1>14 DEF ServiceInv

LEMMA SetupRBACStep ==
  ASSUME ServiceInv, SetupRBAC
  PROVE  ServiceInv'
<1>1. UNCHANGED <<spec, status, ownedVars, extraVars, worldVars, cacheVars>>
  BY DEF SetupRBAC
<1>2. CASE Goto("config") /\ UNCHANGED <<queued, passCurrent, used>>
  <2>1. Goes(pass')
    BY <1>2, GotoGoes DEF Plain, PCs
  <2> QED
    BY <1>1, <1>2, <2>1, ReadingStep
<1>3. CASE Fault /\ pass' = IdlePass /\ passCurrent' = FALSE /\ queued' = TRUE
  <2>1. UsedOK'
    BY <1>3, UsedStep, ZenonT(30) DEF ServiceInv, Fault
  <2>2. ObjectsOK' /\ CacheOK'
    BY <1>1 DEF ServiceInv, ObjectsOK, CacheOK, ownedVars, extraVars, worldVars, cacheVars
  <2>3. UNCHANGED <<spec, status, deployment, cached, current>>
    BY <1>1 DEF ownedVars, cacheVars
  <2>4. PassOK(pass') /\ Sound(pass'.status) /\ pass'.status.uri = None
    BY <1>3, IdlePassOK, Zenon
  <2>5. /\ Reported(deployment.env["url"])' /\ Reported(cached["deployment"].spec.env["url"])'
        /\ Reported(pass.status.uri)' /\ Reported(cached["runtime"].status.uri)'
    BY <2>3, <2>4, ZenonT(30) DEF ServiceInv, Reported
  <2> QED
    BY <1>3, <2>1, <2>2, <2>3, <2>4, <2>5, ZenonT(30) DEF ServiceInv, Sound
<1> QED
  BY <1>2, <1>3, Zenon DEF SetupRBAC

LEMMA ConfigStep ==
  ASSUME ServiceInv, ConfigReconcile
  PROVE  ServiceInv'
<1> DEFINE q == [pass EXCEPT !.pc = "properties", !.refs = @ \cup {Own}]
<1>1. Goes(pass')
  <2>1. Goes(q)
    <3>1. Own \in Refs
      BY DEF Refs
    <3>2. q \in PassType /\ q.pc = "properties" /\ q.status = pass.status
      BY <3>1, PassFields, ZenonT(30) DEF PassType, PCs
    <3> QED
      BY <3>2, PassFields DEF Goes, PassOK
  <2>2. pass' = q \/ Fail("ReconciliationFailure")
    BY DEF ConfigReconcile
  <2>3. "ReconciliationFailure" \in Errors
    BY DEF Errors
  <2> HIDE DEF q
  <2> QED
    BY <2>1, <2>2, <2>3, FailGoes
<1>2. /\ config' = config \/ config' = pass.spec.config
      /\ UNCHANGED current \/ Outdate("config")
      /\ UNCHANGED used \/ Fault
      /\ UNCHANGED <<spec, status, deployment, available, service, route, stream,
                     extraVars, worldVars, cached, passCurrent, queued>>
  BY DEF ConfigReconcile
<1>3. pass.spec.config \in Values
  BY PassFields DEF SpecType
<1>4. ObjectsOK'
  BY <1>2, <1>3, ZenonT(30) DEF ServiceInv, ObjectsOK, extraVars, worldVars
<1>5. UsedOK'
  BY <1>2, UsedStep DEF ServiceInv, Fault
<1>6. current' \in SUBSET current
  BY <1>2 DEF Outdate
<1>7. Reported(deployment.env["url"])'
  BY <1>2 DEF ServiceInv, Reported
<1> QED
  BY <1>1, <1>2, <1>4, <1>5, <1>6, <1>7, WorkerStep

LEMMA PropertiesStep ==
  ASSUME ServiceInv, PropertiesConfigMapReconcile
  PROVE  ServiceInv'
<1> DEFINE q == [pass EXCEPT !.pc = "truststore", !.refs = @ \cup Mounted({pass.spec.props})]
<1>1. Goes(q)
  <2>1. Mounted({pass.spec.props}) \in SUBSET Refs
    BY PassFields, MountedRefs, Zenon
  <2>2. q \in PassType /\ q.pc = "truststore" /\ q.status = pass.status
    BY <2>1, PassFields, Zenon DEF PassType, PCs
  <2> QED
    BY <2>2, PassFields DEF Goes, PassOK
<1>2. pass' = q \/ Fail("ReconciliationFailure")
  BY DEF PropertiesConfigMapReconcile
<1>3. "ReconciliationFailure" \in Errors
  BY DEF Errors
<1>4. UNCHANGED <<spec, status, ownedVars, extraVars, worldVars, cacheVars, passCurrent, queued, used>>
  BY DEF PropertiesConfigMapReconcile
<1> HIDE DEF q
<1> QED
  BY <1>1, <1>2, <1>3, <1>4, FailGoes, ReadingStep

LEMMA TrustStoreStep ==
  ASSUME ServiceInv, TrustStoreReconcile
  PROVE  ServiceInv'
<1> DEFINE q == [pass EXCEPT !.pc = "infra", !.infras = pass.spec.infra,
                             !.refs = @ \cup Mounted({pass.spec.trust})]
<1>1. Goes(q)
  <2>1. Mounted({pass.spec.trust}) \in SUBSET Refs
    BY PassFields, MountedRefs, Zenon
  <2>2. q \in PassType /\ q.pc = "infra" /\ q.status = pass.status
    BY <2>1, PassFields, Zenon DEF PassType, PCs
  <2> QED
    BY <2>2, PassFields DEF Goes, PassOK
<1>2. pass' = q \/ Fail("TrustStoreMountFailure")
  BY DEF TrustStoreReconcile
<1>3. "TrustStoreMountFailure" \in Errors
  BY DEF Errors
<1>4. UNCHANGED <<spec, status, ownedVars, extraVars, worldVars, cacheVars, passCurrent, queued, used>>
  BY DEF TrustStoreReconcile
<1> HIDE DEF q
<1> QED
  BY <1>1, <1>2, <1>3, <1>4, FailGoes, ReadingStep

LEMMA FetchInfraStep ==
  ASSUME ServiceInv, FetchInfra
  PROVE  ServiceInv'
<1> DEFINE i == Head(pass.infras)
           q == [pass EXCEPT !.pc = "ready", !.seen = {InfraRef(i, v) : v \in cached["infra"][i].refs}]
<1>1. pass.infras # << >> => Goes(q)
  <2> SUFFICES ASSUME pass.infras # << >>
               PROVE  Goes(q)
    OBVIOUS
  <2>1. i \in Infras
    BY PassFields
  <2>2. cached["infra"][i].refs \in SUBSET Values
    BY <2>1 DEF ServiceInv, CacheOK, InfraType
  <2> HIDE DEF i
  <2>3. {InfraRef(i, v) : v \in cached["infra"][i].refs} \in SUBSET Refs
    BY <2>1, <2>2, SMTT(30) DEF Refs
  <2>4. q \in PassType /\ q.pc = "ready" /\ q.status = pass.status /\ q.infras = pass.infras
    BY <2>3, PassFields, Zenon DEF PassType, PCs
  <2> QED
    BY <2>4, PassFields DEF Goes, PassOK
<1>2. \/ Goto("stream")
      \/ pass.infras # << >> /\ pass' = q
      \/ Fail("ReconciliationFailure")
  BY DEF FetchInfra
<1>3. "ReconciliationFailure" \in Errors /\ "stream" \in Plain
  BY DEF Errors, Plain, PCs
<1>4. UNCHANGED <<spec, status, ownedVars, extraVars, worldVars, cacheVars, passCurrent, queued, used>>
  BY DEF FetchInfra
<1> HIDE DEF q
<1> QED
  BY <1>1, <1>2, <1>3, <1>4, GotoGoes, FailGoes, ReadingStep

LEMMA CheckInfraStep ==
  ASSUME ServiceInv, CheckInfraDependencies
  PROVE  ServiceInv'
<1> DEFINE q == [pass EXCEPT !.pc = "infra", !.infras = Tail(@), !.refs = @ \cup pass.seen, !.seen = {}]
<1>1. Goes(q)
  <2>1. pass.infras # << >>
    BY DEF CheckInfraDependencies, At, ServiceInv, PassOK
  <2>2. Tail(pass.infras) \in Seq(Infras)
    BY <2>1, PassFields
  <2>3. q \in PassType /\ q.pc = "infra" /\ q.status = pass.status
    BY <2>2, PassFields, ZenonT(30) DEF PassType, PCs
  <2> QED
    BY <2>3, PassFields DEF Goes, PassOK
<1>2. pass' = q \/ Fail("KogitoInfraNotReady") \/ Fail("ReconciliationFailure")
  <2> DEFINE copy == cached["infra"][Head(pass.infras)]
  <2>1. CASE copy.exists /\ copy.configured
    BY <2>1 DEF CheckInfraDependencies
  <2>2. CASE copy.exists /\ ~copy.configured
    BY <2>2 DEF CheckInfraDependencies
  <2>3. CASE ~copy.exists
    BY <2>3, Zenon DEF CheckInfraDependencies
  <2> QED
    BY <2>1, <2>2, <2>3
<1>3. "ReconciliationFailure" \in Errors /\ "KogitoInfraNotReady" \in Errors
  BY Zenon DEF Errors
<1>4. UNCHANGED <<spec, status, ownedVars, extraVars, worldVars, cacheVars, passCurrent, queued, used>>
  BY DEF CheckInfraDependencies
<1> HIDE DEF q
<1> QED
  BY <1>1, <1>2, <1>3, <1>4, FailGoes, ReadingStep

LEMMA ImageStreamStep ==
  ASSUME ServiceInv, ReconcileImageStream
  PROVE  ServiceInv'
<1>1. Goes(pass')
  <2>1. Goto("image") \/ Fail("ProcessingImageStreamDelta") \/ Fail("ReconciliationFailure")
    BY DEF ReconcileImageStream
  <2>2. /\ "image" \in Plain /\ "ProcessingImageStreamDelta" \in Errors
        /\ "ReconciliationFailure" \in Errors
    BY DEF Plain, PCs, Errors
  <2> QED
    BY <2>1, <2>2, GotoGoes, FailGoes
<1>2. /\ stream' = stream \/ stream' = [stream EXCEPT !.exists = TRUE, !.owned = TRUE]
      /\ UNCHANGED current \/ Outdate("stream")
      /\ UNCHANGED used \/ Fault
      /\ UNCHANGED <<spec, status, config, deployment, available, service, route,
                     extraVars, worldVars, cached, passCurrent, queued>>
  BY DEF ReconcileImageStream
<1>3. stream' \in Streams
  BY <1>2, Zenon DEF ServiceInv, ObjectsOK, Streams
<1>4. ObjectsOK'
  BY <1>2, <1>3 DEF ServiceInv, ObjectsOK, extraVars, worldVars
<1>5. UsedOK'
  BY <1>2, UsedStep DEF ServiceInv, Fault
<1>6. current' \in SUBSET current
  BY <1>2 DEF Outdate
<1>7. Reported(deployment.env["url"])'
  BY <1>2 DEF ServiceInv, Reported
<1> QED
  BY <1>1, <1>2, <1>4, <1>5, <1>6, <1>7, WorkerStep

LEMMA ResolveImageStep ==
  ASSUME ServiceInv, ResolveImage
  PROVE  ServiceInv'
<1> DEFINE q == [pass EXCEPT !.pc = "deployment", !.image = tag]
<1>1. \/ tag # None /\ pass' = q
      \/ Fail("ReconciliationFailure") \/ Fail("ImageNotFound")
  <2>1. CASE cached["stream"].failed
    BY <2>1 DEF ResolveImage
  <2>2. CASE ~cached["stream"].failed /\ tag = None
    BY <2>2 DEF ResolveImage
  <2>3. CASE ~cached["stream"].failed /\ tag # None
    BY <2>3 DEF ResolveImage
  <2> QED
    BY <2>1, <2>2, <2>3
<1>2. tag # None => Goes(q)
  <2> SUFFICES ASSUME tag # None
               PROVE  Goes(q)
    OBVIOUS
  <2>1. tag \in Images
    BY DEF ServiceInv, ObjectsOK
  <2>2. q \in PassType /\ q.pc = "deployment" /\ q.status = pass.status /\ q.image = tag
    BY <2>1, PassFields, Zenon DEF PassType, PCs
  <2> QED
    BY <2>1, <2>2, PassFields DEF Goes, PassOK
<1>3. "ReconciliationFailure" \in Errors /\ "ImageNotFound" \in Errors
  BY DEF Errors
<1>4. /\ UNCHANGED used \/ Fault
      /\ UNCHANGED <<spec, status, ownedVars, extraVars, worldVars, cacheVars, passCurrent, queued>>
  BY DEF ResolveImage
<1> HIDE DEF q
<1> QED
  BY <1>1, <1>2, <1>3, <1>4, FailGoes, ReadingStep

\* The Deployment that is written: its type, and its URL, which is the one of
\* the pass or that of the copy of the Deployment.
LEMMA RequestedDeployment ==
  ASSUME ServiceInv, pass.image \in Images
  PROVE  LET copy == cached["deployment"].spec
             written == IgnoreInjectedVariables(copy,
                          CreateDeployment(pass.spec, pass.status.uri, pass.image, pass.refs))
         IN  written \in Deployments /\ Reported(written.env["url"])
<1> DEFINE copy == cached["deployment"].spec
           env == RequestedEnv(pass.spec, pass.status.uri)
           d == CreateDeployment(pass.spec, pass.status.uri, pass.image, pass.refs)
           taken == [n \in EnvNames |-> IF env[n] = None THEN copy.env[n] ELSE env[n]]
<1>1. /\ pass.spec.replicas \in 0 .. MaxReplicas /\ pass.spec.env \in Values \cup {None}
      /\ pass.status.uri \in {"uri", None}
  BY PassFields DEF SpecType, StatusType
<1>2. env \in Env /\ env["url"] = pass.status.uri
  BY <1>1 DEF RequestedEnv, Env, EnvNames
<1>3. copy \in Deployments \cup {NoDeployment} /\ copy.env \in Env
  BY DEF ServiceInv, CacheOK, Deployments, NoDeployment, NoEnv, Env
<1> HIDE DEF env, copy
<1>4. d = [replicas |-> pass.spec.replicas, image |-> pass.image, refs |-> pass.refs, env |-> env]
  BY PassFields DEF CreateDeployment, MountReferences, env
<1>5. d \in Deployments /\ d.env = env
  BY <1>1, <1>2, <1>4, PassFields DEF Deployments
<1>6. taken \in Env /\ taken["url"] \in {env["url"], copy.env["url"]}
  BY <1>2, <1>3 DEF Env, EnvNames
<1> HIDE DEF d, taken
<1>7. \/ IgnoreInjectedVariables(copy, d) = d
      \/ IgnoreInjectedVariables(copy, d) = [d EXCEPT !.env = taken]
  BY <1>5 DEF IgnoreInjectedVariables, taken
<1>8. [d EXCEPT !.env = taken] \in Deployments /\ [d EXCEPT !.env = taken].env = taken
  BY <1>5, <1>6 DEF Deployments
<1>9. Reported(env["url"]) /\ Reported(copy.env["url"])
  BY <1>2 DEF ServiceInv, copy
<1>10. IgnoreInjectedVariables(copy, d) \in Deployments
       /\ Reported(IgnoreInjectedVariables(copy, d).env["url"])
  BY <1>5, <1>6, <1>7, <1>8, <1>9, Zenon
<1> QED
  BY <1>10 DEF copy, d

LEMMA DeploymentStep ==
  ASSUME ServiceInv, DeploymentReconcile
  PROVE  ServiceInv'
<1> DEFINE written == IgnoreInjectedVariables(cached["deployment"].spec,
                        CreateDeployment(pass.spec, pass.status.uri, pass.image, pass.refs))
           q == [pass EXCEPT !.pc = "status", !.panics = TRUE]
<1>1. pass.pc = "deployment"
  BY DEF DeploymentReconcile, At
<1>2. pass.image \in Images
  BY <1>1, Zenon DEF ServiceInv, PassOK
<1>3. written \in Deployments /\ Reported(written.env["url"])
  BY <1>2, RequestedDeployment
<1>4. /\ deployment' = deployment \/ deployment' = written
      /\ UNCHANGED current \/ Outdate("deployment")
      /\ UNCHANGED used \/ Fault
      /\ UNCHANGED <<spec, status, config, available, service, route, stream,
                     extraVars, worldVars, cached, passCurrent, queued>>
      /\ Goto("service") \/ Fail("ReconciliationFailure") \/ pass' = q
  BY DEF DeploymentReconcile
<1> HIDE DEF written
<1>5. Goes(pass')
  <2>1. "service" \in Plain /\ "ReconciliationFailure" \in Errors
    BY DEF Plain, PCs, Errors
  <2>2. q \in PassType /\ q.pc = "status" /\ q.status = pass.status
    BY PassFields, Zenon DEF PassType, PCs
  <2>3. Goes(q)
    BY <2>2, PassFields DEF Goes, PassOK
  <2> HIDE DEF q
  <2> QED
    BY <1>4, <2>1, <2>3, GotoGoes, FailGoes
<1>6. ObjectsOK'
  BY <1>3, <1>4 DEF ServiceInv, ObjectsOK, extraVars, worldVars
<1>7. UsedOK'
  BY <1>4, UsedStep DEF ServiceInv, Fault
<1>8. current' \in SUBSET current
  BY <1>4 DEF Outdate
<1>9. Reported(deployment.env["url"])'
  BY <1>3, <1>4, ZenonT(30) DEF ServiceInv, Reported
<1> QED
  BY <1>4, <1>5, <1>6, <1>7, <1>8, <1>9, WorkerStep

LEMMA ServiceStep ==
  ASSUME ServiceInv, ServiceReconcile
  PROVE  ServiceInv'
<1>1. Goes(pass')
  <2>1. Goto("route") \/ Fail("ReconciliationFailure")
    BY DEF ServiceReconcile
  <2>2. "route" \in Plain /\ "ReconciliationFailure" \in Errors
    BY DEF Plain, PCs, Errors
  <2> QED
    BY <2>1, <2>2, GotoGoes, FailGoes
<1>2. /\ service' = service \/ service' = TRUE
      /\ UNCHANGED current \/ Outdate("service")
      /\ UNCHANGED used \/ Fault
      /\ UNCHANGED <<spec, status, config, deployment, available, route, stream,
                     extraVars, worldVars, cached, passCurrent, queued>>
  BY DEF ServiceReconcile, CreateService
<1>3. ObjectsOK'
  BY <1>2, ZenonT(30) DEF ServiceInv, ObjectsOK, extraVars, worldVars
<1>4. UsedOK'
  BY <1>2, UsedStep DEF ServiceInv, Fault
<1>5. current' \in SUBSET current
  BY <1>2, ZenonT(30) DEF Outdate
<1>6. Reported(deployment.env["url"])'
  BY <1>2 DEF ServiceInv, Reported
<1> QED
  BY <1>1, <1>2, <1>3, <1>4, <1>5, <1>6, WorkerStep

LEMMA RouteStep ==
  ASSUME ServiceInv, RouteReconcile
  PROVE  ServiceInv'
<1>1. Goes(pass')
  <2>1. Goto("prometheus") /\ "prometheus" \in Plain
    BY DEF RouteReconcile, Plain, PCs
  <2> QED
    BY <2>1, GotoGoes
<1>2. /\ route' = route \/ route' = "created"
      /\ UNCHANGED current \/ Outdate("route")
      /\ UNCHANGED used \/ Fault
      /\ UNCHANGED <<spec, status, config, deployment, available, service, stream,
                     extraVars, worldVars, cached, passCurrent, queued>>
  BY Zenon DEF RouteReconcile, CreateRoute
<1>3. ObjectsOK'
  BY <1>2, ZenonT(30) DEF ServiceInv, ObjectsOK, extraVars, worldVars
<1>4. UsedOK'
  BY <1>2, UsedStep DEF ServiceInv, Fault
<1>5. current' \in SUBSET current
  BY <1>2, ZenonT(30) DEF Outdate
<1>6. Reported(deployment.env["url"])'
  BY <1>2 DEF ServiceInv, Reported
<1> QED
  BY <1>1, <1>2, <1>3, <1>4, <1>5, <1>6, WorkerStep

\* Steps that may create an object for monitoring or messaging, or a trigger.
LEMMA ExtrasStep ==
  ASSUME ServiceInv, Goes(pass'), UNCHANGED used \/ Fault,
         \/ UNCHANGED <<extraVars, current>>
         \/ Outdate("extra") /\ UNCHANGED triggers /\ \E o \in Extras : extras' = extras \cup {o}
         \/ /\ Outdate("extra") /\ UNCHANGED extras
            /\ \E e \in Events : /\ triggers[e] < MaxTriggers
                                 /\ triggers' = [triggers EXCEPT ![e] = @ + 1],
         UNCHANGED <<spec, status, ownedVars, worldVars, cached, passCurrent, queued>>
  PROVE  ServiceInv'
<1>1. extras' \in SUBSET Extras
  BY DEF ServiceInv, ObjectsOK, extraVars
<1>2. triggers' \in [Events -> 0 .. MaxTriggers]
  <2>1. triggers \in [Events -> 0 .. MaxTriggers] /\ MaxTriggers \in Nat
    BY ServiceBoundsAssumption DEF ServiceInv, ObjectsOK
  <2>2. CASE UNCHANGED triggers
    BY <2>1, <2>2
  <2>3. ASSUME NEW e \in Events, triggers[e] < MaxTriggers,
               triggers' = [triggers EXCEPT ![e] = @ + 1]
        PROVE  triggers' \in [Events -> 0 .. MaxTriggers]
    <3>1. triggers[e] + 1 \in 0 .. MaxTriggers
      BY <2>1, <2>3
    <3> QED
      BY <2>1, <2>3, <3>1
  <2> QED
    BY <2>2, <2>3, SMTT(30) DEF extraVars
<1>3. ObjectsOK'
  BY <1>1, <1>2, ZenonT(30) DEF ServiceInv, ObjectsOK, ownedVars, worldVars
<1>4. UsedOK'
  BY UsedStep DEF ServiceInv, Fault
<1>5. current' \in SUBSET current
  BY ZenonT(30) DEF Outdate
<1>6. Reported(deployment.env["url"])' /\ UNCHANGED <<spec, status, cached, passCurrent, queued>>
  BY DEF ServiceInv, Reported, ownedVars
<1> QED
  BY <1>3, <1>4, <1>5, <1>6, WorkerStep, ZenonT(30)

LEMMA ExtrasFields ==
  /\ "serviceMonitor" \in Extras /\ "sinkBinding" \in Extras
  /\ Dashboards \subseteq Extras /\ Topics \subseteq Extras
BY DEF Extras

LEMMA PrometheusStep ==
  ASSUME ServiceInv, ConfigurePrometheus
  PROVE  ServiceInv'
<1>1. Goto("grafana") \/ Fail("MonitoringIntegrationFailure")
  BY DEF ConfigurePrometheus, CreateIfNotExists
<1>2. "grafana" \in Plain /\ "MonitoringIntegrationFailure" \in Errors
  BY DEF Plain, PCs, Errors
<1>3. Goes(pass')
  BY <1>1, <1>2, GotoGoes, FailGoes
<1>4. /\ UNCHANGED used \/ Fault
      /\ \/ UNCHANGED <<extraVars, current>>
         \/ /\ Outdate("extra") /\ UNCHANGED triggers
            /\ extras' = extras \cup {"serviceMonitor"}
      /\ UNCHANGED <<spec, status, ownedVars, worldVars, cached, passCurrent, queued>>
  BY DEF ConfigurePrometheus, CreateIfNotExists
<1> QED
  BY <1>3, <1>4, ExtrasFields, ExtrasStep

LEMMA GrafanaStep ==
  ASSUME ServiceInv, FetchGrafanaDashboards
  PROVE  ServiceInv'
<1> DEFINE q == [pass EXCEPT !.pc = "dashboards", !.todo = Dashboards]
<1>1. Goto("kafka") \/ pass' = q \/ Fail("MonitoringIntegrationFailure")
  BY DEF FetchGrafanaDashboards
<1>2. "kafka" \in Plain /\ "MonitoringIntegrationFailure" \in Errors
  BY DEF Plain, PCs, Errors
<1>3. Goes(q)
  <2>1. q \in PassType /\ q.pc = "dashboards" /\ q.status = pass.status /\ q.todo = Dashboards
    BY PassFields, ExtrasFields, Zenon DEF PassType, PCs
  <2> QED
    BY <2>1, PassFields DEF Goes, PassOK
<1>4. /\ UNCHANGED used \/ Fault
      /\ UNCHANGED <<spec, status, ownedVars, extraVars, worldVars, cacheVars, passCurrent, queued>>
  BY DEF FetchGrafanaDashboards
<1> HIDE DEF q
<1> QED
  BY <1>1, <1>2, <1>3, <1>4, GotoGoes, FailGoes, ReadingStep

LEMMA DoneGoes ==
  ASSUME ServiceInv, NEW o, Done(o), pass.pc \in {"dashboards", "topics", "triggers"}
  PROVE  Goes(pass')
<1>1. pass' = [pass EXCEPT !.todo = pass.todo \ {o}] /\ PassOK(pass)
  BY DEF Done, ServiceInv
<1>2. /\ pass' \in PassType /\ pass'.pc = pass.pc /\ pass'.status = pass.status
      /\ pass'.todo = pass.todo \ {o}
  BY <1>1, PassFields, Zenon DEF PassType
<1> QED
  BY <1>1, <1>2, PassFields DEF Goes, PassOK

LEMMA DashboardsStep ==
  ASSUME ServiceInv, DeployGrafanaDashboards
  PROVE  ServiceInv'
<1>1. pass.pc = "dashboards" /\ pass.todo \subseteq Extras
  BY ExtrasFields DEF DeployGrafanaDashboards, At, ServiceInv, PassOK
<1>2. "kafka" \in Plain /\ "MonitoringIntegrationFailure" \in Errors
  BY DEF Plain, PCs, Errors
<1>3. UNCHANGED <<spec, status, ownedVars, worldVars, cached, passCurrent, queued>>
  BY DEF DeployGrafanaDashboards
<1>4. CASE Goto("kafka") /\ UNCHANGED <<extraVars, current, used>>
  BY <1>2, <1>3, <1>4, GotoGoes, ExtrasStep, ZenonT(30)
<1>5. ASSUME NEW o \in pass.todo, CreateIfNotExists(o, Done(o), "MonitoringIntegrationFailure")
      PROVE  ServiceInv'
  <2>1. Done(o) \/ Fail("MonitoringIntegrationFailure")
    BY <1>5 DEF CreateIfNotExists
  <2>2. Goes(pass')
    BY <1>1, <1>2, <2>1, DoneGoes, FailGoes
  <2>3. /\ UNCHANGED used \/ Fault
        /\ \/ UNCHANGED <<extraVars, current>>
           \/ Outdate("extra") /\ UNCHANGED triggers /\ extras' = extras \cup {o}
    BY <1>5 DEF CreateIfNotExists
  <2> QED
    BY <1>1, <1>3, <2>2, <2>3, ExtrasStep
<1> QED
  BY <1>4, <1>5, ZenonT(30) DEF DeployGrafanaDashboards

\* What the service lists is to be made, and its events are in the status.
LEMMA TopicsGoes ==
  ASSUME ServiceInv, NEW pc \in {"topics", "triggers"}, NEW todo,
         pc = "topics" => todo = Topics, pc = "triggers" => todo = Events,
         FetchTopics(pc, todo)
  PROVE  Goes(pass') /\ (UNCHANGED used \/ Fault)
<1> DEFINE q(list, events) == [pass EXCEPT !.pc = pc, !.todo = list, !.status.events = events]
<1>1. pass' = q({}, {}) \/ pass' = q(todo, Events) \/ Fail("MessagingProvisionFailure")
  BY DEF FetchTopics
<1>2. "MessagingProvisionFailure" \in Errors /\ pc \in PCs
  BY DEF PCs, Errors
<1>3. todo \in SUBSET (Extras \cup Events)
  BY ExtrasFields
<1>4. ASSUME NEW list \in {{}, todo}, NEW events \in SUBSET Events
      PROVE  Goes(q(list, events))
  <2> DEFINE st == [pass.status EXCEPT !.events = events]
             r == q(list, events)
  <2>1. st \in StatusType /\ st.uri = pass.status.uri /\ Sound(st)
    BY PassFields DEF StatusType, Sound
  <2>2. r.status = st /\ r.pc = pc /\ r.todo = list
    BY PassFields DEF PassType
  <2>3. r \in PassType
    <3>1. r = [[pass EXCEPT !.pc = pc, !.todo = list] EXCEPT !.status = st]
      BY PassFields DEF PassType
    <3> HIDE DEF st, r
    <3> QED
      BY <1>2, <1>3, <1>4, <2>1, <3>1, PassFields, Zenon DEF PassType
  <2> HIDE DEF st, r
  <2>4. Goes(r)
    BY <1>4, <2>1, <2>2, <2>3 DEF Goes, PassOK
  <2> QED
    BY <2>4 DEF r
<1>5. UNCHANGED used \/ Fault
  BY DEF FetchTopics
<1> HIDE DEF q
<1> QED
  BY <1>1, <1>2, <1>4, <1>5, FailGoes

LEMMA KafkaStep ==
  ASSUME ServiceInv, KafkaMessaging
  PROVE  ServiceInv'
<1>1. /\ \/ Fail("MessagingProvisionFailure") /\ UNCHANGED used
         \/ Goto("knative") /\ UNCHANGED used
         \/ FetchTopics("topics", Topics)
         \/ Goto("knative") /\ Fault
      /\ UNCHANGED <<spec, status, ownedVars, extraVars, worldVars, cacheVars, passCurrent, queued>>
  BY DEF KafkaMessaging
<1>2. "MessagingProvisionFailure" \in Errors /\ "knative" \in Plain
  BY DEF Plain, PCs, Errors
<1>3. Goes(pass') /\ (UNCHANGED used \/ Fault)
  BY <1>1, <1>2, GotoGoes, FailGoes, TopicsGoes, Zenon
<1> QED
  BY <1>1, <1>3, ReadingStep

LEMMA KafkaTopicsStep ==
  ASSUME ServiceInv, CreateRequiredKafkaTopics
  PROVE  ServiceInv'
<1>1. pass.pc = "topics" /\ pass.todo \subseteq Extras
  BY ExtrasFields DEF CreateRequiredKafkaTopics, At, ServiceInv, PassOK
<1>2. "knative" \in Plain /\ "MessagingProvisionFailure" \in Errors
  BY DEF Plain, PCs, Errors
<1>3. UNCHANGED <<spec, status, ownedVars, worldVars, cached, passCurrent, queued>>
  BY DEF CreateRequiredKafkaTopics
<1>4. CASE Goto("knative") /\ UNCHANGED <<extraVars, current, used>>
  BY <1>2, <1>3, <1>4, GotoGoes, ExtrasStep, Zenon
<1>5. ASSUME NEW o \in pass.todo, CreateKafkaTopic(o)
      PROVE  ServiceInv'
  <2>1. Done(o) \/ Fail("MessagingProvisionFailure")
    BY <1>5, Zenon DEF CreateKafkaTopic, CreateIfNotExists
  <2>2. Goes(pass')
    BY <1>1, <1>2, <2>1, DoneGoes, FailGoes, ZenonT(30)
  <2>3. /\ UNCHANGED used \/ Fault
        /\ \/ UNCHANGED <<extraVars, current>>
           \/ Outdate("extra") /\ UNCHANGED triggers /\ extras' = extras \cup {o}
    BY <1>5 DEF CreateKafkaTopic, CreateIfNotExists
  <2> QED
    BY <1>1, <1>3, <2>2, <2>3, ExtrasStep, Zenon
<1> QED
  BY <1>4, <1>5, ZenonT(30) DEF CreateRequiredKafkaTopics

LEMMA KnativeStep ==
  ASSUME ServiceInv, KnativeMessaging
  PROVE  ServiceInv'
<1>1. Goto("status") \/ Goto("events") \/ Fail("MessagingProvisionFailure")
  BY DEF KnativeMessaging, CreateIfNotExists
<1>2. "status" \in Plain /\ "events" \in Plain /\ "MessagingProvisionFailure" \in Errors
  BY DEF Plain, PCs, Errors
<1>3. Goes(pass')
  BY <1>1, <1>2, GotoGoes, FailGoes, ZenonT(30)
<1>4. /\ UNCHANGED used \/ Fault
      /\ \/ UNCHANGED <<extraVars, current>>
         \/ /\ Outdate("extra") /\ UNCHANGED triggers
            /\ extras' = extras \cup {"sinkBinding"}
      /\ UNCHANGED <<spec, status, ownedVars, worldVars, cached, passCurrent, queued>>
  BY DEF KnativeMessaging, CreateIfNotExists
<1> QED
  BY <1>3, <1>4, ExtrasFields, ExtrasStep

LEMMA FetchEventsStep ==
  ASSUME ServiceInv, FetchEvents
  PROVE  ServiceInv'
<1>1. /\ FetchTopics("triggers", Events)
      /\ UNCHANGED <<spec, status, ownedVars, extraVars, worldVars, cacheVars, passCurrent, queued>>
  BY Zenon DEF FetchEvents
<1> QED
  BY <1>1, TopicsGoes, ReadingStep

LEMMA TriggersStep ==
  ASSUME ServiceInv, CreateKnativeTriggersIfNotExists
  PROVE  ServiceInv'
<1>1. pass.pc = "triggers" /\ pass.todo \subseteq Events
  BY DEF CreateKnativeTriggersIfNotExists, At, ServiceInv, PassOK
<1>2. "status" \in Plain /\ "MessagingProvisionFailure" \in Errors
  BY ZenonT(30) DEF Plain, PCs, Errors
<1>3. UNCHANGED <<spec, status, ownedVars, worldVars, cached, passCurrent, queued>>
  BY DEF CreateKnativeTriggersIfNotExists
<1>4. CASE Goto("status") /\ UNCHANGED <<extraVars, current, used>>
  BY <1>2, <1>3, <1>4, GotoGoes, ExtrasStep, Zenon
<1>5. ASSUME NEW e \in pass.todo,
             \/ Done(e) /\ UNCHANGED <<extraVars, current, used>>
             \/ /\ triggers[e] < MaxTriggers /\ triggers' = [triggers EXCEPT ![e] = @ + 1]
                /\ Outdate("extra") /\ Done(e) /\ UNCHANGED <<extras, used>>
             \/ /\ Fault /\ Fail("MessagingProvisionFailure") /\ UNCHANGED <<extraVars, current>>
      PROVE  ServiceInv'
  <2>1. Goes(pass')
    BY <1>1, <1>2, <1>5, DoneGoes, FailGoes
  <2> QED
    BY <1>1, <1>3, <1>5, <2>1, ExtrasStep, ZenonT(30)
<1> QED
  BY <1>4, <1>5, ZenonT(30) DEF CreateKnativeTriggersIfNotExists

-----------------------------------------------------------------------------
(* The status.                                                              *)

\* The transitions of the conditions keep a status sound, whatever the
\* numbers of replicas are, and its URI.
LEMMA FailedStatus ==
  ASSUME NEW st \in StatusType, NEW error \in Errors, NEW n \in Nat
  PROVE  LET f == SetFailedConditions(st, error, n)
         IN  f \in StatusType /\ Sound(f) /\ f.uri = st.uri
<1> DEFINE f == SetFailedConditions(st, error, n)
<1>1. /\ f \in StatusType /\ f.uri = st.uri
      /\ f.provisioning = IF IsReconciliationError(error) THEN "InProgress" ELSE "UnrecoverableError"
  BY Zenon DEF SetFailedConditions, StatusType, Statuses
<1>2. f.provisioning # "Finished"
  BY <1>1
<1> QED
  BY <1>1, <1>2 DEF Sound

LEMMA TransitionStatus ==
  ASSUME NEW st \in StatusType, Sound(st), NEW expected \in Nat, NEW n \in Nat
  PROVE  LET h == HandleConditionTransition(st, expected, n)
         IN  h \in StatusType /\ Sound(h) /\ h.uri = st.uri
<1> DEFINE ok == InvalidateFailedCondition(st)
           h == HandleConditionTransition(st, expected, n)
           with(d, p) == [ok EXCEPT !.deployed = d, !.provisioning = p]
<1>1. /\ ok \in StatusType /\ ok.uri = st.uri /\ ok.failed # "True"
      /\ ok.provisioning = st.provisioning /\ ok.deployed = st.deployed
  BY DEF InvalidateFailedCondition, StatusType, Statuses
<1> HIDE DEF ok
<1>2. Sound(ok)
  BY <1>1 DEF Sound
<1>3. /\ n = expected => h = with("True", "Finished")
      /\ n # expected /\ n = 0 => h = with("False", "InProgress")
      /\ n > 0 /\ n < expected => h = with("True", "InProgress")
      /\ n > expected => h = ok
  BY DEF HandleConditionTransition, ok
<1>4. \A d \in Statuses, p \in {"InProgress", "Finished"} :
        /\ with(d, p) \in StatusType /\ with(d, p).uri = st.uri
        /\ with(d, p).failed # "True" /\ with(d, p).deployed = d /\ with(d, p).provisioning = p
  BY <1>1, Zenon DEF StatusType
<1>5. \A d \in Statuses, p \in {"InProgress", "Finished"} :
        (p = "Finished" => d = "True") => Sound(with(d, p))
  BY <1>4, ZenonT(30) DEF Sound
<1>6. "True" \in Statuses /\ "False" \in Statuses
  BY DEF Statuses
<1> HIDE DEF with, h
<1>7. n = expected \/ (n # expected /\ n = 0) \/ (n > 0 /\ n < expected) \/ n > expected
  OBVIOUS
<1>8. h \in StatusType /\ Sound(h) /\ h.uri = st.uri
  BY <1>1, <1>2, <1>3, <1>4, <1>5, <1>6, <1>7
<1> QED
  BY <1>8 DEF h

LEMMA ReportedStatus ==
  ASSUME NEW st \in StatusType, Sound(st), NEW s, NEW r, NEW d \in Deployments \cup {NoDeployment}
  PROVE  LET u == UpdateRouteStatus(UpdateImageStatus(st, d), s, r)
         IN  u \in StatusType /\ Sound(u) /\ u.uri \in {"uri", st.uri}
<1> DEFINE i == UpdateImageStatus(st, d)
           u == UpdateRouteStatus(i, s, r)
<1>1. i \in StatusType /\ Sound(i) /\ i.uri = st.uri
  BY DEF UpdateImageStatus, StatusType, Sound, Deployments
<1> HIDE DEF i
<1>2. u = i \/ u = [i EXCEPT !.uri = "uri"]
  BY DEF UpdateRouteStatus
<1>3. [i EXCEPT !.uri = "uri"] \in StatusType /\ Sound([i EXCEPT !.uri = "uri"])
      /\ [i EXCEPT !.uri = "uri"].uri = "uri"
  BY <1>1 DEF StatusType, Sound
<1> HIDE DEF u
<1>4. u \in StatusType /\ Sound(u) /\ u.uri \in {"uri", st.uri}
  BY <1>1, <1>2, <1>3, ZenonT(30)
<1> QED
  BY <1>4 DEF u, i

LEMMA NewStatusSound ==
  ASSUME ServiceInv
  PROVE  NewStatus \in StatusType /\ Sound(NewStatus) /\ NewStatus.uri \in {"uri", pass.status.uri}
<1>1. FetchReadyReplicas \in Nat /\ cached["deployment"].spec \in Deployments \cup {NoDeployment}
  BY ServiceBoundsAssumption, SMTT(30) DEF ServiceInv, CacheOK, FetchReadyReplicas
<1>2. pass.spec.replicas \in Nat /\ pass.error \in Errors
  BY PassFields, ServiceBoundsAssumption DEF SpecType, PassType
<1>3. CASE pass.error # "None"
  BY <1>1, <1>2, <1>3, PassFields, FailedStatus, ZenonT(30) DEF NewStatus
<1>4. CASE pass.error = "None"
  <2> DEFINE h == HandleConditionTransition(pass.status, pass.spec.replicas, FetchReadyReplicas)
  <2>1. h \in StatusType /\ Sound(h) /\ h.uri = pass.status.uri
    BY <1>1, <1>2, PassFields, TransitionStatus, Zenon
  <2>2. NewStatus = UpdateRouteStatus(UpdateImageStatus(h, cached["deployment"].spec),
                                      pass.spec, cached["route"])
    BY <1>4, Zenon DEF NewStatus
  <2> HIDE DEF h
  <2> QED
    BY <1>1, <2>1, <2>2, ReportedStatus, Zenon
<1> QED
  BY <1>3, <1>4, Zenon

LEMMA StatusStep ==
  ASSUME ServiceInv, HandleStatusUpdate
  PROVE  ServiceInv'
<1>1. /\ pass' = (IF pass.panics THEN [IdlePass EXCEPT !.pc = "panic"] ELSE IdlePass)
      /\ passCurrent' = FALSE /\ queued' = (queued \/ pass.error # "None")
      /\ UNCHANGED <<spec, ownedVars, extraVars, worldVars, cached>>
      /\ UNCHANGED used \/ Fault
      /\ \/ passCurrent /\ status' = NewStatus
         \/ UNCHANGED status
      /\ \/ UNCHANGED <<status, current>>
         \/ Outdate("runtime")
  BY DEF HandleStatusUpdate
<1>2. PassOK(pass') /\ Sound(pass'.status) /\ pass'.status.uri = None
  <2> DEFINE q == [IdlePass EXCEPT !.pc = "panic"]
  <2>1. IdlePass \in PassType
    BY IdlePassOK DEF PassOK
  <2>2. q \in PassType /\ q.pc = "panic" /\ q.status = IdlePass.status
    BY <2>1 DEF PassType, PCs
  <2>3. PassOK(q)
    BY <2>2 DEF PassOK
  <2> HIDE DEF q
  <2>4. pass' = q \/ pass' = IdlePass
    BY <1>1 DEF q
  <2> QED
    BY <2>2, <2>3, <2>4, IdlePassOK
<1>3. status' \in StatusType /\ Sound(status')
  BY <1>1, NewStatusSound DEF ServiceInv, ObjectsOK, Sound
<1>4. status.uri \in {"uri", None} /\ status'.uri \in {"uri", status.uri}
  <2>1. status.uri \in {"uri", None}
    BY ZenonT(30) DEF ServiceInv, ObjectsOK, StatusType
  <2>2. passCurrent => pass.status.uri = status.uri
    BY Zenon DEF ServiceInv
  <2> QED
    BY <1>1, <2>1, <2>2, NewStatusSound, Zenon
<1>5. ASSUME NEW url, Reported(url)
      PROVE  url # None => status'.uri = url
  BY <1>4, <1>5 DEF Reported
<1>6. UNCHANGED <<spec, config, deployment, available, service, route, stream, extras, triggers,
                  tag, infra, user, cached>>
  BY <1>1, ZenonT(30) DEF ownedVars, extraVars, worldVars
<1>7. ObjectsOK' /\ CacheOK'
  BY <1>3, <1>6 DEF ServiceInv, ObjectsOK, CacheOK
<1>8. UsedOK'
  BY <1>1, UsedStep, Zenon DEF ServiceInv, Fault
<1>9. /\ Reported(deployment.env["url"])' /\ Reported(cached["deployment"].spec.env["url"])'
      /\ Reported(cached["runtime"].status.uri)'
  <2>1. /\ Reported(deployment.env["url"]) /\ Reported(cached["deployment"].spec.env["url"])
        /\ Reported(cached["runtime"].status.uri)
    BY DEF ServiceInv
  <2> QED
    BY <1>5, <1>6, <2>1, ZenonT(30) DEF Reported
<1>10. Reported(pass.status.uri)'
  BY <1>2 DEF Reported
<1>11. /\ current' \in SUBSET Kinds
       /\ "runtime" \in current' => cached'["runtime"] = [spec |-> spec', status |-> status']
  BY <1>1, <1>6, ZenonT(30) DEF ServiceInv, Outdate
<1>12. Sound(cached["runtime"].status)'
  BY <1>6 DEF ServiceInv, Sound
<1>13. passCurrent' \in BOOLEAN /\ ~passCurrent'
  BY <1>1, Zenon
<1>14. queued' \in BOOLEAN
  BY <1>1
<1> QED
  BY <1>2, <1>3, <1>7, <1>8, <1>9, <1>10, <1>11, <1>12, <1>13, <1>14 DEF ServiceInv

-----------------------------------------------------------------------------
(* Copies made by the informers.                                            *)

\* What an informer copies, kind by kind.
LEMMA LiveFields ==
  /\ Live("runtime") = [spec |-> spec, status |-> status]
  /\ Live("config") = config
  /\ Live("deployment") = [spec |-> deployment, available |-> available]
  /\ Live("service") = service
  /\ Live("route") = route
  /\ Live("stream") = stream
  /\ Live("extra") = [extras |-> extras, triggers |-> triggers]
  /\ Live("infra") = infra
BY DEF Live

\* The invariant is kept when copies are replaced by what they are copies of.
LEMMA CopyStep ==
  ASSUME ServiceInv, UsedOK',
         UNCHANGED <<spec, status, ownedVars, extraVars, worldVars>>,
         cached' = [k \in Kinds |-> cached'[k]],
         \A k \in Kinds : cached'[k] = Live(k) \/ (cached'[k] = cached[k] /\ (k \in current' => k \in current)),
         current' \in SUBSET Kinds, queued' \in BOOLEAN,
         \/ UNCHANGED <<pass, passCurrent>>
         \/ pass' = IdlePass /\ passCurrent' = FALSE
  PROVE  ServiceInv'
<1>1. ObjectsOK' /\ UNCHANGED <<spec, status, deployment>>
  BY DEF ServiceInv, ObjectsOK, ownedVars, extraVars, worldVars
<1>2. \A k \in Kinds : cached'[k] = Live(k) \/ cached'[k] = cached[k]
  OBVIOUS
<1>3. /\ "runtime" \in Kinds /\ "config" \in Kinds /\ "deployment" \in Kinds /\ "service" \in Kinds
      /\ "route" \in Kinds /\ "stream" \in Kinds /\ "extra" \in Kinds /\ "infra" \in Kinds
  BY DEF Kinds
<1>4. ObjectsOK /\ CacheOK
  BY DEF ServiceInv
<1>5. CacheOK'
  <2>1. cached'["runtime"] \in [spec : Specs, status : StatusType]
    BY <1>2, <1>3, <1>4, LiveFields DEF ObjectsOK, CacheOK
  <2>2. cached'["config"] \in Values \cup {None}
    BY <1>2, <1>3, <1>4, LiveFields, ZenonT(30) DEF ObjectsOK, CacheOK
  <2>3. cached'["deployment"] \in [spec : Deployments \cup {NoDeployment}, available : 0 .. MaxReplicas]
    BY <1>2, <1>3, <1>4, LiveFields DEF ObjectsOK, CacheOK
  <2>4. cached'["service"] \in BOOLEAN
    BY <1>2, <1>3, <1>4, LiveFields, Zenon DEF ObjectsOK, CacheOK
  <2>5. cached'["route"] \in {"absent", "created", "admitted", "rejected"}
    BY <1>2, <1>3, <1>4, LiveFields, Zenon DEF ObjectsOK, CacheOK
  <2>6. cached'["stream"] \in Streams
    BY <1>2, <1>3, <1>4, LiveFields, ZenonT(30) DEF ObjectsOK, CacheOK
  <2>7. cached'["extra"] \in [extras : SUBSET Extras, triggers : [Events -> 0 .. MaxTriggers]]
    BY <1>2, <1>3, <1>4, LiveFields DEF ObjectsOK, CacheOK
  <2>8. cached'["infra"] \in [Infras -> InfraType]
    BY <1>2, <1>3, <1>4, LiveFields, ZenonT(30) DEF ObjectsOK, CacheOK
  <2> QED
    BY <2>1, <2>2, <2>3, <2>4, <2>5, <2>6, <2>7, <2>8, ZenonT(30) DEF CacheOK
<1>6. Sound(cached["runtime"].status)' /\ Reported(cached["runtime"].status.uri)'
  <2>1. cached'["runtime"].status = status \/ cached'["runtime"].status = cached["runtime"].status
    BY <1>2, <1>3, LiveFields
  <2> QED
    BY <1>1, <2>1, ZenonT(30) DEF ServiceInv, Sound, Reported
<1>7. Reported(deployment.env["url"])' /\ Reported(cached["deployment"].spec.env["url"])'
  <2>1. \/ cached'["deployment"].spec = deployment
        \/ cached'["deployment"].spec = cached["deployment"].spec
    BY <1>2, <1>3, LiveFields, SMTT(30)
  <2> QED
    BY <1>1, <2>1, ZenonT(30) DEF ServiceInv, Reported
<1>8. PassOK(pass') /\ Sound(pass'.status) /\ Reported(pass.status.uri)'
  BY <1>1, IdlePassOK DEF ServiceInv, Reported
<1>9. passCurrent' \in BOOLEAN /\ (passCurrent' => pass'.status.uri = status'.uri)
  <2>1. (pass' = pass /\ passCurrent' = passCurrent) \/ passCurrent' = FALSE
    BY ZenonT(30)
  <2>2. status' = status /\ passCurrent \in BOOLEAN /\ (passCurrent => pass.status.uri = status.uri)
    BY <1>1 DEF ServiceInv
  <2>3. passCurrent' \in BOOLEAN
    BY <2>1, <2>2, Zenon
  <2>4. passCurrent' = TRUE => pass'.status.uri = status'.uri
    BY <2>1, <2>2, ZenonT(30)
  <2> QED
    BY <2>3, <2>4
<1>10. "runtime" \in current' => cached'["runtime"] = [spec |-> spec', status |-> status']
  BY <1>1, <1>3, LiveFields, ZenonT(30) DEF ServiceInv
<1>11. Sound(status)'
  BY <1>1 DEF ServiceInv, Sound
<1> QED
  BY <1>1, <1>5, <1>6, <1>7, <1>8, <1>9, <1>10, <1>11, ZenonT(30) DEF ServiceInv

LEMMA AfreshStep ==
  ASSUME ServiceInv, Afresh, UsedOK'
  PROVE  ServiceInv'
<1>1. /\ cached' = [k \in Kinds |-> Live(k)] /\ current' = Kinds /\ queued' = TRUE
      /\ pass' = IdlePass /\ passCurrent' = FALSE
      /\ UNCHANGED <<spec, status, ownedVars, extraVars, worldVars>>
  BY DEF Afresh
<1>2. cached' = [k \in Kinds |-> cached'[k]] /\ \A k \in Kinds : cached'[k] = Live(k)
  BY <1>1, Zenon
<1>3. current' \in SUBSET Kinds /\ queued' \in BOOLEAN
  BY <1>1
<1> QED
  BY <1>1, <1>2, <1>3, CopyStep, Zenon

LEMMA RestartSteps ==
  ASSUME ServiceInv, Exit \/ Restart
  PROVE  ServiceInv'
<1>1. Afresh /\ (UNCHANGED used \/ Use("crashes", MaxCrashes))
  BY ZenonT(30) DEF Exit, Restart
<1>2. UsedOK'
  BY <1>1, UsedStep DEF ServiceInv
<1> QED
  BY <1>1, <1>2, AfreshStep

LEMMA SyncStep ==
  ASSUME ServiceInv, NEW k \in Kinds, Sync(k)
  PROVE  ServiceInv'
<1>1. /\ cached' = [cached EXCEPT ![k] = Live(k)] /\ current' = current \cup {k}
      /\ queued' = (queued \/ k \in Watched)
      /\ UNCHANGED <<spec, status, ownedVars, extraVars, worldVars, passCurrent, pass, used>>
  BY ZenonT(30) DEF Sync
<1>2. cached = [j \in Kinds |-> cached[j]] /\ current \in SUBSET Kinds
  BY DEF ServiceInv, CacheOK
<1>3. /\ cached' = [j \in Kinds |-> cached'[j]]
      /\ \A j \in Kinds : cached'[j] = IF j = k THEN Live(k) ELSE cached[j]
  <2>1. cached' = [j \in Kinds |-> IF j = k THEN Live(k) ELSE cached[j]]
    BY <1>1, <1>2
  <2> QED
    BY <2>1
<1>4. \A j \in Kinds :
        cached'[j] = Live(j) \/ (cached'[j] = cached[j] /\ (j \in current' => j \in current))
  BY <1>1, <1>3, ZenonT(30)
<1>5. UsedOK' /\ current' \in SUBSET Kinds /\ queued' \in BOOLEAN
  BY <1>1, <1>2 DEF ServiceInv, UsedOK
<1> QED
  BY <1>1, <1>3, <1>4, <1>5, CopyStep

-----------------------------------------------------------------------------
(* The environment.                                                         *)

\* What other actors may change without breaking the invariant: never the
\* status, the caches or the pass.
LEMMA EnvStep ==
  ASSUME ServiceInv, ObjectsOK', UsedOK',
         UNCHANGED <<status, cached, pass>>, queued' \in BOOLEAN,
         current' \in SUBSET current, passCurrent' = passCurrent \/ passCurrent' = FALSE,
         spec' = spec \/ "runtime" \notin current',
         Reported(deployment.env["url"])'
  PROVE  ServiceInv'
<1>1. CacheOK' /\ PassOK(pass')
  BY ZenonT(30) DEF ServiceInv, CacheOK
<1>2. current' \in SUBSET Kinds
  BY DEF ServiceInv
<1>3. passCurrent' \in BOOLEAN /\ (passCurrent' => pass'.status.uri = status'.uri)
  <2>1. pass' = pass /\ status' = status
    BY ZenonT(30)
  <2>2. passCurrent \in BOOLEAN /\ (passCurrent => pass.status.uri = status.uri)
    BY DEF ServiceInv
  <2>3. passCurrent' \in BOOLEAN
    BY <2>2, Zenon
  <2>4. passCurrent' = TRUE => pass'.status.uri = status'.uri
    BY <2>1, <2>2, ZenonT(30)
  <2> QED
    BY <2>3, <2>4
<1>4. Sound(status)' /\ Sound(cached["runtime"].status)' /\ Sound(pass.status)'
  BY DEF ServiceInv, Sound
<1>5. /\ Reported(cached["deployment"].spec.env["url"])'
      /\ Reported(pass.status.uri)' /\ Reported(cached["runtime"].status.uri)'
  BY ZenonT(30) DEF ServiceInv, Reported
<1>6. "runtime" \in current' => cached'["runtime"] = [spec |-> spec', status |-> status']
  BY DEF ServiceInv
<1> QED
  BY <1>1, <1>2, <1>3, <1>4, <1>5, <1>6, Zenon DEF ServiceInv

LEMMA EditSpecStep ==
  ASSUME ServiceInv, EditSpec
  PROVE  ServiceInv'
<1>1. /\ spec' \in Specs /\ current' = current \ {"runtime"} /\ passCurrent' = FALSE
      /\ Use("edits", MaxEdits)
      /\ UNCHANGED <<status, ownedVars, extraVars, worldVars, cached, queued, pass>>
  BY ZenonT(30) DEF EditSpec, Outdate
<1>2. ObjectsOK'
  BY <1>1, ZenonT(30) DEF ServiceInv, ObjectsOK, ownedVars, extraVars, worldVars
<1>3. UsedOK'
  BY <1>1, UsedStep, Zenon DEF ServiceInv
<1>4. Reported(deployment.env["url"])' /\ queued' \in BOOLEAN
  BY <1>1, ZenonT(30) DEF ServiceInv, Reported, ownedVars
<1>5. current' \in SUBSET current /\ "runtime" \notin current'
  BY <1>1, Zenon
<1> QED
  BY <1>1, <1>2, <1>3, <1>4, <1>5, EnvStep, ZenonT(30)

\* Steps that change neither the KogitoRuntime nor the Deployment.
LEMMA WorldStep ==
  ASSUME ServiceInv, ObjectsOK', UsedOK',
         UNCHANGED <<spec, status, deployment, cached, pass, passCurrent, queued>>,
         current' \in SUBSET current
  PROVE  ServiceInv'
<1>1. Reported(deployment.env["url"])' /\ queued' \in BOOLEAN
  BY DEF ServiceInv, Reported
<1>2. /\ UNCHANGED <<status, cached, pass>> /\ passCurrent' = passCurrent /\ spec' = spec
      /\ current' \in SUBSET current /\ ObjectsOK' /\ UsedOK'
  OBVIOUS
<1> QED
  BY <1>1, <1>2, EnvStep, ZenonT(30)

LEMMA ChangeInfraStep ==
  ASSUME ServiceInv, ChangeInfra
  PROVE  ServiceInv'
<1>1. /\ current' = current \ {"infra"} /\ Use("changes", MaxChanges)
      /\ UNCHANGED <<spec, status, ownedVars, extraVars, tag, user, cached, passCurrent, queued, pass>>
  BY DEF ChangeInfra, Outdate
<1>2. PICK i \in Infras : \E s \in InfraStates[i] : infra' = [infra EXCEPT ![i] = s]
  BY Zenon DEF ChangeInfra
<1>3. PICK s \in InfraStates[i] : infra' = [infra EXCEPT ![i] = s]
  BY <1>2, ZenonT(30)
<1>4. s \in InfraType /\ infra \in [Infras -> InfraType]
  BY ServiceAssumption, Zenon DEF ServiceInv, ObjectsOK
<1>5. infra' \in [Infras -> InfraType]
  BY <1>3, <1>4, Zenon
<1>6. ObjectsOK'
  BY <1>1, <1>5, Zenon DEF ServiceInv, ObjectsOK, ownedVars, extraVars
<1>7. UsedOK'
  BY <1>1, UsedStep, ZenonT(30) DEF ServiceInv
<1>8. UNCHANGED <<spec, status, deployment, cached, pass, passCurrent, queued>>
  BY <1>1, ZenonT(30) DEF ownedVars
<1> QED
  BY <1>1, <1>6, <1>7, <1>8, WorldStep, ZenonT(30)

LEMMA ChangeUserObjectStep ==
  ASSUME ServiceInv, ChangeUserObject
  PROVE  ServiceInv'
<1>1. /\ Use("changes", MaxChanges)
      /\ UNCHANGED <<spec, status, ownedVars, extraVars, tag, infra, cacheVars, passCurrent, queued, pass>>
  BY Zenon DEF ChangeUserObject
<1>2. user' \in [UserObjects -> {"absent", "noKey", "present"}]
  BY Zenon DEF ChangeUserObject, ServiceInv, ObjectsOK
<1>3. ObjectsOK'
  BY <1>1, <1>2, ZenonT(30) DEF ServiceInv, ObjectsOK, ownedVars, extraVars
<1>4. UsedOK'
  BY <1>1, UsedStep, Zenon DEF ServiceInv
<1>5. UNCHANGED <<spec, status, deployment, cached, pass, passCurrent, queued>> /\ current' = current
  BY <1>1 DEF ownedVars, cacheVars
<1> QED
  BY <1>3, <1>4, <1>5, WorldStep

LEMMA ImportImageStep ==
  ASSUME ServiceInv, ImportImage
  PROVE  ServiceInv'
<1>1. /\ current' = current \ {"stream"} /\ (UNCHANGED used \/ Use("changes", MaxChanges))
      /\ UNCHANGED <<spec, status, config, deployment, available, service, route,
                     extraVars, infra, user, cached, passCurrent, queued, pass>>
  BY DEF ImportImage, Outdate
<1>2. stream' \in Streams /\ tag' \in Images \cup {None}
  BY ZenonT(30) DEF ImportImage, ServiceInv, ObjectsOK, Streams
<1>3. ObjectsOK'
  BY <1>1, <1>2, Zenon DEF ServiceInv, ObjectsOK, extraVars
<1>4. UsedOK'
  BY <1>1, UsedStep, Zenon DEF ServiceInv
<1> QED
  BY <1>1, <1>3, <1>4, WorldStep

\* Changes of the Deployment by its other controllers.
LEMMA DeploymentChangesStep ==
  ASSUME ServiceInv, DeploymentChanges, UsedOK',
         deployment' \in Deployments \cup {NoDeployment}, available' \in 0 .. MaxReplicas,
         deployment'.env["url"] = deployment.env["url"]
  PROVE  ServiceInv'
<1>1. /\ current' = current \ {"deployment"}
      /\ UNCHANGED <<spec, status, config, service, route, stream, extraVars, worldVars,
                     cached, passCurrent, queued, pass>>
  BY Zenon DEF DeploymentChanges, Outdate
<1>2. ObjectsOK'
  BY <1>1, ZenonT(30) DEF ServiceInv, ObjectsOK, extraVars, worldVars
<1>3. Reported(deployment.env["url"])' /\ queued' \in BOOLEAN
  BY <1>1, Zenon DEF ServiceInv, Reported
<1> QED
  BY <1>1, <1>2, <1>3, EnvStep, Zenon

LEMMA DeploymentControllersStep ==
  ASSUME ServiceInv, TriggerImage \/ InjectSink \/ ScalePods \/ LosePod
  PROVE  ServiceInv'
<1>0. /\ deployment \in Deployments \cup {NoDeployment} /\ available \in 0 .. MaxReplicas
      /\ tag \in Images \cup {None} /\ MaxReplicas \in Nat
  BY ServiceBoundsAssumption DEF ServiceInv, ObjectsOK
<1>1. CASE TriggerImage
  <2>1. /\ deployment \in Deployments /\ tag \in Images /\ DeploymentChanges
        /\ UNCHANGED <<available, used>> /\ deployment' = [deployment EXCEPT !.image = tag]
    BY <1>0, <1>1 DEF TriggerImage
  <2>2. deployment' \in Deployments /\ deployment'.env = deployment.env
    BY <2>1 DEF Deployments
  <2>3. UsedOK'
    BY <2>1, UsedStep DEF ServiceInv
  <2> QED
    BY <1>0, <2>1, <2>2, <2>3, DeploymentChangesStep
<1>2. CASE InjectSink
  <2>1. /\ deployment \in Deployments /\ DeploymentChanges
        /\ UNCHANGED <<available, used>> /\ deployment' = [deployment EXCEPT !.env["sink"] = "broker"]
    BY <1>0, <1>2 DEF InjectSink
  <2>2. deployment' \in Deployments /\ deployment'.env["url"] = deployment.env["url"]
    BY <2>1 DEF Deployments, Env, EnvNames
  <2>3. UsedOK'
    BY <2>1, UsedStep, ZenonT(30) DEF ServiceInv
  <2> QED
    BY <1>0, <2>1, <2>2, <2>3, DeploymentChangesStep
<1>3. CASE ScalePods
  <2>1. DeploymentChanges /\ UNCHANGED <<deployment, used>>
    BY <1>3, ZenonT(30) DEF ScalePods
  <2>2. deployment.replicas \in 0 .. MaxReplicas
    BY <1>0 DEF Deployments, NoDeployment
  <2>3. available' \in 0 .. MaxReplicas
    BY <1>0, <1>3, <2>2, SMTT(30) DEF ScalePods
  <2>4. UsedOK'
    BY <2>1, UsedStep, Zenon DEF ServiceInv
  <2> QED
    BY <1>0, <2>1, <2>3, <2>4, DeploymentChangesStep
<1>4. CASE LosePod
  <2>1. /\ DeploymentChanges /\ UNCHANGED deployment /\ Use("losses", MaxPodLosses)
        /\ available > 0 /\ available' = available - 1
    BY <1>4 DEF LosePod
  <2>2. available' \in 0 .. MaxReplicas
    BY <1>0, <2>1, SMTT(30)
  <2>3. UsedOK'
    BY <2>1, UsedStep DEF ServiceInv
  <2> QED
    BY <1>0, <2>1, <2>2, <2>3, DeploymentChangesStep, Zenon
<1> QED
  BY <1>1, <1>2, <1>3, <1>4, ZenonT(30)

LEMMA AdmitRouteStep ==
  ASSUME ServiceInv, AdmitRoute
  PROVE  ServiceInv'
<1>1. /\ current' = current \ {"route"} /\ route' \in {"admitted", "rejected"}
      /\ UNCHANGED <<spec, status, config, deployment, available, service, stream,
                     extraVars, worldVars, cached, passCurrent, queued, pass, used>>
  BY Zenon DEF AdmitRoute, Outdate
<1>2. ObjectsOK'
  BY <1>1, Zenon DEF ServiceInv, ObjectsOK, extraVars, worldVars
<1>3. UsedOK'
  BY <1>1, Zenon DEF ServiceInv, UsedOK
<1> QED
  BY <1>1, <1>2, <1>3, WorldStep, Zenon

LEMMA DeleteOwnedStep ==
  ASSUME ServiceInv, DeleteOwned
  PROVE  ServiceInv'
<1>1. /\ current' \in SUBSET current /\ Use("changes", MaxChanges)
      /\ UNCHANGED <<spec, status, stream, extraVars, worldVars, cached, passCurrent, queued, pass>>
  BY DEF DeleteOwned, Outdate
<1>2. /\ config' = config \/ config' = None
      /\ (deployment' = deployment /\ available' = available)
           \/ (deployment' = NoDeployment /\ available' = 0)
      /\ service' = service \/ service' = FALSE
      /\ route' = route \/ route' = "absent"
  BY DEF DeleteOwned
<1>3. ObjectsOK'
  <2>1. ObjectsOK /\ MaxReplicas \in Nat
    BY ServiceBoundsAssumption, ZenonT(30) DEF ServiceInv
  <2>2. /\ config' \in Values \cup {None} /\ deployment' \in Deployments \cup {NoDeployment}
        /\ available' \in 0 .. MaxReplicas
        /\ route' \in {"absent", "created", "admitted", "rejected"}
    BY <1>2, <2>1 DEF ObjectsOK
  <2>3. service' \in BOOLEAN
    BY <1>2, <2>1, ZenonT(30) DEF ObjectsOK
  <2>4. UNCHANGED <<spec, status, stream, extras, triggers, tag, infra, user>>
    BY <1>1, Zenon DEF extraVars, worldVars
  <2> QED
    BY <2>1, <2>2, <2>3, <2>4, Zenon DEF ObjectsOK
<1>4. UsedOK'
  BY <1>1, UsedStep, Zenon DEF ServiceInv
<1>5. Reported(deployment.env["url"])' /\ queued' \in BOOLEAN
  BY <1>1, <1>2, NoDeploymentUrl, ZenonT(30) DEF ServiceInv, Reported
<1> QED
  BY <1>1, <1>3, <1>4, <1>5, EnvStep, ZenonT(30)

LEMMA ResyncStep ==
  ASSUME ServiceInv, Resync
  PROVE  ServiceInv'
<1>1. /\ queued' \in BOOLEAN
      /\ UNCHANGED <<spec, status, ownedVars, extraVars, worldVars, cacheVars, passCurrent, pass, used>>
  BY Zenon DEF Resync
<1>2. ObjectsOK' /\ UsedOK' /\ Reported(deployment.env["url"])'
  BY <1>1, Zenon DEF ServiceInv, ObjectsOK, UsedOK, Reported, ownedVars, extraVars, worldVars
<1>3. UNCHANGED <<spec, status, cached, current, pass, passCurrent>>
  BY <1>1, Zenon DEF cacheVars
<1> QED
  BY <1>1, <1>2, <1>3, EnvStep, Zenon

-----------------------------------------------------------------------------
(* The theorems.                                                            *)

LEMMA InitInv ==
  Init => ServiceInv
<1> SUFFICES ASSUME Init PROVE ServiceInv
  BY ZenonT(30)
<1>1. NoStatus \in StatusType /\ NoStatus.uri = None /\ NoStatus.provisioning = "Unset"
  BY DEF NoStatus, StatusType, Statuses, Errors
<1>2. stream \in Streams /\ tag \in Images \cup {None}
  <2>1. NoStream \in Streams /\ [NoStream EXCEPT !.exists = TRUE] \in Streams
    BY Zenon DEF NoStream, Streams
  <2>2. /\ stream \in {NoStream, [NoStream EXCEPT !.exists = TRUE]}
        /\ tag \in IF stream.exists THEN Images ELSE {None}
    BY DEF Init
  <2>3. tag \in Images \cup {None}
    BY <2>2
  <2> QED
    BY <2>1, <2>2, <2>3, Zenon
<1>3. ObjectsOK
  <2>1. MaxReplicas \in Nat /\ MaxTriggers \in Nat
    BY ServiceBoundsAssumption
  <2>2. /\ available \in 0 .. MaxReplicas /\ service \in BOOLEAN
        /\ config \in Values \cup {None} /\ deployment \in Deployments \cup {NoDeployment}
        /\ route \in {"absent", "created", "admitted", "rejected"} /\ extras \in SUBSET Extras
    <3>1. /\ available = 0 /\ service = FALSE /\ config = None /\ deployment = NoDeployment
          /\ route = "absent" /\ extras = {}
      BY DEF Init
    <3>2. available \in 0 .. MaxReplicas
      BY <2>1, <3>1
    <3>3. service \in BOOLEAN
      BY <3>1, Zenon
    <3> QED
      BY <3>1, <3>2, <3>3, Zenon
  <2>3. triggers \in [Events -> 0 .. MaxTriggers]
    BY <2>1 DEF Init
  <2>4. infra \in [Infras -> InfraType]
    BY DEF Init
  <2>5. /\ spec \in Specs /\ status \in StatusType
        /\ user \in [UserObjects -> {"absent", "noKey", "present"}]
    BY <1>1 DEF Init
  <2> QED
    BY <1>2, <2>2, <2>3, <2>4, <2>5, Zenon DEF ObjectsOK
<1>4. UsedOK
  BY ServiceBoundsAssumption DEF Init, UsedOK
<1>5. cached = [k \in Kinds |-> Live(k)]
  BY DEF Init
<1>6. /\ cached = [k \in Kinds |-> cached[k]]
      /\ cached["runtime"] = Live("runtime") /\ cached["config"] = Live("config")
      /\ cached["deployment"] = Live("deployment") /\ cached["service"] = Live("service")
      /\ cached["route"] = Live("route") /\ cached["stream"] = Live("stream")
      /\ cached["extra"] = Live("extra") /\ cached["infra"] = Live("infra")
  BY <1>5, ZenonT(30) DEF Kinds
<1>7. CacheOK
  BY <1>3, <1>6, LiveFields, SMTT(30) DEF ObjectsOK, CacheOK
<1>8. /\ cached["runtime"].status = status /\ cached["deployment"].spec = deployment
      /\ cached["runtime"] = [spec |-> spec, status |-> status]
  BY <1>6, LiveFields
<1>9. status = NoStatus /\ deployment.env["url"] = None
  BY NoDeploymentUrl, Zenon DEF Init
<1>10. Sound(status) /\ Sound(cached["runtime"].status)
  BY <1>1, <1>8, <1>9, ZenonT(30) DEF Sound
<1>11. /\ Reported(deployment.env["url"]) /\ Reported(cached["deployment"].spec.env["url"])
       /\ Reported(cached["runtime"].status.uri)
  BY <1>1, <1>8, <1>9 DEF Reported
<1>12. PassOK(pass) /\ Sound(pass.status) /\ Reported(pass.status.uri)
  BY IdlePassOK DEF Init, Reported
<1>13. current \in SUBSET Kinds /\ passCurrent = FALSE /\ queued = TRUE
  BY DEF Init
<1> QED
  BY <1>3, <1>4, <1>7, <1>8, <1>10, <1>11, <1>12, <1>13, Zenon DEF ServiceInv

LEMMA NextInv ==
  ServiceInv /\ [Next]_vars => ServiceInv'
<1> SUFFICES ASSUME ServiceInv, [Next]_vars PROVE ServiceInv'
  OBVIOUS
<1>1. ASSUME Working PROVE ServiceInv'
  BY <1>1, FetchInstanceStep, SetupRBACStep, ConfigStep, PropertiesStep, TrustStoreStep,
     FetchInfraStep, CheckInfraStep, ImageStreamStep, ResolveImageStep, DeploymentStep,
     ServiceStep, RouteStep, PrometheusStep, GrafanaStep, DashboardsStep, KafkaStep,
     KafkaTopicsStep, KnativeStep, FetchEventsStep, TriggersStep, StatusStep, RestartSteps, ZenonT(30)
     DEF Working
<1>2. ASSUME Environment PROVE ServiceInv'
  BY <1>2, EditSpecStep, ChangeInfraStep, ChangeUserObjectStep, ImportImageStep,
     DeploymentControllersStep, AdmitRouteStep, DeleteOwnedStep, ResyncStep, RestartSteps
     DEF Environment
<1>3. ASSUME NEW k \in Kinds, Sync(k) PROVE ServiceInv'
  BY <1>3, SyncStep, Zenon
<1>4. ASSUME UNCHANGED vars PROVE ServiceInv'
  <2>1. UNCHANGED <<spec, status, ownedVars, extraVars, worldVars, cacheVars, passCurrent, queued, pass, used>>
    BY <1>4, Zenon DEF vars
  <2>2. ObjectsOK' /\ UsedOK' /\ Reported(deployment.env["url"])'
    BY <2>1, Zenon DEF ServiceInv, ObjectsOK, UsedOK, Reported, ownedVars, extraVars, worldVars
  <2>3. UNCHANGED <<spec, status, cached, current, pass, passCurrent>> /\ queued' \in BOOLEAN
    BY <2>1, Zenon DEF cacheVars, ServiceInv
  <2> QED
    BY <2>2, <2>3, EnvStep, Zenon
<1> QED
  BY <1>1, <1>2, <1>3, <1>4 DEF Next

\* The inductive invariant holds in every reachable state: types, sound
\* conditions in the status and in all its copies, and no URL anywhere that
\* the status does not report.
THEOREM Invariance == Spec => []ServiceInv
BY InitInv, NextInv, PTL DEF Spec

LEMMA InvType ==
  ServiceInv => TypeOK
<1> SUFFICES ASSUME ServiceInv PROVE TypeOK
  BY ZenonT(30)
<1>1. ObjectsOK /\ CacheOK /\ UsedOK /\ pass \in PassType
  BY DEF ServiceInv, PassOK
<1>2. ASSUME NEW k \in Kinds PROVE CachedType(k, Live(k))
  <2>1. CASE k = "runtime"
    BY <1>1, <2>1, LiveFields DEF CachedType, ObjectsOK
  <2>2. CASE k = "config"
    BY <1>1, <2>2, LiveFields DEF CachedType, ObjectsOK
  <2>3. CASE k = "deployment"
    BY <1>1, <2>3, LiveFields DEF CachedType, ObjectsOK
  <2>4. CASE k = "service"
    BY <1>1, <2>4, LiveFields DEF CachedType, ObjectsOK
  <2>5. CASE k = "route"
    BY <1>1, <2>5, LiveFields DEF CachedType, ObjectsOK
  <2>6. CASE k = "stream"
    BY <1>1, <2>6, LiveFields DEF CachedType, ObjectsOK
  <2>7. CASE k = "extra"
    BY <1>1, <2>7, LiveFields DEF CachedType, ObjectsOK
  <2>8. CASE k = "infra"
    BY <1>1, <2>8, LiveFields, Zenon DEF CachedType, ObjectsOK
  <2> QED
    BY <2>1, <2>2, <2>3, <2>4, <2>5, <2>6, <2>7, <2>8 DEF Kinds
<1>3. ASSUME NEW k \in Kinds PROVE CachedType(k, cached[k])
  <2>1. CASE k = "runtime"
    BY <1>1, <2>1 DEF CachedType, CacheOK
  <2>2. CASE k = "config"
    BY <1>1, <2>2 DEF CachedType, CacheOK
  <2>3. CASE k = "deployment"
    BY <1>1, <2>3 DEF CachedType, CacheOK
  <2>4. CASE k = "service"
    BY <1>1, <2>4 DEF CachedType, CacheOK
  <2>5. CASE k = "route"
    BY <1>1, <2>5 DEF CachedType, CacheOK
  <2>6. CASE k = "stream"
    BY <1>1, <2>6 DEF CachedType, CacheOK
  <2>7. CASE k = "extra"
    BY <1>1, <2>7 DEF CachedType, CacheOK
  <2>8. CASE k = "infra"
    BY <1>1, <2>8, ZenonT(30) DEF CachedType, CacheOK
  <2> QED
    BY <2>1, <2>2, <2>3, <2>4, <2>5, <2>6, <2>7, <2>8, Zenon DEF Kinds
<1>4. current \subseteq Kinds /\ passCurrent \in BOOLEAN /\ queued \in BOOLEAN
  BY DEF ServiceInv
<1> QED
  BY <1>1, <1>2, <1>3, <1>4 DEF TypeOK, ObjectsOK, UsedOK

\* Every variable of the service model keeps its type, whatever the specs,
\* infrastructures, dashboards, topics and bounds are.
THEOREM TypeCorrect == Spec => []TypeOK
BY Invariance, InvType, PTL

\* The status never says that provisioning finished of a service that it
\* reports failed or without a pod (status.go, handleConditionTransition).
THEOREM FinishedDeployed == Spec => []FinishedIsDeployed
<1>1. ServiceInv => FinishedIsDeployed
  BY ZenonT(30) DEF ServiceInv, Sound, FinishedIsDeployed
<1> QED
  BY <1>1, Invariance, PTL

\* The URL given to the Deployment stays the one that the status reports:
\* no pass, from however old a copy, withdraws it (runtime_deployer.go,
\* OnDeploymentCreate; status.go, updateRouteStatus).
THEOREM UrlReported == Spec => []UrlIsReported
<1>1. ServiceInv => UrlIsReported
  BY Zenon DEF ServiceInv, Reported, UrlIsReported
<1> QED
  BY <1>1, Invariance, PTL
=============================================================================
