---------------------- MODULE SupportingServicesProofs ----------------------
(***************************************************************************)
(* Proofs about the services of a namespace, for any services, runtimes,   *)
(* Deployments of users and files and every value of the bounds.           *)
(***************************************************************************)
EXTENDS SupportingServices, FiniteSetTheorems, TLAPS

\* The places of each controller's pass, and the objects it is for.
Places(c) ==
  IF c = "supporting" THEN {"idle", "read", "deploy", "endpoint", "inject", "console", "update"}
  ELSE IF c = "runtime" THEN {"idle", "read", "deploy", "protobuf", "volume"}
  ELSE {"idle", "inject"}
Keys(c) == IF c = "supporting" THEN Services ELSE IF c = "runtime" THEN Runtimes ELSE Annotated

\* A pass is for an object of its controller, and before the last update of a
\* Deployment it holds the copy of one at most.
PassOK(c) ==
  /\ pass[c].pc \in Places(c)
  /\ pass[c].pc # "idle" => pass[c].key \in Keys(c)
  /\ \/ pass[c].pc = "deploy"
     \/ pass[c].pc = "inject" /\ c = "deployment"
     => DOMAIN held[c] \subseteq {pass[c].key}
  /\ pass[c].pc \in {"update", "volume"} => \A d, e \in DOMAIN held[c] : d = e
KeyInv == \A c \in Controllers : PassOK(c)

\* The pass of the supporting services' controller that is about to write the
\* Deployment of an instance that is still there.
Deploying(s) ==
  LET p == pass["supporting"] IN p.pc \in {"read", "deploy"} /\ ~p.gone /\ p.key = s

\* Who owns Deployments: no service that does not exist, no two services of
\* one type; and none beside the service whose Deployment is about to be made.
OwnerInv ==
  /\ \A s \in Services : deployment[s].owned => s \in exists
  /\ \A s, x \in Services :
       TypeOf[s] = TypeOf[x] /\ deployment[s].owned /\ deployment[x].owned => s = x
  /\ \A s \in Services :
       Deploying(s) =>
         /\ s \in exists
         /\ \A x \in Services : TypeOf[x] = TypeOf[s] /\ deployment[x].owned => x = s

NamespaceInv == TypeOK /\ KeyInv /\ OwnerInv

USE NamesAssumption

-----------------------------------------------------------------------------
(* Typing.                                                                  *)

\* The copies the passes hold are Deployments, and the current ones are held.
CopiesType ==
  /\ held = [c \in Controllers |-> held[c]]
  /\ \A c \in Controllers :
       /\ DOMAIN held[c] \subseteq Named
       /\ held[c] \in [DOMAIN held[c] -> Deployments]
  /\ current \in [Controllers -> SUBSET Named]
  /\ \A c \in Controllers : current[c] \subseteq DOMAIN held[c]

\* What the operators on Deployments make are Deployments.
LEMMA DeploymentTypes ==
  /\ NoDeployment \in Deployments
  /\ \A d \in Deployments : \A e \in SUBSET Services : MountAsEnvFrom(d, e) \in Deployments
  /\ \A d \in Deployments : UpdateProtoBufPropInToDeploymentEnv(d) \in Deployments
  /\ \A d \in Deployments : \A o \in BOOLEAN : [d EXCEPT !.owned = o] \in Deployments
BY ZenonT(30) DEF NoDeployment, Deployments, MountAsEnvFrom, UpdateProtoBufPropInToDeploymentEnv

LEMMA FreshType ==
  \A o \in BOOLEAN : [NoDeployment EXCEPT !.exists = o, !.owned = o] \in Deployments
BY Zenon DEF NoDeployment, Deployments

\* Numbers: one less than at most one is none; what is below its bound may
\* be counted.
LEMMA OneLess ==
  ASSUME NEW n \in Nat, NEW m \in Nat, ~(n > 1), m = n - 1
  PROVE  m = 0
OBVIOUS

LEMMA OneMore ==
  ASSUME NEW n \in Nat, NEW i \in 0 .. n, i < n
  PROVE  i + 1 \in 0 .. n
OBVIOUS

LEMMA CountType ==
  ASSUME TypeOK
  PROVE  /\ used.changes < MaxChanges /\ Count("changes") =>
              used' \in [changes : 0 .. MaxChanges, faults : 0 .. MaxFaults, crashes : 0 .. MaxCrashes]
         /\ used.faults < MaxFaults /\ Count("faults") =>
              used' \in [changes : 0 .. MaxChanges, faults : 0 .. MaxFaults, crashes : 0 .. MaxCrashes]
         /\ used.crashes < MaxCrashes /\ Count("crashes") =>
              used' \in [changes : 0 .. MaxChanges, faults : 0 .. MaxFaults, crashes : 0 .. MaxCrashes]
<1>1. used \in [changes : 0 .. MaxChanges, faults : 0 .. MaxFaults, crashes : 0 .. MaxCrashes]
  BY Zenon DEF TypeOK
<1>2. /\ used.changes \in 0 .. MaxChanges /\ used.faults \in 0 .. MaxFaults
      /\ used.crashes \in 0 .. MaxCrashes
  BY <1>1, Zenon
<1>3. /\ used.changes < MaxChanges => used.changes + 1 \in 0 .. MaxChanges
      /\ used.faults < MaxFaults => used.faults + 1 \in 0 .. MaxFaults
      /\ used.crashes < MaxCrashes => used.crashes + 1 \in 0 .. MaxCrashes
  BY <1>2, OneMore, BoundsAssumption, Zenon
<1> QED
  BY <1>1, <1>3, Zenon DEF Count

LEMMA ZeroType == 0 \in 0 .. MaxChanges /\ 0 \in 0 .. MaxFaults /\ 0 \in 0 .. MaxCrashes
BY BoundsAssumption

\* A pass that is about to update a Deployment holds the copy of that one.
LEMMA HeldOne ==
  ASSUME TypeOK, KeyInv, NEW c \in Controllers, pass[c].pc \in {"update", "volume"},
         NEW d \in DOMAIN held[c]
  PROVE  d \in Named /\ held[c][d] \in Deployments /\ current[c] \subseteq {d}
<1>1. \A e \in DOMAIN held[c] : e = d
  BY Zenon DEF KeyInv, PassOK
<1>2. DOMAIN held[c] \subseteq Named /\ current[c] \subseteq DOMAIN held[c]
  BY Zenon DEF TypeOK
<1>3. held[c] \in [DOMAIN held[c] -> Deployments]
  BY Zenon DEF TypeOK
<1> QED
  BY <1>1, <1>2, <1>3, Zenon

\* The files of a KogitoRuntime are mounted as files.
LEMMA VolumeType ==
  ASSUME TypeOK, NEW d \in Deployments, NEW r \in Runtimes
  PROVE  MountAsVolume(d, r) \in Deployments
<1>1. protobuf[r].files \subseteq Files
  BY DEF TypeOK
<1>2. {r} \X protobuf[r].files \subseteq Runtimes \X Files
  BY <1>1
<1>3. d.mounts \cup ({r} \X protobuf[r].files) \in SUBSET (Runtimes \X Files)
  BY <1>2 DEF Deployments
<1> QED
  BY <1>3 DEF MountAsVolume, Deployments

\* A pass that ends is idle.
LEMMA EndType ==
  ASSUME TypeOK, NEW c \in Controllers, End(c)
  PROVE  pass' \in [Controllers -> Passes]
<1>1. Idle \in Passes
  BY DeploymentTypes DEF Idle, Passes, Positions
<1> QED
  BY <1>1 DEF End, TypeOK

\* A pass that goes elsewhere is a pass.
LEMMA GoType ==
  ASSUME TypeOK, NEW c \in Controllers, NEW pc \in Positions, Go(c, pc)
  PROVE  /\ pass' \in [Controllers -> Passes]
         /\ pass'[c].pc = pc /\ pass'[c].key = pass[c].key
         /\ \A e \in Controllers \ {c} : pass'[e] = pass[e]
<1>1. pass[c] \in Passes
  BY DEF TypeOK
<1>2. /\ [pass[c] EXCEPT !.pc = pc] \in Passes
      /\ [pass[c] EXCEPT !.pc = pc].pc = pc
      /\ [pass[c] EXCEPT !.pc = pc].key = pass[c].key
  BY <1>1 DEF Passes
<1>3. pass' = [pass EXCEPT ![c] = [pass[c] EXCEPT !.pc = pc]]
  BY DEF Go
<1> QED
  BY <1>2, <1>3 DEF TypeOK

\* The requests that events make are requests.
LEMMA NotifyType ==
  ASSUME NEW q \in [Controllers -> SUBSET Named], NEW D \in SUBSET Named
  PROVE  Notify(q, D) \in [Controllers -> SUBSET Named]
BY DEF Notify, Named, Annotated, Controllers

LEMMA NotifyOwnerType ==
  ASSUME TypeOK, NEW k, NotifyOwner(k)
  PROVE  queue' \in [Controllers -> SUBSET Named]
BY DEF TypeOK, NotifyOwner, Named, Annotated, Controllers

LEMMA AllRequestsType == AllRequests \in [Controllers -> SUBSET Named]
<1> DEFINE f(c) == CASE c = "supporting" -> exists \cap Services
                     [] c = "runtime"    -> exists \cap Runtimes
                     [] c = "deployment" -> {d \in Annotated : deployment[d].exists}
<1>1. \A c \in Controllers : f(c) \in SUBSET Named
  BY DEF Controllers, Named, Annotated
<1>2. AllRequests = [c \in Controllers |-> f(c)]
  BY DEF AllRequests
<1> HIDE DEF f
<1> QED
  BY <1>1, <1>2

\* Copies that are dropped, taken or no longer current.
LEMMA DropType ==
  ASSUME TypeOK, NEW c \in Controllers, Drop(c),
         \A e \in Controllers \ {c} : current'[e] \subseteq current[e],
         current' \in [Controllers -> SUBSET Named], current'[c] = {}
  PROVE  CopiesType'
<1>1. NoCopies \in [{} -> Deployments] /\ DOMAIN NoCopies = {}
  BY DEF NoCopies
<1>2. /\ held' = [e \in Controllers |-> held'[e]]
      /\ held'[c] = NoCopies
      /\ \A e \in Controllers \ {c} : held'[e] = held[e]
  BY DEF Drop, TypeOK
<1> QED
  BY <1>1, <1>2, Zenon DEF CopiesType, TypeOK

LEMMA HoldType ==
  ASSUME TypeOK, NEW c \in Controllers, NEW D \in SUBSET Named, Hold(c, D)
  PROVE  CopiesType'
<1>1. [d \in D |-> deployment[d]] \in [D -> Deployments]
  BY DEF TypeOK
<1>2. /\ held' = [e \in Controllers |-> held'[e]]
      /\ held'[c] = [d \in D |-> deployment[d]]
      /\ \A e \in Controllers \ {c} : held'[e] = held[e]
      /\ current' \in [Controllers -> SUBSET Named]
      /\ current'[c] = D
      /\ \A e \in Controllers \ {c} : current'[e] = current[e]
  BY DEF Hold, TypeOK
<1> QED
  BY <1>1, <1>2, ZenonT(30) DEF CopiesType, TypeOK

\* A Deployment that is changed.
LEMMA ChangeType ==
  ASSUME TypeOK, NEW c, NEW d \in Named, NEW new \in Deployments, Change(c, d, new)
  PROVE  /\ deployment' \in [Named -> Deployments]
         /\ queue' \in [Controllers -> SUBSET Named]
         /\ current' \in [Controllers -> SUBSET Named]
         /\ \A e \in Controllers : current'[e] \subseteq current[e]
         /\ c \in Controllers => current'[c] = current[c] \ {d}
<1>1. deployment' \in [Named -> Deployments]
  BY DEF Change, TypeOK
<1>2. queue' \in [Controllers -> SUBSET Named]
  BY NotifyType, ZenonT(30) DEF Change, TypeOK
<1>3. /\ current' \in [Controllers -> SUBSET Named]
      /\ \A e \in Controllers : current'[e] \subseteq current[e]
      /\ c \in Controllers => current'[c] = current[c] \ {d}
  BY DEF Change, TypeOK
<1> QED
  BY <1>1, <1>2, <1>3

\* A pass is for an object with a name, so that its request can be repeated.
LEMMA KeyType ==
  ASSUME KeyInv, NEW c \in Controllers, pass[c].pc # "idle"
  PROVE  pass[c].key \in Keys(c) /\ Keys(c) \subseteq Named
BY DEF KeyInv, PassOK, Keys, Named, Annotated

\* The ways a pass ends.
LEMMA RetryType ==
  ASSUME TypeOK, KeyInv, NEW c \in Controllers, pass[c].pc # "idle", Retry(c)
  PROVE  TypeOK'
<1>1. pass[c].key \in Named
  BY KeyType
<1>2. pass' \in [Controllers -> Passes]
  BY EndType DEF Retry
<1>3. queue' \in [Controllers -> SUBSET Named]
  BY <1>1 DEF Retry, TypeOK
<1>4. CopiesType'
  BY DropType DEF Retry, TypeOK
<1> QED
  BY <1>2, <1>3, <1>4 DEF TypeOK, CopiesType, Retry, cluster

LEMMA DoneType ==
  ASSUME TypeOK, NEW c \in Controllers, Done(c)
  PROVE  TypeOK'
<1>1. pass' \in [Controllers -> Passes]
  BY EndType DEF Done
<1>2. CopiesType'
  BY DropType, Zenon DEF Done, TypeOK
<1> QED
  BY <1>1, <1>2 DEF TypeOK, CopiesType, Done, cluster

LEMMA RestartType ==
  ASSUME TypeOK, Restart,
         used' \in [changes : 0 .. MaxChanges, faults : 0 .. MaxFaults, crashes : 0 .. MaxCrashes]
  PROVE  TypeOK'
<1>1. Idle \in Passes
  BY DeploymentTypes DEF Idle, Passes, Positions
<1>2. pass' \in [Controllers -> Passes]
  BY <1>1 DEF Restart
<1>3. queue' \in [Controllers -> SUBSET Named]
  BY AllRequestsType DEF Restart
<1>4. NoCopies \in [{} -> Deployments] /\ DOMAIN NoCopies = {}
  BY DEF NoCopies
<1>5. CopiesType'
  BY <1>4 DEF Restart, CopiesType
<1> QED
  BY <1>2, <1>3, <1>5, Zenon DEF TypeOK, CopiesType, Restart, cluster

\* An update of a Deployment, with what else it changes.
LEMMA UpdateType ==
  ASSUME TypeOK, NEW c \in Controllers, NEW d \in Named,
         NEW new, d \in DOMAIN held[c] => new \in Deployments, Update(c, d, new)
  PROVE  /\ deployment' \in [Named -> Deployments]
         /\ queue' \in [Controllers -> SUBSET Named]
         /\ current' \in [Controllers -> SUBSET Named]
         /\ \A e \in Controllers : current'[e] \subseteq current[e]
         /\ current'[c] = current[c] \ {d}
         /\ deployment'[d].owned = deployment[d].owned
         /\ \A e \in Named \ {d} : deployment'[e] = deployment[e]
<1> DEFINE n == [new EXCEPT !.owned = deployment[d].owned]
<1>1. new \in Deployments
  BY DEF Update, TypeOK
<1>2. deployment[d] \in Deployments
  BY DEF TypeOK
<1>3. deployment[d].owned \in BOOLEAN
  BY <1>2 DEF Deployments
<1>4. n \in Deployments /\ n.owned = deployment[d].owned
  BY <1>1, <1>3, DeploymentTypes DEF Deployments
<1>5. Change(c, d, n)
  BY DEF Update
<1> HIDE DEF n
<1>6. deployment' = [deployment EXCEPT ![d] = n]
  BY <1>5 DEF Change
<1> QED
  BY <1>4, <1>5, <1>6, ChangeType DEF TypeOK

LEMMA UpdateLastType ==
  ASSUME TypeOK, KeyInv, NEW c \in Controllers, pass[c].pc # "idle", NEW d \in Named,
         NEW new, d \in DOMAIN held[c] => new \in Deployments, UpdateLast(c, d, new),
         current[c] \subseteq {d}
  PROVE  TypeOK'
<1>1. CASE Update(c, d, new) /\ End(c) /\ Drop(c)
  <2>1. pass' \in [Controllers -> Passes]
    BY <1>1, EndType
  <2>2. CopiesType'
    BY <1>1, UpdateType, DropType
  <2> QED
    BY <1>1, <2>1, <2>2, UpdateType, ZenonT(30) DEF TypeOK, CopiesType, Update
<1>2. CASE Retry(c)
  BY <1>2, RetryType
<1> QED
  BY <1>1, <1>2 DEF UpdateLast

\* A step of one controller leaves the passes of the others alone.
LEMMA KeyFrame ==
  ASSUME KeyInv, NEW c \in Controllers, PassOK(c)',
         \A e \in Controllers \ {c} : UNCHANGED <<pass[e], held[e]>>
  PROVE  KeyInv'
BY DEF KeyInv, PassOK

\* The same, for a pass that ends.
LEMMA KeyIdle ==
  ASSUME KeyInv, NEW c \in Controllers, pass'[c] = Idle,
         \A e \in Controllers \ {c} : UNCHANGED <<pass[e], held[e]>>
  PROVE  KeyInv'
<1>1. PassOK(c)'
  BY DEF PassOK, Idle, Places
<1> QED
  BY <1>1, KeyFrame

LEMMA KeyEnd ==
  ASSUME TypeOK, KeyInv, NEW c \in Controllers, End(c), Drop(c) \/ UNCHANGED held
  PROVE  KeyInv'
<1>1. pass'[c] = Idle /\ \A e \in Controllers \ {c} : UNCHANGED <<pass[e], held[e]>>
  BY DEF End, Drop, TypeOK
<1> QED
  BY <1>1, KeyIdle, Zenon

LEMMA KeyRestart == ASSUME Restart PROVE KeyInv'
BY DEF Restart, KeyInv, PassOK, Idle, Places

\* The start of a deployment, by both controllers of services.
LEMMA CreateType ==
  ASSUME TypeOK, KeyInv, NEW c \in {"supporting", "runtime"}, NEW k \in Keys(c),
         CreateDeployment(c, k), UNCHANGED held
  PROVE  /\ pass' \in [Controllers -> Passes]
         /\ KeyInv'
         /\ pass'[c].key = k
         /\ \A e \in Controllers \ {c} : pass'[e] = pass[e]
<1>1. PICK envFrom \in InjectEndpoints(OnDeploymentCreate(k)) :
        pass' = [pass EXCEPT ![c] =
               [pc |-> "read", key |-> k, gone |-> FALSE,
                want |-> [NoDeployment EXCEPT !.exists = TRUE, !.envFrom = envFrom],
                listed |-> IF k \in Services /\ GetSupportingServiceReconciler(k).protobufs
                           THEN FetchAllProtoBufConfigMaps ELSE {}]]
  BY Zenon DEF CreateDeployment
<1>2. envFrom \subseteq Services
  BY DEF InjectEndpoints
<1> DEFINE want == [NoDeployment EXCEPT !.exists = TRUE, !.envFrom = envFrom]
           listed == IF k \in Services /\ GetSupportingServiceReconciler(k).protobufs
                     THEN FetchAllProtoBufConfigMaps ELSE {}
           p == [pc |-> "read", key |-> k, gone |-> FALSE, want |-> want, listed |-> listed]
<1>3. want \in Deployments
  BY <1>2, Zenon DEF NoDeployment, Deployments
<1>4. listed \subseteq Runtimes
  BY DEF FetchAllProtoBufConfigMaps, FetchProtoBufConfigMap
<1>5. k \in Named /\ c \in Controllers
  BY DEF Keys, Named, Annotated, Controllers
<1> HIDE DEF want, listed
<1>6. p \in Passes /\ p.pc = "read" /\ p.key = k
  BY <1>3, <1>4, <1>5 DEF Passes, Positions
<1>7. pass' = [pass EXCEPT ![c] = p]
  BY <1>1 DEF want, listed
<1> HIDE DEF p
<1>8. /\ pass' \in [Controllers -> Passes] /\ pass'[c] = p
      /\ \A e \in Controllers \ {c} : pass'[e] = pass[e]
  BY <1>5, <1>6, <1>7 DEF TypeOK
<1>9. PassOK(c)'
  BY <1>6, <1>8 DEF PassOK, Places
<1> QED
  BY <1>5, <1>6, <1>8, <1>9, KeyFrame, ZenonT(30)

\* The ConfigMaps are mounted and the Deployment is read.
LEMMA MountType ==
  ASSUME TypeOK, KeyInv, NEW c \in Controllers, MountAllProtoBufConfigMaps(c)
  PROVE  /\ TypeOK' /\ KeyInv'
         /\ pass'[c].key = pass[c].key /\ pass'[c].gone = pass[c].gone
         /\ \A e \in Controllers \ {c} : pass'[e] = pass[e]
<1> DEFINE mounts == UNION {{r} \X protobuf[r].files : r \in pass[c].listed}
           p == [pass[c] EXCEPT !.pc = "deploy", !.listed = {}, !.want.mounts = mounts]
<1>1. pass[c] \in Passes /\ pass[c].pc = "read"
  BY DEF TypeOK, MountAllProtoBufConfigMaps
<1>2. pass[c].key \in Keys(c) /\ Keys(c) \subseteq Named
  BY <1>1, KeyType
<1>3. mounts \subseteq Runtimes \X Files
  <2>1. \A r \in Runtimes : protobuf[r].files \subseteq Files
    BY DEF TypeOK
  <2>2. pass[c].listed \subseteq Runtimes
    BY <1>1 DEF Passes
  <2> QED
    BY <2>1, <2>2
<1> HIDE DEF mounts
<1>4. [pass[c].want EXCEPT !.mounts = mounts] \in Deployments
  <2>1. pass[c].want \in Deployments
    BY <1>1 DEF Passes
  <2> QED
    BY <1>3, <2>1 DEF Deployments
<1>5. p = [pass[c] EXCEPT !.pc = "deploy", !.listed = {},
                          !.want = [pass[c].want EXCEPT !.mounts = mounts]]
  BY <1>1 DEF Passes
<1>6. /\ p \in Passes /\ p.pc = "deploy"
      /\ p.key = pass[c].key /\ p.gone = pass[c].gone
  BY <1>1, <1>4, <1>5, Zenon DEF Passes, Positions
<1>7. pass' = [pass EXCEPT ![c] = p]
  BY ZenonT(30) DEF MountAllProtoBufConfigMaps, mounts
<1> HIDE DEF p
<1>8. /\ pass' \in [Controllers -> Passes] /\ pass'[c] = p
      /\ \A e \in Controllers \ {c} : pass'[e] = pass[e]
  BY <1>6, <1>7 DEF TypeOK
<1>9. FetchDeployment(pass[c].key) \subseteq {pass[c].key}
  BY DEF FetchDeployment
<1>10. CopiesType'
  BY <1>2, <1>9, HoldType DEF MountAllProtoBufConfigMaps
<1>11. TypeOK'
  BY <1>8, <1>10, ZenonT(30) DEF MountAllProtoBufConfigMaps, TypeOK, CopiesType, cluster
<1>12. /\ DOMAIN held'[c] = FetchDeployment(pass[c].key)
       /\ \A e \in Controllers \ {c} : held'[e] = held[e]
  BY DEF MountAllProtoBufConfigMaps, Hold, TypeOK
<1>13. PassOK(c)'
  <2>1. "deploy" \in Places(c)
    BY <1>1, Zenon DEF KeyInv, PassOK, Places
  <2> QED
    BY <1>2, <1>6, <1>8, <1>9, <1>12, <2>1 DEF PassOK
<1> QED
  BY <1>6, <1>8, <1>11, <1>12, <1>13, KeyFrame, ZenonT(30)

\* The Deployment is written: it is owned unless its instance was deleted
\* during the pass, and no other Deployment is touched.
LEMMA DeltaType ==
  ASSUME TypeOK, KeyInv, NEW c \in Controllers, ProcessDelta(c)
  PROVE  /\ TypeOK' /\ KeyInv' /\ UNCHANGED exists
         /\ \A e \in Named \ {pass[c].key} : deployment'[e] = deployment[e]
         /\ LET k == pass[c].key
            IN  deployment'[k].owned => deployment[k].owned \/ ~pass[c].gone
         /\ pass'[c].pc \notin {"read", "deploy"}
         /\ \A e \in Controllers \ {c} : pass'[e] = pass[e]
<1> DEFINE k == pass[c].key
           want == pass[c].want
           new == [want EXCEPT !.owned = ~pass[c].gone,
                               !.watch = k \in DOMAIN held[c] /\ held[c][k].watch]
           same == k \in DOMAIN held[c] /\ held[c][k].envFrom = want.envFrom
                     /\ held[c][k].mounts = want.mounts
           next == CASE k \in Runtimes -> "protobuf"
                     [] k \in Services /\ GetSupportingServiceReconciler(k).publishes -> "endpoint"
                     [] OTHER -> "idle"
           p == IF next = "idle" THEN Idle
                ELSE [pass[c] EXCEPT !.pc = next, !.want = NoDeployment]
<1>1. pass[c] \in Passes /\ pass[c].pc = "deploy"
  BY DEF TypeOK, ProcessDelta
<1>2. c \in {"supporting", "runtime"} /\ k \in Keys(c) /\ k \in Named
  BY <1>1, KeyType, ZenonT(30) DEF KeyInv, PassOK, Places, Controllers
<1>3. DOMAIN held[c] \subseteq {k} /\ current[c] \subseteq {k}
  BY <1>1 DEF KeyInv, PassOK, TypeOK
<1>4. new \in Deployments /\ new.owned = ~pass[c].gone
  <2>1. want \in Deployments /\ (~pass[c].gone) \in BOOLEAN
    BY <1>1 DEF Passes
  <2>2. (k \in DOMAIN held[c] /\ held[c][k].watch) \in BOOLEAN
    OBVIOUS
  <2> HIDE DEF k, want
  <2> QED
    BY <2>1, <2>2, Zenon DEF Deployments
<1>5. next \in Places(c) /\ next \in {"protobuf", "endpoint", "idle"}
  <2>1. CASE k \in Runtimes
    BY <1>2, <2>1 DEF Keys, Places
  <2>2. CASE k \notin Runtimes
    BY <1>2, <2>2 DEF Keys, Places
  <2> QED
    BY <2>1, <2>2
<1> HIDE DEF next
<1>6. p \in Passes /\ (p = Idle \/ (p.pc = next /\ p.key = k))
  <2>1. Idle \in Passes
    BY DeploymentTypes DEF Idle, Passes, Positions
  <2>2. [pass[c] EXCEPT !.pc = next, !.want = NoDeployment] \in Passes
    BY <1>1, <1>5, DeploymentTypes, Zenon DEF Passes, Positions
  <2>3. /\ [pass[c] EXCEPT !.pc = next, !.want = NoDeployment].pc = next
        /\ [pass[c] EXCEPT !.pc = next, !.want = NoDeployment].key = k
    BY <1>1 DEF Passes
  <2> QED
    BY <2>1, <2>2, <2>3
<1>7. CASE Retry(c)
  <2>1. TypeOK'
    BY <1>1, <1>7, RetryType
  <2>2. KeyInv'
    BY <1>7, KeyEnd DEF Retry
  <2>3. pass'[c] = Idle /\ \A e \in Controllers \ {c} : pass'[e] = pass[e]
    BY <1>7, Zenon DEF Retry, End, TypeOK
  <2> QED
    BY <1>7, <2>1, <2>2, <2>3 DEF Retry, cluster, Idle
<1>8. CASE /\ IF same THEN UNCHANGED <<deployment, queue>> /\ current' = [current EXCEPT ![c] = {}]
                ELSE Change(c, k, new)
           /\ pass' = [pass EXCEPT ![c] = p]
           /\ Drop(c)
           /\ UNCHANGED <<exists, available, endpoint, protobuf, served, used>>
  <2> HIDE DEF p, same, new
  <2>1. /\ pass' \in [Controllers -> Passes] /\ pass'[c] = p
        /\ \A e \in Controllers \ {c} : pass'[e] = pass[e]
    BY <1>6, <1>8, ZenonT(30) DEF TypeOK
  <2>2. \A e \in Controllers \ {c} : held'[e] = held[e]
    BY <1>8, Zenon DEF Drop, TypeOK
  <2>3. PassOK(c)'
    BY <1>2, <1>5, <1>6, <2>1 DEF PassOK, Idle, Places
  <2>4. KeyInv'
    BY <2>1, <2>2, <2>3, KeyFrame, Zenon
  <2>5. /\ deployment' \in [Named -> Deployments]
        /\ queue' \in [Controllers -> SUBSET Named]
        /\ current' \in [Controllers -> SUBSET Named]
        /\ \A e \in Controllers : current'[e] \subseteq current[e]
        /\ current'[c] = {}
    <3>1. CASE same
      BY <1>8, <3>1, ZenonT(30) DEF TypeOK
    <3>2. CASE ~same
      BY <1>2, <1>3, <1>4, <1>8, <3>2, ChangeType, SMTT(30)
    <3> QED
      BY <3>1, <3>2
  <2>6. CopiesType'
    BY <1>8, <2>5, DropType
  <2>7. TypeOK'
    BY <1>8, <2>1, <2>5, <2>6, ZenonT(30) DEF TypeOK, CopiesType
  <2>8. deployment' = deployment \/ deployment' = [deployment EXCEPT ![k] = new]
    BY <1>8, Zenon DEF Change
  <2>9. /\ \A e \in Named \ {k} : deployment'[e] = deployment[e]
        /\ deployment'[k].owned => deployment[k].owned \/ ~pass[c].gone
    BY <1>2, <1>4, <2>8, ZenonT(30) DEF TypeOK
  <2>10. pass'[c].pc \notin {"read", "deploy"}
    BY <1>5, <1>6, <2>1 DEF Idle
  <2> QED
    BY <1>8, <2>1, <2>4, <2>7, <2>9, <2>10, ZenonT(30)
<1> QED
  <2>1. \/ Retry(c)
        \/ /\ IF same THEN UNCHANGED <<deployment, queue>> /\ current' = [current EXCEPT ![c] = {}]
                ELSE Change(c, k, new)
           /\ pass' = [pass EXCEPT ![c] = p]
           /\ Drop(c)
           /\ UNCHANGED <<exists, available, endpoint, protobuf, served, used>>
    BY ZenonT(30) DEF ProcessDelta, next
  <2> QED
    BY <1>7, <1>8, <2>1, Zenon

-----------------------------------------------------------------------------
(* The other steps: types, keys, and that they give no Deployment an owner. *)

\* A step that makes no service the owner of a Deployment, and begins no pass
\* of the supporting services' controller.
Quiet ==
  /\ UNCHANGED exists
  /\ \A s \in Services : deployment'[s].owned => deployment[s].owned
  /\ \A s \in Services : Deploying(s)' => Deploying(s)

Kept == TypeOK' /\ KeyInv' /\ Quiet

\* A step that touches neither passes, copies, instances nor Deployments.
LEMMA StillKept ==
  ASSUME TypeOK', KeyInv, UNCHANGED <<exists, deployment, pass, held>>
  PROVE  Kept
BY DEF Kept, KeyInv, PassOK, Quiet, Deploying

LEMMA RestartKept ==
  ASSUME TypeOK, Restart,
         used' \in [changes : 0 .. MaxChanges, faults : 0 .. MaxFaults, crashes : 0 .. MaxCrashes]
  PROVE  Kept
<1>1. Quiet
  BY DEF Restart, Quiet, Deploying, Idle, cluster, Controllers
<1> QED
  BY <1>1, RestartType, KeyRestart, Zenon DEF Kept

LEMMA RetryKept ==
  ASSUME TypeOK, KeyInv, NEW c \in Controllers, pass[c].pc # "idle", Retry(c)
  PROVE  Kept
<1>1. Quiet
  BY DEF Retry, End, Quiet, Deploying, Idle, cluster, TypeOK, Controllers
<1> QED
  BY <1>1, RetryType, KeyEnd, ZenonT(30) DEF Kept, Retry

LEMMA DoneKept ==
  ASSUME TypeOK, KeyInv, NEW c \in Controllers, Done(c)
  PROVE  Kept
<1>1. Quiet
  BY DEF Done, End, Quiet, Deploying, Idle, cluster, TypeOK, Controllers
<1> QED
  BY <1>1, DoneType, KeyEnd, ZenonT(30) DEF Kept, Done

LEMMA UpdateLastKept ==
  ASSUME TypeOK, KeyInv, NEW c \in Controllers, pass[c].pc # "idle", NEW d \in Named,
         NEW new, d \in DOMAIN held[c] => new \in Deployments, UpdateLast(c, d, new),
         current[c] \subseteq {d}
  PROVE  Kept
<1>1. CASE Update(c, d, new) /\ End(c) /\ Drop(c)
  <2>1. \A e \in Named : deployment'[e].owned = deployment[e].owned
    BY <1>1, UpdateType, ZenonT(30)
  <2>2. Quiet
    BY <1>1, <2>1 DEF Quiet, Update, End, Deploying, Idle, TypeOK, Controllers, Named
  <2> QED
    BY <1>1, <2>2, UpdateLastType, KeyEnd, ZenonT(30) DEF Kept
<1>2. CASE Retry(c)
  BY <1>2, RetryKept, Zenon
<1> QED
  BY <1>1, <1>2 DEF UpdateLast

\* After the Deployments of runtimes.
LEMMA AfterRuntimesType ==
  ASSUME TypeOK, KeyInv, pass["supporting"].pc # "idle", AfterRuntimes("supporting")
  PROVE  /\ pass' \in [Controllers -> Passes]
         /\ pass'["supporting"].pc \in {"idle", "console"}
         /\ pass'["supporting"].pc = "console" => pass'["supporting"].key = pass["supporting"].key
         /\ \A e \in Controllers \ {"supporting"} : pass'[e] = pass[e]
<1>1. "supporting" \in Controllers /\ "console" \in Positions
  BY Zenon DEF Controllers, Positions
<1>2. CASE End("supporting")
  BY <1>1, <1>2, EndType, ZenonT(30) DEF End, Idle, TypeOK
<1>3. CASE Go("supporting", "console")
  BY <1>1, <1>3, GoType, ZenonT(30)
<1> QED
  BY <1>2, <1>3 DEF AfterRuntimes

LEMMA EndpointKept == ASSUME TypeOK, KeyInv, ReconcileEndpoint PROVE Kept
<1> DEFINE c == "supporting"
           s == pass[c].key
<1>1. c \in Controllers /\ pass[c].pc = "endpoint"
  BY DEF ReconcileEndpoint, Controllers
<1>2. s \in Services
  BY <1>1, KeyType, ZenonT(30) DEF Keys
<1>3. /\ pass' \in [Controllers -> Passes]
      /\ pass'[c].pc \in {"idle", "console", "inject"}
      /\ pass'[c].pc # "idle" => pass'[c].key = s
      /\ \A e \in Controllers \ {c} : pass'[e] = pass[e]
  <2>1. CASE AfterRuntimes(c)
    BY <1>1, <2>1, AfterRuntimesType
  <2>2. CASE Go(c, "inject")
    BY <1>1, <2>2, GoType, Zenon DEF Positions
  <2> QED
    BY <2>1, <2>2 DEF ReconcileEndpoint
<1>4. endpoint' \in [Services -> Existence]
  BY <1>2, ZenonT(30) DEF ReconcileEndpoint, TypeOK, Existence
<1>5. queue' \in [Controllers -> SUBSET Named]
  BY NotifyOwnerType DEF ReconcileEndpoint, TypeOK
<1>6. FetchKogitoRuntimeDeployments \subseteq Named
  BY Zenon DEF FetchKogitoRuntimeDeployments, Named
<1>7. CopiesType' /\ \A e \in Controllers \ {c} : held'[e] = held[e]
  BY <1>1, <1>6, HoldType, ZenonT(30) DEF ReconcileEndpoint, Hold, TypeOK
<1>8. TypeOK'
  BY <1>3, <1>4, <1>5, <1>7, ZenonT(30) DEF ReconcileEndpoint, TypeOK, CopiesType
<1>9. PassOK(c)'
  BY <1>2, <1>3 DEF PassOK, Places, Keys
<1>10. KeyInv'
  BY <1>1, <1>3, <1>7, <1>9, KeyFrame, ZenonT(30)
<1>11. Quiet
  BY <1>3 DEF ReconcileEndpoint, Quiet, Deploying
<1> QED
  BY <1>8, <1>10, <1>11 DEF Kept

LEMMA InjectKept ==
  ASSUME TypeOK, KeyInv, InjectSupportingServiceURLIntoKogitoRuntime
  PROVE  Kept
<1> DEFINE c == "supporting"
           s == pass[c].key
<1>1. c \in Controllers /\ pass[c].pc = "inject"
  BY DEF InjectSupportingServiceURLIntoKogitoRuntime, Controllers
<1>2. s \in Services
  BY <1>1, KeyType, Zenon DEF Keys
<1>3. PICK d \in DOMAIN held[c] :
        \/ /\ Update(c, d, MountAsEnvFrom(held[c][d], {s}))
           /\ held' = [held EXCEPT ![c] = [e \in DOMAIN held[c] \ {d} |-> held[c][e]]]
           /\ IF DOMAIN held[c] = {d} THEN AfterRuntimes(c) ELSE UNCHANGED pass
        \/ Retry(c)
  BY ZenonT(30) DEF InjectSupportingServiceURLIntoKogitoRuntime
<1>4. CASE Retry(c)
  BY <1>1, <1>4, RetryKept
<1>5. CASE /\ Update(c, d, MountAsEnvFrom(held[c][d], {s}))
           /\ held' = [held EXCEPT ![c] = [e \in DOMAIN held[c] \ {d} |-> held[c][e]]]
           /\ IF DOMAIN held[c] = {d} THEN AfterRuntimes(c) ELSE UNCHANGED pass
  <2>1. d \in Named /\ held[c][d] \in Deployments
    BY <1>1 DEF TypeOK
  <2>2. MountAsEnvFrom(held[c][d], {s}) \in Deployments
    BY <1>2, <2>1, DeploymentTypes, Zenon
  <2>3. /\ deployment' \in [Named -> Deployments]
        /\ queue' \in [Controllers -> SUBSET Named]
        /\ current' \in [Controllers -> SUBSET Named]
        /\ \A e \in Controllers : current'[e] \subseteq current[e]
        /\ current'[c] = current[c] \ {d}
        /\ \A e \in Named : deployment'[e].owned = deployment[e].owned
    BY <1>1, <1>5, <2>1, <2>2, UpdateType, ZenonT(30)
  <2>4. /\ pass' \in [Controllers -> Passes]
        /\ pass'[c].pc \in {"idle", "console", "inject"}
        /\ pass'[c].pc # "idle" => pass'[c].key = s
        /\ \A e \in Controllers \ {c} : pass'[e] = pass[e]
    <3>1. CASE AfterRuntimes(c)
      BY <1>1, <3>1, AfterRuntimesType, ZenonT(30)
    <3>2. CASE UNCHANGED pass
      BY <1>1, <3>2, ZenonT(30) DEF TypeOK
    <3> QED
      BY <1>5, <3>1, <3>2, Zenon
  <2>5. /\ held' = [e \in Controllers |-> held'[e]]
        /\ held'[c] = [e \in DOMAIN held[c] \ {d} |-> held[c][e]]
        /\ \A e \in Controllers \ {c} : held'[e] = held[e]
    BY <1>1, <1>5, ZenonT(30) DEF TypeOK
  <2>6. /\ DOMAIN held'[c] = DOMAIN held[c] \ {d}
        /\ held'[c] \in [DOMAIN held[c] \ {d} -> Deployments]
    BY <1>1, <2>5, SMTT(30) DEF TypeOK
  <2>7. CopiesType'
    BY <1>1, <2>3, <2>5, <2>6, ZenonT(30) DEF TypeOK, CopiesType
  <2>8. TypeOK'
    BY <1>5, <2>3, <2>4, <2>7, ZenonT(30) DEF TypeOK, CopiesType, Update
  <2>9. PassOK(c)'
    BY <1>2, <2>4, ZenonT(30) DEF PassOK, Places, Keys
  <2>10. KeyInv'
    BY <1>1, <2>4, <2>5, <2>9, KeyFrame, ZenonT(30)
  <2>11. Quiet
    BY <1>5, <2>3, <2>4, ZenonT(30) DEF Update, Quiet, Deploying, Named
  <2> QED
    BY <2>8, <2>10, <2>11, ZenonT(30) DEF Kept
<1> QED
  BY <1>3, <1>4, <1>5, ZenonT(30)

\* A pass that takes the copy of one Deployment for its last update.
LEMMA HoldOneKept ==
  ASSUME TypeOK, KeyInv, NEW c \in Controllers, pass[c].pc # "idle", NEW d \in Named,
         Hold(c, {d}), NEW pc \in {"update", "volume"}, pc \in Places(c), Go(c, pc),
         UNCHANGED <<exists, deployment, available, endpoint, protobuf, served>>,
         queue' \in [Controllers -> SUBSET Named],
         used' \in [changes : 0 .. MaxChanges, faults : 0 .. MaxFaults, crashes : 0 .. MaxCrashes]
  PROVE  Kept
<1>1. pc \in Positions
  BY Zenon DEF Positions
<1>2. /\ pass' \in [Controllers -> Passes]
      /\ pass'[c].pc = pc /\ pass'[c].key = pass[c].key
      /\ \A e \in Controllers \ {c} : pass'[e] = pass[e]
  BY <1>1, GoType, Zenon
<1>3. /\ CopiesType' /\ DOMAIN held'[c] = {d}
      /\ \A e \in Controllers \ {c} : held'[e] = held[e]
  <2>1. {d} \in SUBSET Named
    BY Zenon
  <2>2. CopiesType'
    BY <2>1, HoldType, Zenon
  <2>3. DOMAIN held'[c] = {d} /\ \A e \in Controllers \ {c} : held'[e] = held[e]
    BY Zenon DEF Hold, TypeOK
  <2> QED
    BY <2>2, <2>3, Zenon
<1>4. TypeOK'
  BY <1>2, <1>3, ZenonT(30) DEF TypeOK, CopiesType
<1>5. PassOK(c)'
  BY <1>2, <1>3, KeyType, Zenon DEF PassOK
<1>6. KeyInv'
  BY <1>2, <1>3, <1>5, KeyFrame, ZenonT(30)
<1>7. Quiet
  BY <1>2, Zenon DEF Quiet, Deploying, Controllers
<1> QED
  BY <1>4, <1>6, <1>7, Zenon DEF Kept

\* The Deployment of a service is one of the named ones.
LEMMA ServiceDeploymentType ==
  ASSUME NEW t, NEW d \in FetchKogitoSupportingServiceDeployment(t)
  PROVE  d = None \/ d \in Services
BY DEF FetchKogitoSupportingServiceDeployment, FetchKogitoSupportingServiceForServiceType,
       OfType

LEMMA ConsoleKept ==
  ASSUME TypeOK, KeyInv, InjectDataIndexURLIntoSupportingService \/ UpdateConsole
  PROVE  Kept
<1> DEFINE c == "supporting"
           s == pass[c].key
<1>0. c \in Controllers
  BY DEF Controllers
<1>1. CASE InjectDataIndexURLIntoSupportingService
  <2>1. pass[c].pc = "console"
    BY <1>1, Zenon DEF InjectDataIndexURLIntoSupportingService
  <2>2. PICK m : /\ m = None \/ m \in Services
                 /\ IF m # None /\ FetchEndPointConfigMap(s)
                    THEN Hold(c, {m}) /\ Go(c, "update") /\ UNCHANGED <<cluster, queue, used>>
                    ELSE Done(c)
    BY <1>1, ServiceDeploymentType, ZenonT(30) DEF InjectDataIndexURLIntoSupportingService
  <2>3. CASE Done(c)
    BY <1>0, <2>3, DoneKept
  <2>4. CASE /\ m \in Services /\ Hold(c, {m}) /\ Go(c, "update")
             /\ UNCHANGED <<cluster, queue, used>>
    <3>1. m \in Named /\ "update" \in Places(c)
      BY <2>4, Zenon DEF Named, Places
    <3> QED
      BY <1>0, <2>1, <2>4, <3>1, HoldOneKept, ZenonT(30) DEF cluster, TypeOK
  <2> QED
    BY <2>2, <2>3, <2>4, ZenonT(30)
<1>2. CASE UpdateConsole
  <2>1. pass[c].pc = "update"
    BY <1>2, Zenon DEF UpdateConsole
  <2>2. PICK m \in DOMAIN held[c] : UpdateLast(c, m, MountAsEnvFrom(held[c][m], {s}))
    BY <1>2, Zenon DEF UpdateConsole
  <2>3. m \in Named /\ held[c][m] \in Deployments /\ current[c] \subseteq {m}
    BY <1>0, <2>1, HeldOne, Zenon
  <2>4. s \in Services
    BY <1>0, <2>1, KeyType DEF Keys
  <2>5. MountAsEnvFrom(held[c][m], {s}) \in Deployments
    BY <2>3, <2>4, DeploymentTypes
  <2> QED
    BY <1>0, <2>1, <2>2, <2>3, <2>5, UpdateLastKept, ZenonT(30)
<1> QED
  BY <1>1, <1>2

LEMMA RuntimeKept ==
  ASSUME TypeOK, KeyInv, Runtime
  PROVE  Kept
<1> DEFINE c == "runtime"
           r == pass[c].key
<1>0. c \in Controllers /\ c # "supporting"
  BY DEF Controllers
<1>1. ASSUME NEW k \in Runtimes, ReconcileRuntime(k) PROVE Kept
  <2>1. queue' \in [Controllers -> SUBSET Named]
    BY <1>0, <1>1, ZenonT(30) DEF ReconcileRuntime, Take, TypeOK
  <2>2. CASE CreateDeployment(c, k)
    <3>1. k \in Keys(c)
      BY Zenon DEF Keys
    <3>2. /\ pass' \in [Controllers -> Passes] /\ KeyInv'
          /\ \A e \in Controllers \ {c} : pass'[e] = pass[e]
      BY <1>1, <2>2, <3>1, CreateType, Zenon DEF ReconcileRuntime
    <3>3. TypeOK'
      BY <1>1, <2>1, <3>2, ZenonT(30) DEF TypeOK, ReconcileRuntime, cluster
    <3> QED
      BY <1>1, <3>2, <3>3, ZenonT(30) DEF Kept, Quiet, Deploying, ReconcileRuntime, cluster, Controllers
  <2>3. CASE UNCHANGED pass
    <3>1. TypeOK'
      BY <1>1, <2>1, <2>3, ZenonT(30) DEF TypeOK, ReconcileRuntime, cluster
    <3> QED
      BY <1>1, <2>3, <3>1, StillKept, ZenonT(30) DEF ReconcileRuntime, cluster
  <2> QED
    BY <1>1, <2>2, <2>3, Zenon DEF ReconcileRuntime
<1>2. ASSUME NEW files \in SUBSET Files, ReconcileProtoBufConfigMap(files) PROVE Kept
  <2>1. pass[c].pc = "protobuf" /\ r \in Runtimes
    BY <1>0, <1>2, KeyType, ZenonT(30) DEF ReconcileProtoBufConfigMap, Keys
  <2>2. used' \in [changes : 0 .. MaxChanges, faults : 0 .. MaxFaults, crashes : 0 .. MaxCrashes]
    <3>1. CASE used.faults < MaxFaults /\ Count("faults")
      BY <3>1, CountType, Zenon
    <3>2. CASE UNCHANGED used
      BY <3>2, Zenon DEF TypeOK
    <3> QED
      BY <1>2, <3>1, <3>2, Zenon DEF ReconcileProtoBufConfigMap, GetProtobufData, Count
  <2>3. CASE MountProtoBufConfigMapOnDataIndex /\ UNCHANGED <<queue, protobuf>>
    <3>1. PICK d : /\ d = None \/ d \in Services
                   /\ IF d # None /\ FetchProtoBufConfigMap(r) # {}
                      THEN Hold(c, {d}) /\ Go(c, "volume")
                      ELSE End(c) /\ UNCHANGED <<held, current>>
      BY <2>3, ServiceDeploymentType, ZenonT(30) DEF MountProtoBufConfigMapOnDataIndex
    <3>2. CASE d \in Services /\ Hold(c, {d}) /\ Go(c, "volume")
      <4>1. d \in Named /\ "volume" \in Places(c)
        BY <3>2, Zenon DEF Named, Places
      <4> QED
        BY <1>0, <1>2, <2>1, <2>2, <2>3, <3>2, <4>1, HoldOneKept, ZenonT(30)
        DEF ReconcileProtoBufConfigMap, TypeOK
    <3>3. CASE End(c) /\ UNCHANGED <<held, current>>
      <4>1. pass' \in [Controllers -> Passes] /\ KeyInv'
        BY <1>0, <3>3, EndType, KeyEnd, ZenonT(30)
      <4>2. \A e \in Controllers \ {c} : pass'[e] = pass[e]
        BY <3>3, ZenonT(30) DEF End, TypeOK
      <4>3. TypeOK'
        BY <1>2, <2>2, <2>3, <3>3, <4>1, ZenonT(30) DEF ReconcileProtoBufConfigMap, TypeOK
      <4> QED
        BY <1>2, <4>1, <4>2, <4>3, ZenonT(30)
        DEF Kept, Quiet, Deploying, ReconcileProtoBufConfigMap, Controllers
    <3> QED
      BY <3>1, <3>2, <3>3, Zenon
  <2>4. CASE /\ protobuf' = [protobuf EXCEPT ![r] =
                              IF files = {} THEN NoProtobuf
                              ELSE [files |-> files, owned |-> ~pass[c].gone]]
             /\ End(c) /\ NotifyOwner(r) /\ UNCHANGED <<held, current>>
    <3>1. pass' \in [Controllers -> Passes] /\ KeyInv'
      BY <1>0, <2>4, EndType, KeyEnd, ZenonT(30)
    <3>2. \A e \in Controllers \ {c} : pass'[e] = pass[e]
      BY <2>4, Zenon DEF End, TypeOK
    <3>3. protobuf' \in [Runtimes -> [files : SUBSET Files, owned : BOOLEAN]]
      <4>1. pass[c].gone \in BOOLEAN
        BY <1>0 DEF TypeOK, Passes
      <4>2. (~pass[c].gone) \in BOOLEAN
        BY Zenon
      <4>3. /\ [files |-> files, owned |-> ~pass[c].gone] \in [files : SUBSET Files, owned : BOOLEAN]
            /\ NoProtobuf \in [files : SUBSET Files, owned : BOOLEAN]
        BY <4>2, Zenon DEF NoProtobuf
      <4> QED
        BY <2>1, <2>4, <4>3, ZenonT(30) DEF TypeOK
    <3>4. queue' \in [Controllers -> SUBSET Named]
      BY <2>4, NotifyOwnerType, Zenon
    <3>5. TypeOK'
      BY <1>2, <2>2, <2>4, <3>1, <3>3, <3>4, ZenonT(30) DEF ReconcileProtoBufConfigMap, TypeOK
    <3> QED
      BY <1>2, <3>1, <3>2, <3>5, Zenon
      DEF Kept, Quiet, Deploying, ReconcileProtoBufConfigMap, Controllers
  <2> QED
    BY <1>2, <2>3, <2>4, ZenonT(30) DEF ReconcileProtoBufConfigMap
<1>3. CASE DeploymentNotReachable
  BY <1>0, <1>3, RetryKept, Zenon DEF DeploymentNotReachable
<1>4. CASE UpdateDataIndex
  <2>1. pass[c].pc = "volume" /\ r \in Runtimes
    BY <1>0, <1>4, KeyType, Zenon DEF UpdateDataIndex, Keys
  <2>2. CASE Restart /\ UNCHANGED used
    BY <2>2, RestartKept, ZenonT(30) DEF TypeOK
  <2>3. ASSUME NEW d \in DOMAIN held[c],
               UpdateLast(c, d, UpdateProtoBufPropInToDeploymentEnv(MountAsVolume(held[c][d], r)))
        PROVE  Kept
    <3>1. d \in Named /\ held[c][d] \in Deployments /\ current[c] \subseteq {d}
      BY <1>0, <2>1, HeldOne, Zenon
    <3>2. UpdateProtoBufPropInToDeploymentEnv(MountAsVolume(held[c][d], r)) \in Deployments
      BY <2>1, <3>1, VolumeType, DeploymentTypes
    <3> QED
      BY <1>0, <2>1, <2>3, <3>1, <3>2, UpdateLastKept, ZenonT(30)
  <2> QED
    BY <1>4, <2>2, <2>3, Zenon DEF UpdateDataIndex
<1> QED
  BY <1>1, <1>2, <1>3, <1>4 DEF Runtime

LEMMA AnnotatedKept ==
  ASSUME TypeOK, KeyInv,
         \/ \E d \in Annotated : ReconcileDeployment(d)
         \/ InjectSupportingServiceEndpointIntoDeployment
  PROVE  Kept
<1> DEFINE c == "deployment"
<1>0. c \in Controllers /\ c # "supporting"
  BY DEF Controllers
<1>1. ASSUME NEW d \in Annotated, ReconcileDeployment(d) PROVE Kept
  <2>1. queue' \in [Controllers -> SUBSET Named]
    BY <1>0, <1>1, ZenonT(30) DEF ReconcileDeployment, Take, TypeOK
  <2>2. CASE Hold(c, {d}) /\ pass' = [pass EXCEPT ![c] = [Idle EXCEPT !.pc = "inject", !.key = d]]
    <3>1. d \in Named /\ {d} \in SUBSET Named
      BY DEF Named
    <3>2. [Idle EXCEPT !.pc = "inject", !.key = d] \in Passes
      BY <3>1, DeploymentTypes, ZenonT(30) DEF Idle, Passes, Positions
    <3>3. /\ pass' \in [Controllers -> Passes]
          /\ pass'[c] = [Idle EXCEPT !.pc = "inject", !.key = d]
          /\ \A e \in Controllers \ {c} : pass'[e] = pass[e]
      BY <1>0, <2>2, <3>2, ZenonT(30) DEF TypeOK
    <3>4. pass'[c].pc = "inject" /\ pass'[c].key = d
      BY <3>3 DEF Idle
    <3>5. CopiesType'
      BY <1>0, <2>2, <3>1, HoldType
    <3>6. DOMAIN held'[c] = {d} /\ \A e \in Controllers \ {c} : held'[e] = held[e]
      BY <1>0, <2>2, ZenonT(30) DEF Hold, TypeOK
    <3>7. TypeOK'
      BY <1>1, <2>1, <3>3, <3>5, ZenonT(30) DEF ReconcileDeployment, TypeOK, CopiesType, cluster
    <3>8. PassOK(c)'
      BY <3>4, <3>6, Zenon DEF PassOK, Places, Keys
    <3>9. KeyInv'
      BY <1>0, <3>3, <3>6, <3>8, KeyFrame, ZenonT(30)
    <3> QED
      BY <1>1, <3>3, <3>7, <3>9, ZenonT(30)
      DEF Kept, Quiet, Deploying, ReconcileDeployment, cluster, Controllers
  <2>3. CASE UNCHANGED <<pass, held, current>>
    <3>1. TypeOK'
      BY <1>1, <2>1, <2>3, ZenonT(30) DEF TypeOK, ReconcileDeployment, cluster
    <3> QED
      BY <1>1, <2>3, <3>1, StillKept, ZenonT(30) DEF ReconcileDeployment, cluster
  <2> QED
    BY <1>1, <2>2, <2>3, ZenonT(30) DEF ReconcileDeployment
<1>2. CASE InjectSupportingServiceEndpointIntoDeployment
  <2> DEFINE d == pass[c].key
  <2>1. pass[c].pc = "inject" /\ d \in Named
    BY <1>0, <1>2, KeyType, ZenonT(30) DEF InjectSupportingServiceEndpointIntoDeployment
  <2>2. PICK envFrom \in InjectEndpoints(RuntimeReads) :
          UpdateLast(c, d, MountAsEnvFrom(held[c][d], envFrom))
    BY <1>2, ZenonT(30) DEF InjectSupportingServiceEndpointIntoDeployment
  <2>3. envFrom \subseteq Services
    BY DEF InjectEndpoints
  <2>4. d \in DOMAIN held[c] => MountAsEnvFrom(held[c][d], envFrom) \in Deployments
    BY <1>0, <2>3, DeploymentTypes, SMTT(30) DEF TypeOK
  <2>5. current[c] \subseteq {d}
    BY <1>0, <2>1, ZenonT(30) DEF TypeOK, KeyInv, PassOK
  <2> QED
    BY <1>0, <2>1, <2>2, <2>4, <2>5, UpdateLastKept, ZenonT(30)
<1> QED
  BY <1>1, <1>2

LEMMA CollectKept == ASSUME TypeOK, KeyInv, Collect PROVE Kept
<1>1. ASSUME NEW d \in Named, CollectDeployment(d) PROVE Kept
  <2>1. /\ deployment' \in [Named -> Deployments]
        /\ queue' \in [Controllers -> SUBSET Named]
        /\ current' \in [Controllers -> SUBSET Named]
        /\ \A e \in Controllers : current'[e] \subseteq current[e]
    BY <1>1, ChangeType, DeploymentTypes, Zenon DEF CollectDeployment
  <2>2. TypeOK'
    BY <1>1, <2>1, ZenonT(30) DEF CollectDeployment, TypeOK
  <2>3. KeyInv'
    BY <1>1, ZenonT(30) DEF CollectDeployment, KeyInv, PassOK
  <2>4. \A s \in Services : deployment'[s].owned => deployment[s].owned
    BY <1>1, ZenonT(30) DEF CollectDeployment, Change, NoDeployment, TypeOK, Named
  <2> QED
    BY <1>1, <2>2, <2>3, <2>4, Zenon DEF Kept, Quiet, Deploying, CollectDeployment
<1>2. ASSUME NEW s \in Services, CollectEndpoint(s) PROVE Kept
  <2>1. queue' \in [Controllers -> SUBSET Named]
    BY <1>2, NotifyOwnerType, ZenonT(30) DEF CollectEndpoint
  <2>2. endpoint' \in [Services -> Existence]
    BY <1>2, ZenonT(30) DEF CollectEndpoint, TypeOK, Existence
  <2>9. TypeOK'
    BY <1>2, <2>1, <2>2, ZenonT(30) DEF TypeOK, CollectEndpoint
  <2> QED
    BY <1>2, <2>9, StillKept, ZenonT(30) DEF CollectEndpoint
<1>3. ASSUME NEW r \in Runtimes, CollectProtobuf(r) PROVE Kept
  <2>1. queue' \in [Controllers -> SUBSET Named]
    BY <1>3, NotifyOwnerType, ZenonT(30) DEF CollectProtobuf
  <2>2. protobuf' \in [Runtimes -> [files : SUBSET Files, owned : BOOLEAN]]
    BY <1>3, ZenonT(30) DEF CollectProtobuf, TypeOK, NoProtobuf
  <2>9. TypeOK'
    BY <1>3, <2>1, <2>2, ZenonT(30) DEF TypeOK, CollectProtobuf
  <2> QED
    BY <1>3, <2>9, StillKept, ZenonT(30) DEF CollectProtobuf
<1> QED
  BY <1>1, <1>2, <1>3, Zenon DEF Collect

\* Users, pods and faults, but for the creation and deletion of instances.
LEMMA EnvironmentKept ==
  ASSUME TypeOK, KeyInv,
         \/ \E r \in Runtimes : PodsStart(r) \/ \E files \in SUBSET Files : Serve(r, files)
         \/ \E c \in Controllers : Fail(c)
         \/ Crash \/ Resync
  PROVE  Kept
<1> USE BoundsAssumption
<1>1. ASSUME NEW r \in Runtimes, PodsStart(r) PROVE Kept
  <2>1. queue' \in [Controllers -> SUBSET Named]
    BY <1>1, NotifyType, ZenonT(30) DEF PodsStart, TypeOK, Named, Annotated
  <2>9. TypeOK'
    BY <1>1, <2>1, ZenonT(30) DEF TypeOK, PodsStart
  <2> QED
    BY <1>1, <2>9, StillKept, ZenonT(30) DEF PodsStart
<1>2. ASSUME NEW r \in Runtimes, NEW files \in SUBSET Files, Serve(r, files) PROVE Kept
  <2>1. queue' \in [Controllers -> SUBSET Named]
    BY <1>2, NotifyType, ZenonT(30) DEF Serve, TypeOK, Named, Annotated
  <2>2. used' \in [changes : 0 .. MaxChanges, faults : 0 .. MaxFaults, crashes : 0 .. MaxCrashes]
    BY <1>2, CountType, Zenon DEF Serve
  <2>3. served' \in [Runtimes -> SUBSET Files]
    BY <1>2, Zenon DEF Serve, TypeOK
  <2>9. TypeOK'
    BY <1>2, <2>1, <2>2, <2>3, ZenonT(30) DEF TypeOK, Serve
  <2> QED
    BY <1>2, <2>9, StillKept, ZenonT(30) DEF Serve
<1>3. ASSUME NEW c \in Controllers, Fail(c) PROVE Kept
  <2>1. pass[c].key \in Named
    BY <1>3, KeyType, ZenonT(30) DEF Fail
  <2>2. pass' \in [Controllers -> Passes] /\ KeyInv'
    BY <1>3, EndType, KeyEnd, ZenonT(30) DEF Fail
  <2>3. queue' \in [Controllers -> SUBSET Named]
    BY <1>3, <2>1, ZenonT(30) DEF Fail, TypeOK
  <2>4. CopiesType'
    BY <1>3, DropType, ZenonT(30) DEF Fail, TypeOK
  <2>5. used' \in [changes : 0 .. MaxChanges, faults : 0 .. MaxFaults, crashes : 0 .. MaxCrashes]
    BY <1>3, CountType, Zenon DEF Fail
  <2>6. TypeOK'
    BY <1>3, <2>2, <2>3, <2>4, <2>5, ZenonT(30) DEF TypeOK, CopiesType, Fail, cluster
  <2>7. Quiet
    BY <1>3, ZenonT(30) DEF Fail, End, Quiet, Deploying, Idle, cluster, TypeOK, Controllers
  <2> QED
    BY <2>2, <2>6, <2>7, ZenonT(30) DEF Kept
<1>4. CASE Crash
  <2>1. used' \in [changes : 0 .. MaxChanges, faults : 0 .. MaxFaults, crashes : 0 .. MaxCrashes]
    BY <1>4, CountType, Zenon DEF Crash
  <2> QED
    BY <1>4, <2>1, RestartKept, ZenonT(30) DEF Crash
<1>5. CASE Resync
  <2>1. TypeOK'
    BY <1>5, AllRequestsType, ZenonT(30) DEF TypeOK, Resync, cluster
  <2> QED
    BY <1>5, <2>1, StillKept, Zenon DEF Resync, cluster
<1> QED
  BY <1>1, <1>2, <1>3, <1>4, <1>5, ZenonT(30)

-----------------------------------------------------------------------------
(* Who owns Deployments.                                                    *)

\* Quiet steps take owners away at most.
LEMMA QuietOwners == ASSUME OwnerInv, Quiet PROVE OwnerInv'
BY ZenonT(30) DEF OwnerInv, Quiet

\* EnsureSingletonService: a service that passes it is the only one of its
\* type that exists.
LEMMA Singleton ==
  ASSUME NEW s \in exists \cap Services, EnsureSingletonService(s),
         NEW x \in exists \cap Services, TypeOf[x] = TypeOf[s]
  PROVE  x = s
<1> DEFINE S == OfType(TypeOf[s])
<1>1. s \in S /\ x \in S /\ S \subseteq Services
  BY ZenonT(30) DEF OfType
<1>2. IsFiniteSet(S)
  BY <1>1, FS_Subset, ZenonT(30)
<1>3. Cardinality(S) \in Nat /\ ~(Cardinality(S) > 1)
  BY <1>2, FS_CardinalityType, ZenonT(30) DEF EnsureSingletonService, Duplicates
<1> HIDE DEF S
<1>4. Cardinality(S \ {s}) = Cardinality(S) - 1 /\ IsFiniteSet(S \ {s})
  BY <1>1, <1>2, FS_RemoveElement, ZenonT(30)
<1>5. Cardinality(S \ {s}) \in Nat
  BY <1>4, FS_CardinalityType, ZenonT(30)
<1>6. Cardinality(S \ {s}) = 0
  BY <1>3, <1>4, <1>5, OneLess, ZenonT(30)
<1>7. S \ {s} = {}
  BY <1>4, <1>6, FS_EmptySet, Zenon
<1> QED
  BY <1>1, <1>7, ZenonT(30)

LEMMA ReconcileServiceStep ==
  ASSUME NamespaceInv, NEW s \in Services, ReconcileService(s)
  PROVE  NamespaceInv'
<1> USE DEF NamespaceInv
<1> DEFINE c == "supporting"
<1>0. c \in Controllers
  BY ZenonT(30) DEF Controllers
<1>1. queue' \in [Controllers -> SUBSET Named]
  BY <1>0, ZenonT(30) DEF ReconcileService, TypeOK
<1>2. CASE UNCHANGED pass
  <2>1. TypeOK'
    BY <1>1, <1>2, ZenonT(30) DEF TypeOK, ReconcileService, cluster
  <2> QED
    BY <1>2, <2>1, StillKept, QuietOwners, ZenonT(30) DEF Kept, ReconcileService, cluster
<1>3. CASE s \in exists /\ EnsureSingletonService(s) /\ CreateDeployment(c, s)
  <2>1. s \in Keys(c)
    BY ZenonT(30) DEF Keys
  <2>2. /\ pass' \in [Controllers -> Passes] /\ KeyInv' /\ pass'[c].key = s
    BY <1>3, <2>1, CreateType, ZenonT(30) DEF ReconcileService
  <2>3. TypeOK'
    BY <1>1, <2>2, ZenonT(30) DEF TypeOK, ReconcileService, cluster
  <2>4. \A x \in Services : TypeOf[x] = TypeOf[s] /\ deployment[x].owned => x = s
    BY <1>3, Singleton, ZenonT(30) DEF OwnerInv
  <2>5. UNCHANGED <<exists, deployment>>
    BY ZenonT(30) DEF ReconcileService, cluster
  <2>6. \A x \in Services : Deploying(x)' => x = s
    BY <2>2, ZenonT(30) DEF Deploying
  <2>7. OwnerInv'
    BY <1>3, <2>4, <2>5, <2>6, ZenonT(30) DEF OwnerInv
  <2> QED
    BY <2>2, <2>3, <2>7, ZenonT(30)
<1> QED
  BY <1>2, <1>3, ZenonT(30) DEF ReconcileService

\* The two controllers of services deploy.
LEMMA StepStep ==
  ASSUME NamespaceInv, NEW c \in Controllers, Step(c)
  PROVE  NamespaceInv'
<1> USE DEF NamespaceInv
<1>1. CASE MountAllProtoBufConfigMaps(c)
  <2>1. Quiet
    BY <1>1, MountType, ZenonT(30) DEF MountAllProtoBufConfigMaps, Quiet, Deploying, cluster, Controllers
  <2> QED
    BY <1>1, <2>1, MountType, QuietOwners, ZenonT(30)
<1>2. CASE MountPanics(c)
  BY <1>2, RestartKept, QuietOwners, Zenon DEF MountPanics, Kept, TypeOK
<1>3. CASE ProcessDelta(c)
  <2> DEFINE k == pass[c].key
  <2>1. TypeOK' /\ KeyInv' /\ UNCHANGED exists
    BY <1>3, DeltaType, ZenonT(30)
  <2>2. /\ \A e \in Named \ {k} : deployment'[e] = deployment[e]
        /\ deployment'[k].owned => deployment[k].owned \/ ~pass[c].gone
        /\ pass'[c].pc \notin {"read", "deploy"}
        /\ \A e \in Controllers \ {c} : pass'[e] = pass[e]
    BY <1>3, DeltaType, ZenonT(30)
  <2>3. pass[c].pc = "deploy" /\ k \in Keys(c) /\ c # "deployment"
    BY <1>3, KeyType, ZenonT(30) DEF ProcessDelta, KeyInv, PassOK, Places
  <2>4. \A x \in Services : Deploying(x)' => Deploying(x)
    BY <2>2, ZenonT(30) DEF Deploying, Controllers
  <2>5. CASE c = "runtime"
    <3>1. k \notin Services
      BY <2>3, <2>5, ZenonT(30) DEF Keys
    <3>2. Quiet
      BY <2>1, <2>2, <2>4, <3>1, ZenonT(30) DEF Quiet, Named
    <3> QED
      BY <2>1, <3>2, QuietOwners, ZenonT(30)
  <2>6. CASE c = "supporting"
    <3>1. k \in Services
      BY <2>3, <2>6, ZenonT(30) DEF Keys
    <3>2. ~pass[c].gone => Deploying(k)
      BY <2>3, <2>6, ZenonT(30) DEF Deploying
    <3>3. \A x \in Services : ~Deploying(x)'
      BY <2>2, <2>6, ZenonT(30) DEF Deploying
    <3>4. \A x \in Services : x # k => deployment'[x].owned = deployment[x].owned
      BY <2>2, ZenonT(30) DEF Named
    <3>5. deployment'[k].owned => deployment[k].owned \/ Deploying(k)
      BY <2>2, <3>2, ZenonT(30)
    <3>6. OwnerInv'
      BY <2>1, <3>1, <3>3, <3>4, <3>5, ZenonT(30) DEF OwnerInv
    <3> QED
      BY <2>1, <3>6, ZenonT(30)
  <2> QED
    BY <2>3, <2>5, <2>6, ZenonT(30) DEF Controllers
<1> QED
  BY <1>1, <1>2, <1>3, ZenonT(30) DEF Step

\* Users create and delete instances at any moment.
LEMMA InstanceStep ==
  ASSUME NamespaceInv, NEW k \in Owners, Create(k) \/ Delete(k)
  PROVE  NamespaceInv'
<1> USE DEF NamespaceInv
<1>0. k \in Named
  BY Zenon DEF Owners, Named, Annotated
<1>1. CASE Create(k)
  <2>1. queue' \in [Controllers -> SUBSET Named]
    BY <1>1, NotifyOwnerType, ZenonT(30) DEF Create
  <2>2. used' \in [changes : 0 .. MaxChanges, faults : 0 .. MaxFaults, crashes : 0 .. MaxCrashes]
    BY <1>1, CountType, Zenon DEF Create
  <2>3. exists' \subseteq Owners /\ exists \subseteq exists'
    BY <1>1, ZenonT(30) DEF Create, TypeOK
  <2>4. TypeOK'
    BY <1>1, <2>1, <2>2, <2>3, ZenonT(30) DEF Create, TypeOK
  <2>5. KeyInv'
    BY <1>1, ZenonT(30) DEF Create, KeyInv, PassOK
  <2>6. OwnerInv'
    BY <1>1, <2>3, ZenonT(30) DEF Create, OwnerInv, Deploying
  <2> QED
    BY <2>4, <2>5, <2>6, ZenonT(30)
<1>2. CASE Delete(k)
  <2>1. used' \in [changes : 0 .. MaxChanges, faults : 0 .. MaxFaults, crashes : 0 .. MaxCrashes]
    BY <1>2, CountType, Zenon DEF Delete
  <2>2. deployment' = [deployment EXCEPT ![k] = [deployment[k] EXCEPT !.owned = FALSE]]
    BY <1>2 DEF Delete
  <2>3. /\ [deployment[k] EXCEPT !.owned = FALSE] \in Deployments
        /\ [deployment[k] EXCEPT !.owned = FALSE].owned = FALSE
    <3>1. deployment[k] \in Deployments
      BY <1>0, ZenonT(30) DEF TypeOK
    <3> QED
      BY <3>1, Zenon DEF Deployments
  <2>4. /\ deployment' \in [Named -> Deployments]
        /\ deployment'[k].owned = FALSE
        /\ \A e \in Named \ {k} : deployment'[e] = deployment[e]
    BY <1>0, <2>2, <2>3, ZenonT(30) DEF TypeOK
  <2>5. endpoint' \in [Services -> Existence]
    BY <1>2, Zenon DEF Delete, TypeOK, Existence
  <2>6. protobuf' \in [Runtimes -> [files : SUBSET Files, owned : BOOLEAN]]
    <3>1. ASSUME NEW r \in Runtimes
          PROVE  [protobuf[r] EXCEPT !.owned = FALSE] \in [files : SUBSET Files, owned : BOOLEAN]
      <4>1. protobuf[r] \in [files : SUBSET Files, owned : BOOLEAN]
        BY Zenon DEF TypeOK
      <4> QED
        BY <4>1, ZenonT(30)
    <3>2. \A r \in Runtimes : protobuf[r] \in [files : SUBSET Files, owned : BOOLEAN]
      BY Zenon DEF TypeOK
    <3> QED
      BY <1>2, <3>1, <3>2 DEF Delete
  <2>7. ASSUME NEW c \in Controllers
        PROVE  /\ pass'[c] \in Passes
               /\ pass'[c].pc = pass[c].pc /\ pass'[c].key = pass[c].key
               /\ ~pass'[c].gone => ~pass[c].gone /\ pass[c].key # k
    <3>1. pass[c] \in Passes
      BY Zenon DEF TypeOK
    <3>2. pass'[c] = [pass[c] EXCEPT !.gone = (pass[c].gone \/ pass[c].key = k)]
      BY <1>2, Zenon DEF Delete
    <3>3. (pass[c].gone \/ pass[c].key = k) \in BOOLEAN
      BY Zenon
    <3> QED
      BY <3>1, <3>2, <3>3, Zenon DEF Passes
  <2>8. pass' \in [Controllers -> Passes]
    BY <1>2, <2>7, ZenonT(30) DEF Delete
  <2>9. TypeOK'
    BY <1>2, <2>1, <2>4, <2>5, <2>6, <2>8, SMTT(30) DEF Delete, TypeOK
  <2>10. KeyInv'
    BY <1>2, <2>7 DEF Delete, KeyInv, PassOK
  <2>11. exists' = exists \ {k}
    BY <1>2, Zenon DEF Delete
  <2>12. \A s \in Services : deployment'[s].owned => deployment[s].owned /\ s # k
    BY <2>4, ZenonT(30) DEF Named
  <2>13. \A s \in Services : Deploying(s)' => Deploying(s) /\ s # k
    BY <2>7, ZenonT(30) DEF Deploying, Controllers
  <2>14. OwnerInv'
    BY <2>11, <2>12, <2>13, ZenonT(30) DEF OwnerInv
  <2> QED
    BY <2>9, <2>10, <2>14, Zenon
<1> QED
  BY <1>1, <1>2, ZenonT(30)

-----------------------------------------------------------------------------
(* The theorems.                                                            *)

\* The inductive invariant holds initially.
LEMMA InitInv == Init => NamespaceInv
<1> SUFFICES ASSUME Init PROVE NamespaceInv
  OBVIOUS
<1>1. Idle \in Passes
  BY DeploymentTypes, Zenon DEF Idle, Passes, Positions
<1>2. NoCopies \in [{} -> Deployments] /\ DOMAIN NoCopies = {}
  BY Zenon DEF NoCopies
<1>3. CopiesType
  BY <1>2, ZenonT(30) DEF Init, CopiesType
<1>4. deployment \in [Named -> Deployments]
  <2>1. \A d \in Named : [NoDeployment EXCEPT !.exists = d \in Plain, !.owned = d \in Plain]
                            \in Deployments
    <3> TAKE d \in Named
    <3>1. (d \in Plain) \in BOOLEAN
      OBVIOUS
    <3> QED
      BY <3>1, FreshType, ZenonT(30)
  <2> QED
    BY <2>1, Zenon DEF Init
<1>5. used \in [changes : 0 .. MaxChanges, faults : 0 .. MaxFaults, crashes : 0 .. MaxCrashes]
  <2>1. 0 \in 0 .. MaxChanges /\ 0 \in 0 .. MaxFaults /\ 0 \in 0 .. MaxCrashes
    BY ZeroType, Zenon
  <2> QED
    BY <2>1, ZenonT(30) DEF Init
<1>6. queue \in [Controllers -> SUBSET Named]
  BY AllRequestsType, Zenon DEF Init
<1>7. TypeOK
  BY <1>1, <1>3, <1>4, <1>5, <1>6, ZenonT(30) DEF Init, TypeOK, CopiesType, NoProtobuf, Existence
<1>8. KeyInv
  BY Zenon DEF Init, KeyInv, PassOK, Idle, Places
<1>9. \A s \in Services : deployment[s].owned = FALSE
  <2> TAKE s \in Services
  <2>1. s \in Named /\ s \notin Plain
    BY NamesAssumption, Zenon DEF Named
  <2>2. deployment[s] = [NoDeployment EXCEPT !.exists = s \in Plain, !.owned = s \in Plain]
    BY <2>1, ZenonT(30) DEF Init
  <2>3. (s \in Plain) = FALSE
    BY <2>1
  <2>4. deployment[s] = [NoDeployment EXCEPT !.exists = FALSE, !.owned = FALSE]
    BY <2>2, <2>3, ZenonT(30)
  <2> QED
    BY <2>4, Zenon DEF NoDeployment
<1>10. \A s \in Services : ~Deploying(s)
  BY Zenon DEF Init, Deploying, Idle, Controllers
<1>11. OwnerInv
  BY <1>9, <1>10, ZenonT(30) DEF OwnerInv
<1> QED
  BY <1>7, <1>8, <1>11, ZenonT(30) DEF NamespaceInv

\* Every step keeps the inductive invariant.
LEMMA NextInv == NamespaceInv /\ [Next]_vars => NamespaceInv'
<1> SUFFICES ASSUME NamespaceInv, [Next]_vars PROVE NamespaceInv'
  BY ZenonT(30)
<1>0. Kept => NamespaceInv'
  BY QuietOwners, ZenonT(30) DEF Kept, NamespaceInv
<1>1. ASSUME NEW c \in Controllers, Controller(c) PROVE NamespaceInv'
  <2>1. CASE Step(c)
    BY <2>1, StepStep, ZenonT(30)
  <2>2. CASE Supporting
    BY <1>0, <2>2, ReconcileServiceStep, EndpointKept, InjectKept, ConsoleKept, ZenonT(30)
    DEF Supporting, NamespaceInv
  <2>3. CASE Runtime
    BY <1>0, <2>3, RuntimeKept, ZenonT(30) DEF NamespaceInv
  <2>4. CASE \/ \E d \in Annotated : ReconcileDeployment(d)
             \/ InjectSupportingServiceEndpointIntoDeployment
    BY <1>0, <2>4, AnnotatedKept, ZenonT(30) DEF NamespaceInv
  <2> QED
    BY <1>1, <2>1, <2>2, <2>3, <2>4, ZenonT(30) DEF Controller
<1>2. CASE Collect
  BY <1>0, <1>2, CollectKept, ZenonT(30) DEF NamespaceInv
<1>3. CASE Environment \/ Resync
  BY <1>0, <1>3, EnvironmentKept, InstanceStep, ZenonT(30) DEF Environment, NamespaceInv
<1>4. CASE UNCHANGED vars
  <2>1. TypeOK'
    BY <1>4, Zenon DEF NamespaceInv, TypeOK, vars, cluster
  <2> QED
    BY <1>0, <1>4, <2>1, StillKept, ZenonT(30) DEF NamespaceInv, vars, cluster
<1> QED
  BY <1>1, <1>2, <1>3, <1>4, ZenonT(30) DEF Next

\* NamespaceInv is an invariant of the controllers of a namespace.
THEOREM Invariance == Spec => []NamespaceInv
BY InitInv, NextInv, PTL DEF Spec

\* The variables keep their types, and passes the objects they are for.
THEOREM TypeCorrect == Spec => []TypeOK
BY Invariance, PTL DEF NamespaceInv

\* Of several services of one type one at most has a Deployment
\* (supportingservice_controller.go, ensureSingletonService), whatever users
\* create and delete while a pass runs: a pass is the only one of its
\* controller, and what its instance loses while it runs it does not regain.
THEOREM SingletonHolds == Spec => []SingletonDeployed
<1>1. NamespaceInv => SingletonDeployed
  BY Zenon DEF NamespaceInv, OwnerInv, SingletonDeployed
<1> QED
  BY <1>1, Invariance, PTL

=============================================================================
