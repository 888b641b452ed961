------------------------- MODULE KogitoInfraProofs -------------------------
(***************************************************************************)
(* Proofs about the KogitoInfra controller, for any number of              *)
(* KogitoInfras, kinds, resources, faults and crashes: the status never    *)
(* refers to a ConfigMap or Secret that does not exist, as long as no      *)
(* KogitoInfra was deleted; and all types are kept.                        *)
(***************************************************************************)
EXTENDS KogitoInfra, SequenceTheorems, TLAPS

\* The shapes the argument needs.
Shape ==
  /\ exists \subseteq Infras
  /\ userObjects \subseteq UserObjects
  /\ status = [i \in Infras |-> status[i]]
  /\ objects = [o \in Names |-> objects[o]]
  /\ cachedObjects = [o \in Names |-> cachedObjects[o]]
  /\ DOMAIN pass = {"pc", "infra", "spec", "seen", "todo", "refs", "reason"}
  /\ pass = [f \in DOMAIN pass |-> pass[f]]
  /\ pass.pc # "idle" => pass.infra \in Infras

\* Every object that exists belongs to a KogitoInfra.
Owned == \A o \in Names : objects[o] # NoObject => objects[o].owner \in Infras

\* The cache and the pass are ahead of the API server in nothing: what the
\* one shows and what the other refers to exists.
CacheExists == \A o \in Names : cachedObjects[o] # NoObject => objects[o] # NoObject
PassExists == \A o \in pass.refs \cap Names : objects[o] # NoObject
StatusExists ==
  \A i \in Infras : \A o \in status[i].refs \cap Names : objects[o] # NoObject

RefInv ==
  /\ Shape
  /\ Owned
  /\ exists = Infras => CacheExists /\ PassExists /\ StatusExists

-----------------------------------------------------------------------------
\* A written object is not the missing one: it has an owner.
LEMMA RequestedExists ==
  ASSUME Shape, pass.pc # "idle", NEW o
  PROVE  Requested(o) # NoObject /\ Requested(o).owner \in Infras
  BY InfraAssumption DEF Shape, Requested, NoObject

\* The inductive invariant holds initially.
LEMMA RefInit == Init => RefInv
  <1> SUFFICES ASSUME Init PROVE RefInv
    OBVIOUS
  <1>1. objects = [o \in Names |-> NoObject] /\ cachedObjects = objects
    BY DEF Init
  <1>2. status = [i \in Infras |-> NoStatus] /\ exists \subseteq Infras /\ pass = IdlePass
    BY DEF Init
  <1>3. Shape
    <2>1. userObjects \subseteq UserObjects
      BY DEF Init
    <2> QED BY <1>1, <1>2, <2>1, Zenon DEF Shape, IdlePass
  <1>4. Owned /\ CacheExists
    BY <1>1 DEF Owned, CacheExists
  <1>5. PassExists /\ StatusExists
    BY <1>2 DEF PassExists, StatusExists, IdlePass, NoStatus
  <1> QED BY <1>3, <1>4, <1>5 DEF RefInv

\* ProcessDelta leaves every object that existed, and the one it is for, in
\* existence.
LEMMA DeltaExists ==
  ASSUME Shape, Owned, pass.pc # "idle", NEW o, ProcessDelta(o)
  PROVE  /\ objects' = [n \in Names |-> objects'[n]]
         /\ \A n \in Names : objects'[n] # NoObject => objects'[n].owner \in Infras
         /\ \A n \in Names : objects[n] # NoObject => objects'[n] # NoObject
         /\ o \in Names /\ CacheExists => objects'[o] # NoObject
  <1>1. CASE NoDelta(o) /\ UNCHANGED <<objects, objectsCurrent>>
    BY <1>1 DEF NoDelta, CacheExists, Shape, Owned
  <1>2. CASE objects' = [objects EXCEPT ![o] = Requested(o)]
    BY <1>2, RequestedExists DEF Shape, Owned
  <1> QED BY <1>1, <1>2 DEF ProcessDelta

-----------------------------------------------------------------------------
\* A pass that moves on, keeps its references or gets ones that exist.
LEMMA PassMoves ==
  ASSUME RefInv, UNCHANGED <<exists, userObjects, status, objects, cachedObjects>>,
         DOMAIN pass' = DOMAIN pass, pass' = [f \in DOMAIN pass' |-> pass'[f]],
         pass'.pc # "idle" => pass'.infra \in Infras,
         pass'.refs \cap Names \subseteq pass.refs
  PROVE  RefInv'
  BY DEF RefInv, Shape, Owned, CacheExists, PassExists, StatusExists

\* A pass that fails keeps its references.
LEMMA FailShape ==
  ASSUME Shape, NEW r, Fail(r), pass.pc # "idle"
  PROVE  /\ DOMAIN pass' = DOMAIN pass
         /\ pass' = [f \in DOMAIN pass' |-> pass'[f]]
         /\ pass'.infra \in Infras
         /\ pass'.refs = pass.refs
  BY Zenon DEF Shape, Fail

\* So does one that fails for an object.
LEMMA FailObjectShape ==
  ASSUME Shape, NEW r, FailObject(r), pass.pc # "idle"
  PROVE  /\ DOMAIN pass' = DOMAIN pass
         /\ pass' = [f \in DOMAIN pass' |-> pass'[f]]
         /\ pass'.infra \in Infras
         /\ pass'.refs = pass.refs
  BY Zenon DEF Shape, FailObject, Fail

\* The object of a reference is there before the reference: this is the step
\* that the order of the code makes right.
LEMMA ObjectAdded ==
  ASSUME RefInv, pass.pc # "idle", NEW o, ProcessDelta(o),
         UNCHANGED <<exists, userObjects, status, cachedObjects>>,
         DOMAIN pass' = DOMAIN pass, pass' = [f \in DOMAIN pass' |-> pass'[f]],
         pass'.infra = pass.infra, pass'.refs = pass.refs \cup {o}
  PROVE  RefInv'
  <1>1. /\ objects' = [n \in Names |-> objects'[n]]
        /\ \A n \in Names : objects'[n] # NoObject => objects'[n].owner \in Infras
        /\ \A n \in Names : objects[n] # NoObject => objects'[n] # NoObject
        /\ o \in Names /\ CacheExists => objects'[o] # NoObject
    BY DeltaExists DEF RefInv
  <1>2. Shape'
    BY <1>1 DEF RefInv, Shape
  <1>3. Owned'
    BY <1>1 DEF Owned
  <1>4. ASSUME exists' = Infras
        PROVE  CacheExists' /\ PassExists' /\ StatusExists'
    BY <1>1, <1>4 DEF RefInv, CacheExists, PassExists, StatusExists
  <1> QED BY <1>2, <1>3, <1>4 DEF RefInv

\* A pass starts without references.
LEMMA FetchStep ==
  ASSUME RefInv, NEW i \in Infras, FetchKogitoInfraInstance(i)
  PROVE  RefInv'
  <1>1. CASE UNCHANGED <<pass, passCurrent>>
    BY <1>1, PassMoves DEF FetchKogitoInfraInstance, RefInv, Shape, apiVars, worldVars, cacheVars
  <1>2. CASE pass' = [IdlePass EXCEPT !.pc = "resource", !.infra = i,
                                      !.spec = cached[i].spec]
    <2>1. pass'.refs = {} /\ pass'.infra = i
      BY <1>2 DEF IdlePass
    <2>2. DOMAIN pass' = DOMAIN pass /\ pass' = [f \in DOMAIN pass' |-> pass'[f]]
      BY <1>2, Zenon DEF IdlePass, RefInv, Shape
    <2> QED BY <2>1, <2>2, PassMoves DEF FetchKogitoInfraInstance, apiVars, worldVars, cacheVars
  <1> QED BY <1>1, <1>2 DEF FetchKogitoInfraInstance

\* Looking at the resource adds no reference.
LEMMA CheckResourceStep ==
  ASSUME RefInv, CheckResource
  PROVE  RefInv'
  <1>1. pass.pc # "idle" /\ Shape /\ UNCHANGED <<exists, userObjects, status, objects, cachedObjects>>
    BY DEF CheckResource, At, RefInv, apiVars, worldVars, cacheVars
  <1>2. CASE \E r : Fail(r)
    BY <1>1, <1>2, FailShape, PassMoves
  <1>3. CASE pass' = [pass EXCEPT !.pc = "properties"]
    BY <1>1, <1>3, PassMoves DEF Shape
  <1>4. CASE pass' = [pass EXCEPT
                         !.pc = "objects",
                         !.seen = backing[pass.spec.resource],
                         !.todo = Generated(pass.spec.kind,
                                            backing[pass.spec.resource].security)]
    BY <1>1, <1>4, PassMoves, Zenon DEF Shape
  <1> QED BY <1>2, <1>3, <1>4 DEF CheckResource

\* A generated object is referred to once it exists.
LEMMA ReconcileObjectStep ==
  ASSUME RefInv, ReconcileObject
  PROVE  RefInv'
  <1>1. pass.pc # "idle" /\ Shape /\ UNCHANGED <<exists, userObjects, status, cachedObjects>>
    BY DEF ReconcileObject, At, RefInv, worldVars
  <1>2. CASE /\ pass' = [pass EXCEPT !.pc = "properties"]
             /\ UNCHANGED <<objects, objectsCurrent, used>>
    BY <1>1, <1>2, PassMoves DEF Shape
  <1>3. CASE \E r : FailObject(r) /\ UNCHANGED objects
    BY <1>1, <1>3, FailObjectShape, PassMoves
  <1>4. CASE /\ ProcessDelta(Head(pass.todo))
             /\ pass' = [pass EXCEPT !.todo = Tail(@), !.refs = @ \cup {Head(pass.todo)}]
    BY <1>1, <1>4, ObjectAdded, Zenon DEF Shape
  <1> QED BY <1>2, <1>3, <1>4 DEF ReconcileObject

\* So is the ConfigMap of the infra properties.
LEMMA ReconcilePropertiesStep ==
  ASSUME RefInv, ReconcileProperties
  PROVE  RefInv'
  <1>1. pass.pc # "idle" /\ Shape /\ UNCHANGED <<exists, userObjects, status, cachedObjects>>
    BY DEF ReconcileProperties, At, RefInv, worldVars
  <1>2. CASE /\ pass' = [pass EXCEPT !.pc = "references"]
             /\ UNCHANGED <<objects, objectsCurrent, used>>
    BY <1>1, <1>2, PassMoves DEF Shape
  <1>3. CASE \E r : Fail(r) /\ UNCHANGED objects
    BY <1>1, <1>3, FailShape, PassMoves
  <1>4. CASE /\ ProcessDelta(Properties(pass.infra))
             /\ pass' = [pass EXCEPT !.pc = "references",
                                     !.refs = @ \cup {Properties(pass.infra)}]
    BY <1>1, <1>4, ObjectAdded, ZenonT(30) DEF Shape
  <1> QED BY <1>2, <1>3, <1>4 DEF ReconcileProperties

\* References of the spec are to objects of the user.
LEMMA ReconcileReferencesStep ==
  ASSUME RefInv, ReconcileReferences
  PROVE  RefInv'
  <1>1. /\ pass.pc # "idle" /\ Shape
        /\ UNCHANGED <<exists, userObjects, status, objects, cachedObjects>>
    BY Zenon DEF ReconcileReferences, At, RefInv, apiVars, worldVars, cacheVars
  <1>2. CASE \E r : Fail(r)
    BY <1>1, <1>2, FailShape, PassMoves
  <1>3. CASE \E some \in SUBSET userObjects : \E r :
               pass' = [pass EXCEPT !.pc = "status", !.refs = @ \cup some, !.reason = r]
    <2>1. PICK some \in SUBSET userObjects :
            \E r : pass' = [pass EXCEPT !.pc = "status", !.refs = @ \cup some, !.reason = r]
      BY <1>3, Zenon
    <2>2. PICK r : pass' = [pass EXCEPT !.pc = "status", !.refs = @ \cup some, !.reason = r]
      BY <2>1, Zenon
    <2>3. some \cap Names = {}
      BY <1>1, InfraAssumption DEF Shape
    <2> QED BY <1>1, <2>2, <2>3, PassMoves, ZenonT(30) DEF Shape
  <1>4. CASE \E some \in SUBSET userObjects :
               pass' = [pass EXCEPT !.pc = "status", !.refs = @ \cup some]
    <2>1. PICK some \in SUBSET userObjects :
            pass' = [pass EXCEPT !.pc = "status", !.refs = @ \cup some]
      BY <1>4, Zenon
    <2>2. some \cap Names = {}
      BY <1>1, InfraAssumption DEF Shape
    <2> QED BY <1>1, <2>1, <2>2, PassMoves, Zenon DEF Shape
  <1> QED BY <1>2, <1>3, <1>4, Zenon DEF ReconcileReferences, Found

\* The end of a pass: its references become those of the status.
LEMMA UpdateBaseStatusStep ==
  ASSUME RefInv, UpdateBaseStatus
  PROVE  RefInv'
  <1>1. /\ pass.pc # "idle" /\ Shape
        /\ UNCHANGED <<exists, userObjects, objects>>
        /\ pass' = IdlePass
    BY DEF UpdateBaseStatus, At, RefInv, worldVars, Afresh
  <1>2. cachedObjects' = cachedObjects \/ cachedObjects' = objects
    BY DEF UpdateBaseStatus, Afresh
  <1>3. \/ status' = status
        \/ \E new : new.refs = pass.refs /\ status' = [status EXCEPT ![pass.infra] = new]
    <2>1. CASE status' = status
      BY <2>1
    <2>2. CASE ~(status' = status)
      <3> DEFINE new == [configured |-> IF pass.reason = "None" THEN "True" ELSE "False",
                         reason |-> pass.reason, refs |-> pass.refs]
      <3>1. status' = [status EXCEPT ![pass.infra] = new]
        BY <2>2 DEF UpdateBaseStatus
      <3>2. new.refs = pass.refs
        OBVIOUS
      <3> QED BY <3>1, <3>2, Zenon
    <2> QED BY <2>1, <2>2
  <1>4. Shape'
    BY <1>1, <1>2, <1>3 DEF Shape, IdlePass
  <1>5. Owned'
    BY <1>1 DEF RefInv, Owned
  <1>6. ASSUME exists' = Infras
        PROVE  CacheExists' /\ PassExists' /\ StatusExists'
    <2>1. CacheExists /\ PassExists /\ StatusExists
      BY <1>1, <1>6 DEF RefInv
    <2>2. CacheExists'
      BY <1>1, <1>2, <2>1 DEF CacheExists
    <2>3. PassExists'
      BY <1>1 DEF PassExists, IdlePass
    <2>4. StatusExists'
      BY <1>1, <1>3, <2>1 DEF StatusExists, PassExists, Shape
    <2> QED BY <2>2, <2>3, <2>4
  <1> QED BY <1>4, <1>5, <1>6 DEF RefInv

\* The environment may only take KogitoInfras away, and the objects of those.
LEMMA EnvironmentStep ==
  ASSUME RefInv, Environment
  PROVE  RefInv'
  <1>1. CASE \E i \in Infras : EditSpec(i) \/ ChangeOwners(i)
    <2>1. UNCHANGED <<exists, userObjects, status, objects, cachedObjects, pass>>
      BY <1>1 DEF EditSpec, ChangeOwners, worldVars
    <2> QED BY <2>1, PassMoves DEF RefInv, Shape
  <1>2. CASE ChangeWorld
    <2>1. UNCHANGED <<exists, status, objects, cachedObjects, pass>>
      BY <1>2 DEF ChangeWorld, apiVars, cacheVars
    <2>2. userObjects' \subseteq UserObjects
      BY <1>2 DEF ChangeWorld, RefInv, Shape
    <2> QED BY <2>1, <2>2 DEF RefInv, Shape, Owned, CacheExists, PassExists, StatusExists
  <1>3. CASE \E i \in Infras : DeleteInfra(i)
    <2>1. /\ exists' \subseteq exists /\ exists' # Infras
          /\ UNCHANGED <<userObjects, status, objects, cachedObjects, pass>>
      BY <1>3 DEF DeleteInfra, worldVars
    <2> QED BY <2>1 DEF RefInv, Shape, Owned
  <1>4. CASE \E o \in Names : CollectObject(o)
    <2>1. PICK o \in Names : CollectObject(o)
      BY <1>4
    <2>2. exists # Infras
      BY <2>1 DEF CollectObject, RefInv, Owned
    <2>3. UNCHANGED <<exists, userObjects, status, cachedObjects, pass>>
      BY <2>1 DEF CollectObject, worldVars
    <2>4. objects' = [objects EXCEPT ![o] = NoObject]
      BY <2>1 DEF CollectObject
    <2> QED BY <2>2, <2>3, <2>4 DEF RefInv, Shape, Owned
  <1> QED BY <1>1, <1>2, <1>3, <1>4 DEF Environment

\* The informers copy what is there.
LEMMA InformersStep ==
  ASSUME RefInv, Informers \/ Resync \/ Restart
  PROVE  RefInv'
  <1>1. CASE Resync \/ \E i \in Infras : SyncInfra(i)
    <2>1. UNCHANGED <<exists, userObjects, status, objects, cachedObjects, pass>>
      BY <1>1 DEF Resync, SyncInfra, apiVars, worldVars, cacheVars
    <2> QED BY <2>1, PassMoves DEF RefInv, Shape
  <1>2. CASE \E o \in Names : SyncObject(o)
    <2>1. PICK o \in Names : SyncObject(o)
      BY <1>2
    <2>2. /\ UNCHANGED <<exists, userObjects, status, objects, pass>>
          /\ cachedObjects' = [cachedObjects EXCEPT ![o] = objects[o]]
      BY <2>1 DEF SyncObject, apiVars, worldVars
    <2> QED BY <2>2 DEF RefInv, Shape, Owned, CacheExists, PassExists, StatusExists
  <1>3. CASE Restart
    <2>1. /\ UNCHANGED <<exists, userObjects, status, objects>>
          /\ cachedObjects' = objects /\ pass' = IdlePass
      BY <1>3 DEF Restart, Afresh, apiVars, worldVars
    <2> QED BY <2>1, Zenon DEF RefInv, Shape, Owned, CacheExists, PassExists, StatusExists, IdlePass
  <1> QED BY <1>1, <1>2, <1>3 DEF Informers

\* Every step keeps the inductive invariant.
LEMMA RefStep == RefInv /\ [Next]_vars => RefInv'
  <1> SUFFICES ASSUME RefInv, [Next]_vars PROVE RefInv'
    OBVIOUS
  <1>1. CASE UNCHANGED vars
    BY <1>1, PassMoves DEF vars, apiVars, worldVars, cacheVars, RefInv, Shape
  <1>2. CASE Working
    BY <1>2, CheckResourceStep, ReconcileObjectStep, ReconcilePropertiesStep,
       ReconcileReferencesStep, UpdateBaseStatusStep DEF Working
  <1> QED BY <1>1, <1>2, FetchStep, EnvironmentStep, InformersStep DEF Next

\* As long as no KogitoInfra was deleted, every generated ConfigMap and Secret
\* in the status of a KogitoInfra exists.
THEOREM ReferencesAlwaysExist == Spec => []ReferencesExist
  <1>1. RefInv => ReferencesExist
    BY DEF RefInv, StatusExists, ReferencesExist
  <1> QED BY RefInit, RefStep, <1>1, PTL DEF Spec

-----------------------------------------------------------------------------
\* The inductive invariant behind the types: a KogitoInfra, its copy in the
\* cache and the pass over it hold one of the specs it may be given, so that
\* the objects a pass generates are among those the controller names.
SpecsGiven ==
  \A i \in Infras : spec[i] \in SpecsOf[i] /\ cached[i].spec \in SpecsOf[i]
PassGiven == pass.pc # "idle" => pass.infra \in Infras /\ pass.spec \in Specs
TypeInv == TypeOK /\ SpecsGiven /\ PassGiven

-----------------------------------------------------------------------------
\* The elements of sequences one after the other.
LEMMA SeqSetConcat ==
  ASSUME NEW S, NEW s \in Seq(S), NEW t \in Seq(S)
  PROVE  SeqSet(s) \subseteq SeqSet(s \o t) /\ SeqSet(t) \subseteq SeqSet(s \o t)
  <1>1. /\ Len(s) \in Nat /\ Len(t) \in Nat
        /\ Len(s \o t) = Len(s) + Len(t)
        /\ \A n \in 1 .. Len(s) + Len(t) :
             (s \o t)[n] = IF n <= Len(s) THEN s[n] ELSE t[n - Len(s)]
    BY ConcatProperties, LenProperties
  <1>2. ASSUME NEW n \in 1 .. Len(s) PROVE s[n] \in SeqSet(s \o t)
    <2>1. n \in 1 .. Len(s \o t) /\ (s \o t)[n] = s[n]
      BY <1>1
    <2> QED BY <2>1, Zenon DEF SeqSet
  <1>3. ASSUME NEW n \in 1 .. Len(t) PROVE t[n] \in SeqSet(s \o t)
    <2>1. n + Len(s) \in 1 .. Len(s \o t) /\ (s \o t)[n + Len(s)] = t[n]
      BY <1>1
    <2> QED BY <2>1, Zenon DEF SeqSet
  <1> QED BY <1>2, <1>3, Zenon DEF SeqSet

\* Short sequences.
LEMMA SeqSetOne ==
  ASSUME NEW a
  PROVE  <<a>> \in Seq({a}) /\ a \in SeqSet(<<a>>)
  <1>1. Len(<<a>>) = 1 /\ <<a>>[1] = a /\ 1 \in 1 .. 1
    OBVIOUS
  <1> QED BY <1>1 DEF SeqSet

LEMMA SeqSetTwo ==
  ASSUME NEW a, NEW b
  PROVE  a \in SeqSet(<<a, b>>) /\ b \in SeqSet(<<a, b>>)
  <1>1. /\ Len(<<a, b>>) = 2 /\ <<a, b>>[1] = a /\ <<a, b>>[2] = b
        /\ 1 \in 1 .. 2 /\ 2 \in 1 .. 2
    OBVIOUS
  <1> QED BY <1>1 DEF SeqSet

LEMMA SeqSetThree ==
  ASSUME NEW a, NEW b, NEW c
  PROVE  /\ a \in SeqSet(<<a, b, c>>) /\ b \in SeqSet(<<a, b, c>>)
         /\ c \in SeqSet(<<a, b, c>>)
  <1>1. /\ Len(<<a, b, c>>) = 3
        /\ <<a, b, c>>[1] = a /\ <<a, b, c>>[2] = b /\ <<a, b, c>>[3] = c
        /\ 1 \in 1 .. 3 /\ 2 \in 1 .. 3 /\ 3 \in 1 .. 3
    OBVIOUS
  <1> QED BY <1>1 DEF SeqSet

\* What a pass generates is among the names, whatever the resource says of
\* its security.
LEMMA GeneratedNames ==
  ASSUME NEW s \in Specs, s.kind \in Kinds, NEW security
  PROVE  Generated(s.kind, security) \in Seq(Names)
  <1> DEFINE all == {"auth", "cert"}
  <1>1. SeqSet(Generated(s.kind, all)) \subseteq Names
    BY Zenon DEF Names
  <1>2. CASE s.kind = "Infinispan"
    <2> DEFINE ts == TrustStores(all)
               q == InfinispanRuntime("quarkus", all)
               b == InfinispanRuntime("springboot", all)
               S == {TrustStore("volume"), TrustStore("quarkus"), TrustStore("springboot"),
                     Config("Infinispan", "quarkus"), Credential("Infinispan", "quarkus"),
                     Config("Infinispan", "springboot"), Credential("Infinispan", "springboot")}
    <2>1. /\ ts = <<TrustStore("volume"), TrustStore("quarkus"), TrustStore("springboot")>>
          /\ q = <<Config("Infinispan", "quarkus"), Credential("Infinispan", "quarkus")>>
          /\ b = <<Config("Infinispan", "springboot"), Credential("Infinispan", "springboot")>>
      BY Zenon DEF TrustStores, InfinispanRuntime
    <2>2. Generated(s.kind, all) = ts \o q \o b
      BY <1>2 DEF Generated
    <2> HIDE DEF ts, q, b
    <2>3. ts \in Seq(S) /\ q \in Seq(S) /\ b \in Seq(S)
      BY <2>1
    <2>4. /\ SeqSet(ts) \subseteq SeqSet(Generated(s.kind, all))
          /\ SeqSet(q) \subseteq SeqSet(Generated(s.kind, all))
          /\ SeqSet(b) \subseteq SeqSet(Generated(s.kind, all))
      <3> HIDE DEF S
      <3>1. ts \o q \in Seq(S)
        BY <2>3, ConcatProperties
      <3>2. SeqSet(ts) \subseteq SeqSet(ts \o q) /\ SeqSet(q) \subseteq SeqSet(ts \o q)
        BY <2>3, SeqSetConcat
      <3>3. /\ SeqSet(ts \o q) \subseteq SeqSet(ts \o q \o b)
            /\ SeqSet(b) \subseteq SeqSet(ts \o q \o b)
        BY <2>3, <3>1, SeqSetConcat, Zenon
      <3> QED BY <2>2, <3>2, <3>3, Zenon
    <2>5. S \subseteq Names
      BY <1>1, <2>1, <2>4, SeqSetTwo, SeqSetThree, Zenon
    <2>6. TrustStores(security) \in Seq(Names)
      BY <2>5, EmptySeq DEF TrustStores
    <2>7. /\ InfinispanRuntime("quarkus", security) \in Seq(Names)
          /\ InfinispanRuntime("springboot", security) \in Seq(Names)
      BY <2>5 DEF InfinispanRuntime
    <2>8. Generated(s.kind, security)
            = TrustStores(security) \o InfinispanRuntime("quarkus", security)
                \o InfinispanRuntime("springboot", security)
      BY <1>2 DEF Generated
    <2>9. TrustStores(security) \o InfinispanRuntime("quarkus", security) \in Seq(Names)
      BY ONLY <2>6, <2>7, ConcatProperties, ZenonT(30)
    <2>10. TrustStores(security) \o InfinispanRuntime("quarkus", security)
             \o InfinispanRuntime("springboot", security) \in Seq(Names)
      BY ONLY <2>7, <2>9, ConcatProperties, ZenonT(30)
    <2> QED BY ONLY <2>8, <2>10, Zenon
  <1>3. CASE s.kind = "Kafka"
    <2> DEFINE q == KafkaRuntime("quarkus")
               b == KafkaRuntime("springboot")
               S == {Config("Kafka", "quarkus"), Config("Kafka", "springboot")}
    <2>1. q = <<Config("Kafka", "quarkus")>> /\ b = <<Config("Kafka", "springboot")>>
      BY Zenon DEF KafkaRuntime
    <2>2. /\ Generated(s.kind, all) = q \o b
          /\ Generated(s.kind, security) = q \o b
      BY <1>3 DEF Generated
    <2> HIDE DEF q, b
    <2>3. q \in Seq(S) /\ b \in Seq(S)
      BY <2>1
    <2>4. S \subseteq Names
      BY <1>1, <2>1, <2>2, <2>3, SeqSetConcat, SeqSetOne, Zenon
    <2>5. q \in Seq(Names) /\ b \in Seq(Names)
      BY <2>1, <2>4
    <2> QED BY <2>2, <2>5, ConcatProperties, Zenon
  <1>4. CASE s.kind = "MongoDB"
    <2> DEFINE q == MongoDBRuntime("quarkus")
               b == MongoDBRuntime("springboot")
               S == {Config("MongoDB", "quarkus"), Credential("MongoDB", "quarkus"),
                     Config("MongoDB", "springboot"), Credential("MongoDB", "springboot")}
    <2>1. /\ q = <<Config("MongoDB", "quarkus"), Credential("MongoDB", "quarkus")>>
          /\ b = <<Config("MongoDB", "springboot"), Credential("MongoDB", "springboot")>>
      BY Zenon DEF MongoDBRuntime
    <2>2. /\ Generated(s.kind, all) = q \o b
          /\ Generated(s.kind, security) = q \o b
      BY <1>4 DEF Generated
    <2> HIDE DEF q, b
    <2>3. q \in Seq(S) /\ b \in Seq(S)
      BY <2>1
    <2>4. S \subseteq Names
      BY <1>1, <2>1, <2>2, <2>3, SeqSetConcat, SeqSetTwo, Zenon
    <2>5. q \in Seq(Names) /\ b \in Seq(Names)
      BY <2>1, <2>4
    <2> QED BY <2>2, <2>5, ConcatProperties, Zenon
  <1>5. CASE s.kind \notin {"Infinispan", "Kafka", "MongoDB"}
    BY <1>5, EmptySeq DEF Generated
  <1> QED BY <1>2, <1>3, <1>4, <1>5


-----------------------------------------------------------------------------
\* What the constants and the invariant say of specs and resources.
LEMMA SpecsTyped == Specs \subseteq SpecType
  <1>1. \A i \in Infras : SpecsOf[i] \subseteq SpecType
    BY InfraAssumption, SMT
  <1> QED BY ONLY <1>1, Zenon DEF Specs

LEMMA SomeSpec ==
  ASSUME NEW i \in Infras, NEW s \in SpecsOf[i]
  PROVE  s \in Specs
  BY Zenon DEF Specs

\* What an object says is data, and why it cannot be made is a reason.
LEMMA DataTyped ==
  ASSUME NEW o, NEW s \in SpecType, NEW seen \in Backings \cup {NoBacking},
         NEW now \in Backings \cup {NoBacking}
  PROVE  DataOf(o, s, seen, now) \in Data
  <1>1. /\ seen.data \in Contents \cup {None} /\ now.data \in Contents \cup {None}
        /\ s.props \in Contents \cup {None} /\ s.resource \in Resources \cup {None}
    BY DEF SpecType, Backings, NoBacking
  <1>2. /\ PropertiesData(s) \in Data /\ InfinispanConfigData(s) \in Data
        /\ KafkaConfigData(seen) \in Data /\ MongoDBConfigData(seen) \in Data
        /\ InfinispanCredentialData(now) \in Data /\ MongoDBCredentialData(s, now) \in Data
        /\ TrustStoreData(now) \in Data /\ TrustStoreSecretData \in Data
    BY <1>1 DEF PropertiesData, InfinispanConfigData, KafkaConfigData, MongoDBConfigData,
       InfinispanCredentialData, MongoDBCredentialData, TrustStoreData, TrustStoreSecretData, Data
  <1> QED BY <1>2 DEF DataOf

LEMMA ErrorTyped ==
  ASSUME NEW o, NEW s, NEW seen, NEW now
  PROVE  ObjectError(o, s, seen, now) \in Reasons
  <1>1. /\ InfinispanConfigError(now) \in Reasons /\ KafkaConfigError(seen) \in Reasons
        /\ TrustStoreError(now) \in Reasons
    BY DEF InfinispanConfigError, KafkaConfigError, TrustStoreError, Reasons
  <1>2. MongoDBCredentialError(s, seen, now) \in Reasons
    BY DEF MongoDBCredentialError, Reasons
  <1>3. "None" \in Reasons
    BY DEF Reasons
  <1> QED BY <1>1, <1>2, <1>3 DEF ObjectError

\* What keeps a KogitoInfra from being bound is a reason, and a resource that
\* is looked at has a name.
LEMMA ResourceErrorTyped ==
  ASSUME NEW s \in SpecType
  PROVE  /\ ResourceError(s) \in Reasons
         /\ ResourceError(s) = "None" /\ s.kind # "NoResource" => s.resource \in Resources
  <1>1. s.kind \in Kinds /\ s.resource \in Resources \cup {None}
    BY DEF SpecType
  <1>2. \A r : NotReady(r) \in Reasons
    BY DEF NotReady, Reasons
  <1>3. /\ InfinispanError(s) \in Reasons
        /\ InfinispanError(s) = "None" => s.resource # None
    BY <1>2 DEF InfinispanError, Reasons
  <1>4. /\ KafkaError(s) \in Reasons
        /\ KafkaError(s) = "None" => s.resource # None
    BY <1>2 DEF KafkaError, Reasons
  <1>5. /\ MongoDBError(s) \in Reasons
        /\ MongoDBError(s) = "None" => s.resource # None
    BY <1>2 DEF MongoDBError, Reasons
  <1>6. /\ KeycloakError(s) \in Reasons
        /\ KeycloakError(s) = "None" => s.resource # None
    BY DEF KeycloakError, Reasons
  <1>7. /\ KnativeError(s) \in Reasons
        /\ KnativeError(s) = "None" => s.resource # None
    BY DEF KnativeError, Reasons
  <1>8. "None" \in Reasons /\ "UnsupportedAPIKind" \in Reasons /\ "UnsupportedAPIKind" # "None"
    BY DEF Reasons
  <1> QED BY <1>1, <1>3, <1>4, <1>5, <1>6, <1>7, <1>8 DEF ResourceError, Kinds, SupportedKinds

\* The properties of a KogitoInfra are among the names.
LEMMA PropertiesNamed ==
  ASSUME NEW i \in Infras
  PROVE  Properties(i) \in Names
  <1>1. Properties(i) \in {Properties(j) : j \in Infras}
    OBVIOUS
  <1> QED BY <1>1 DEF Names

\* A requested object is an object.
LEMMA RequestedTyped ==
  ASSUME pass \in PassType, backing \in [Resources -> Backings], pass.infra \in Infras, NEW o
  PROVE  Requested(o) \in Object
  <1>1. /\ pass.spec \in SpecType /\ pass.seen \in Backings \cup {NoBacking}
        /\ pass.spec.resource \in Resources \cup {None}
    BY DEF PassType, SpecType
  <1>2. Now \in Backings \cup {NoBacking}
    BY <1>1 DEF Now
  <1>3. DataOf(o, pass.spec, pass.seen, Now) \in Data
    BY <1>1, <1>2, DataTyped
  <1> QED BY <1>3 DEF Requested, Object

\* ProcessDelta keeps the types of the objects.
LEMMA DeltaTyped ==
  ASSUME TypeInv, pass.pc # "idle", NEW o, ProcessDelta(o)
  PROVE  objects' \in [Names -> Object] /\ objectsCurrent' \subseteq Names
  <1>1. /\ pass \in PassType /\ backing \in [Resources -> Backings] /\ pass.infra \in Infras
        /\ objects \in [Names -> Object] /\ objectsCurrent \subseteq Names
    BY DEF TypeInv, TypeOK, PassGiven
  <1>2. Requested(o) \in Object
    BY <1>1, RequestedTyped
  <1> QED BY <1>1, <1>2 DEF ProcessDelta

\* A bound is used.
LEMMA UseTyped ==
  ASSUME used \in [{"edits", "changes", "owners", "deletes", "faults", "crashes"} -> Nat],
         NEW what \in {"edits", "changes", "owners", "deletes", "faults", "crashes"},
         NEW max, Use(what, max)
  PROVE  used' \in [{"edits", "changes", "owners", "deletes", "faults", "crashes"} -> Nat]
  BY DEF Use


\* The idle pass, and the copies of the cache.
LEMMA IdleTyped == IdlePass \in PassType /\ IdlePass.pc = "idle"
  <1>1. NoSpec \in SpecType /\ << >> \in Seq(Names) /\ "None" \in Reasons
    BY EmptySeq DEF NoSpec, SpecType, Kinds, Reasons
  <1> QED BY <1>1 DEF IdlePass, PassType

LEMMA CopyTyped ==
  ASSUME spec \in [Infras -> SpecType], status \in [Infras -> StatusType], NEW i \in Infras
  PROVE  /\ Copy(i) \in [exists : BOOLEAN, spec : SpecType, status : StatusType, owned : BOOLEAN]
         /\ Copy(i).spec = spec[i]
  <1>1. spec[i] \in SpecType /\ status[i] \in StatusType
    OBVIOUS
  <1>2. (i \in exists) \in BOOLEAN /\ (i \in owned) \in BOOLEAN
    OBVIOUS
  <1> QED BY <1>1, <1>2, Zenon DEF Copy


-----------------------------------------------------------------------------
\* The invariant holds initially.
LEMMA TypeInit == Init => TypeInv
  <1> SUFFICES ASSUME Init PROVE TypeInv
    OBVIOUS
  <1>1. spec \in [Infras -> SpecType] /\ \A i \in Infras : spec[i] \in SpecsOf[i]
    <2>1. spec \in [Infras -> Specs] /\ \A i \in Infras : spec[i] \in SpecsOf[i]
      BY DEF Init
    <2> QED BY <2>1, SpecsTyped, Zenon
  <1>2. backing \in [Resources -> Backings]
    <2>1. /\ backing \in [Resources -> UNION {BackingsOf[r] : r \in Resources}]
          /\ \A r \in Resources : backing[r] \in BackingsOf[r]
      BY DEF Init
    <2>2. \A r \in Resources : BackingsOf[r] \subseteq Backings
      BY InfraAssumption
    <2> QED BY <2>1, <2>2
  <1>3. NoStatus \in StatusType /\ NoObject \in Object
    BY Zenon DEF NoStatus, StatusType, Reasons, Object
  <1>4. status \in [Infras -> StatusType] /\ objects \in [Names -> Object]
    BY <1>3 DEF Init
  <1>5. \A i \in Infras :
          /\ Copy(i) \in [exists : BOOLEAN, spec : SpecType, status : StatusType, owned : BOOLEAN]
          /\ Copy(i).spec = spec[i]
    BY <1>1, <1>4, CopyTyped, Zenon
  <1>6. /\ cached \in [Infras -> [exists : BOOLEAN, spec : SpecType, status : StatusType,
                                  owned : BOOLEAN]]
        /\ \A i \in Infras : cached[i].spec \in SpecsOf[i]
    BY <1>1, <1>5, Zenon DEF Init
  <1>7. pass \in PassType /\ pass.pc = "idle"
    BY IdleTyped DEF Init
  <1>8. used \in [{"edits", "changes", "owners", "deletes", "faults", "crashes"} -> Nat]
    BY InfraBoundsAssumption DEF Init
  <1>9. /\ exists \subseteq Infras /\ owned \subseteq Infras /\ apis \subseteq UsedKinds
        /\ userObjects \subseteq UserObjects /\ infraCurrent \subseteq Infras
        /\ cachedObjects = objects /\ objectsCurrent \subseteq Names
        /\ passCurrent \in BOOLEAN /\ queue \subseteq Infras
    BY Zenon DEF Init
  <1>10. SpecsGiven /\ PassGiven
    BY <1>1, <1>6, <1>7 DEF SpecsGiven, PassGiven
  <1> QED BY <1>1, <1>2, <1>4, <1>6, <1>7, <1>8, <1>9, <1>10, Zenon DEF TypeInv, TypeOK

-----------------------------------------------------------------------------
\* A step of the pass that leaves the caches and the API server alone, but
\* perhaps for one object.
LEMMA PassStep ==
  ASSUME TypeInv,
         UNCHANGED <<exists, spec, status, owned, worldVars, cached, infraCurrent,
                     cachedObjects, passCurrent, queue>>,
         objects' \in [Names -> Object], objectsCurrent' \subseteq Names,
         used' \in [{"edits", "changes", "owners", "deletes", "faults", "crashes"} -> Nat],
         pass' \in PassType, PassGiven'
  PROVE  TypeInv'
  <1>1. SpecsGiven'
    BY DEF TypeInv, SpecsGiven
  <1>2. TypeOK'
    BY DEF TypeInv, TypeOK, worldVars
  <1> QED BY <1>1, <1>2 DEF TypeInv

\* The pass gets to another point, with a reason or without.
LEMMA FailTyped ==
  ASSUME TypeInv, pass.pc # "idle", NEW r \in Reasons, Fail(r)
  PROVE  pass' \in PassType /\ PassGiven'
  <1>1. pass \in PassType /\ pass.infra \in Infras /\ pass.spec \in Specs
    BY DEF TypeInv, TypeOK, PassGiven
  <1> QED BY <1>1, Zenon DEF Fail, PassType, PassGiven

LEMMA FailObjectTyped ==
  ASSUME TypeInv, pass.pc # "idle", NEW r \in Reasons, FailObject(r)
  PROVE  pass' \in PassType /\ PassGiven'
  <1>1. CASE Fail(r)
    BY <1>1, FailTyped
  <1>2. CASE pass' = [pass EXCEPT !.pc = "properties", !.todo = << >>]
    <2>1. pass \in PassType /\ pass.infra \in Infras /\ pass.spec \in Specs
      BY DEF TypeInv, TypeOK, PassGiven
    <2>2. << >> \in Seq(Names)
      BY EmptySeq
    <2> QED BY <1>2, <2>1, <2>2, Zenon DEF PassType, PassGiven
  <1> QED BY <1>1, <1>2 DEF FailObject


-----------------------------------------------------------------------------
\* The steps of a pass.
LEMMA FetchTyped ==
  ASSUME TypeInv, NEW i \in Infras, FetchKogitoInfraInstance(i)
  PROVE  TypeInv'
  <1>1. UNCHANGED <<apiVars, worldVars, cacheVars, used>> /\ queue' \subseteq queue
    BY DEF FetchKogitoInfraInstance
  <1>2. pass' \in PassType /\ PassGiven'
    <2>1. CASE UNCHANGED <<pass, passCurrent>>
      BY <2>1 DEF TypeInv, TypeOK, PassGiven
    <2>2. CASE pass' = [IdlePass EXCEPT !.pc = "resource", !.infra = i, !.spec = cached[i].spec]
      <3>1. cached[i].spec \in Specs /\ cached[i].spec \in SpecType
        BY SomeSpec, SpecsTyped DEF TypeInv, SpecsGiven
      <3>2. /\ pass' \in PassType /\ pass'.infra = i /\ pass'.spec = cached[i].spec
        BY <2>2, <3>1, IdleTyped, Zenon DEF PassType
      <3> QED BY <3>1, <3>2 DEF PassGiven
    <2> QED BY <2>1, <2>2 DEF FetchKogitoInfraInstance
  <1>3. passCurrent' \in BOOLEAN
    <2>1. passCurrent' = passCurrent \/ passCurrent' = (i \in infraCurrent)
      BY Zenon DEF FetchKogitoInfraInstance
    <2>2. passCurrent \in BOOLEAN
      BY DEF TypeInv, TypeOK
    <2>3. CASE passCurrent' = (i \in infraCurrent)
      BY <2>3, SMT
    <2> QED BY <2>1, <2>2, <2>3, Zenon
  <1>4. SpecsGiven'
    BY <1>1 DEF TypeInv, SpecsGiven, apiVars, cacheVars
  <1>5. TypeOK'
    BY <1>1, <1>2, <1>3 DEF TypeInv, TypeOK, apiVars, worldVars, cacheVars
  <1> QED BY <1>2, <1>4, <1>5 DEF TypeInv

LEMMA CheckResourceTyped ==
  ASSUME TypeInv, CheckResource
  PROVE  TypeInv'
  <1>1. /\ pass.pc = "resource" /\ pass \in PassType /\ pass.infra \in Infras
        /\ pass.spec \in Specs /\ pass.spec \in SpecType /\ pass.spec.kind \in Kinds
        /\ backing \in [Resources -> Backings]
    BY SpecsTyped DEF CheckResource, At, TypeInv, TypeOK, PassGiven, SpecType
  <1>2. /\ UNCHANGED <<exists, spec, status, owned, worldVars, cached, infraCurrent,
                       cachedObjects, passCurrent, queue>>
        /\ objects' \in [Names -> Object] /\ objectsCurrent' \subseteq Names
    BY DEF CheckResource, apiVars, cacheVars, TypeInv, TypeOK
  <1>3. used' \in [{"edits", "changes", "owners", "deletes", "faults", "crashes"} -> Nat]
    <2>1. CASE UNCHANGED used
      BY <2>1 DEF TypeInv, TypeOK
    <2>2. CASE Use("faults", MaxFaults)
      BY <2>2, UseTyped DEF TypeInv, TypeOK
    <2> QED BY <2>1, <2>2 DEF CheckResource
  <1>4. pass' \in PassType /\ PassGiven'
    <2>1. CASE \E r \in Reasons : Fail(r)
      BY <1>1, <2>1, FailTyped
    <2>2. CASE pass' = [pass EXCEPT !.pc = "properties"]
      BY <1>1, <2>2, Zenon DEF PassType, PassGiven
    <2>3. CASE /\ ResourceError(pass.spec) = "None" /\ pass.spec.kind # "NoResource"
               /\ pass' = [pass EXCEPT
                             !.pc = "objects",
                             !.seen = backing[pass.spec.resource],
                             !.todo = Generated(pass.spec.kind,
                                                backing[pass.spec.resource].security)]
      <3>1. backing[pass.spec.resource] \in Backings
        BY <1>1, <2>3, ResourceErrorTyped
      <3>2. Generated(pass.spec.kind, backing[pass.spec.resource].security) \in Seq(Names)
        BY <1>1, GeneratedNames, Zenon
      <3> QED BY <1>1, <2>3, <3>1, <3>2, Zenon DEF PassType, PassGiven
    <2>4. /\ ResourceError(pass.spec) \in Reasons
          /\ "ResourceAPINotFound" \in Reasons /\ "ReconciliationFailure" \in Reasons
      BY <1>1, ResourceErrorTyped DEF Reasons
    <2> QED BY <2>1, <2>2, <2>3, <2>4, Zenon DEF CheckResource
  <1> QED BY <1>2, <1>3, <1>4, PassStep

LEMMA ReconcileObjectTyped ==
  ASSUME TypeInv, ReconcileObject
  PROVE  TypeInv'
  <1>1. /\ pass.pc = "objects" /\ pass \in PassType /\ pass.infra \in Infras
        /\ pass.spec \in Specs /\ pass.todo \in Seq(Names)
        /\ pass.refs \subseteq Names \cup UserObjects
        /\ objects \in [Names -> Object] /\ objectsCurrent \subseteq Names
    BY DEF ReconcileObject, At, TypeInv, TypeOK, PassGiven, PassType
  <1>2. UNCHANGED <<exists, spec, status, owned, worldVars, cached, infraCurrent,
                    cachedObjects, passCurrent, queue>>
    BY DEF ReconcileObject
  <1>3. used' \in [{"edits", "changes", "owners", "deletes", "faults", "crashes"} -> Nat]
    <2>1. CASE UNCHANGED used
      BY <2>1 DEF TypeInv, TypeOK
    <2>2. CASE Use("faults", MaxFaults)
      BY <2>2, UseTyped DEF TypeInv, TypeOK
    <2> QED BY <2>1, <2>2 DEF ReconcileObject
  <1>4. CASE /\ pass' = [pass EXCEPT !.pc = "properties"]
             /\ UNCHANGED <<objects, objectsCurrent>>
    <2>1. pass' \in PassType /\ PassGiven'
      BY <1>1, <1>4, Zenon DEF PassType, PassGiven
    <2> QED BY <1>1, <1>2, <1>3, <1>4, <2>1, PassStep
  <1>5. CASE /\ \E r \in Reasons : FailObject(r)
             /\ UNCHANGED <<objects, objectsCurrent>>
    <2>1. pass' \in PassType /\ PassGiven'
      BY <1>1, <1>5, FailObjectTyped
    <2> QED BY <1>1, <1>2, <1>3, <1>5, <2>1, PassStep, Zenon
  <1>6. CASE /\ pass.todo # << >> /\ ProcessDelta(Head(pass.todo))
             /\ pass' = [pass EXCEPT !.todo = Tail(@), !.refs = @ \cup {Head(pass.todo)}]
    <2>1. Head(pass.todo) \in Names /\ Tail(pass.todo) \in Seq(Names)
      BY <1>1, <1>6, HeadTailProperties
    <2>2. pass.refs \cup {Head(pass.todo)} \subseteq Names \cup UserObjects
      BY <1>1, <2>1
    <2>3. pass' = [pass EXCEPT !.todo = Tail(pass.todo), !.refs = pass.refs \cup {Head(pass.todo)}]
      BY <1>6
    <2>4. pass' \in PassType /\ PassGiven'
      BY <1>1, <2>1, <2>2, <2>3, Zenon DEF PassType, PassGiven
    <2>5. objects' \in [Names -> Object] /\ objectsCurrent' \subseteq Names
      BY <1>1, <1>6, DeltaTyped
    <2> QED BY <1>2, <1>3, <2>4, <2>5, PassStep
  <1>7. /\ "ReconciliationFailure" \in Reasons /\ "None" \in Reasons
        /\ \A o : ObjectError(o, pass.spec, pass.seen, Now) \in Reasons
    BY ErrorTyped DEF Reasons
  <1> QED BY <1>4, <1>5, <1>6, <1>7 DEF ReconcileObject


LEMMA ReconcilePropertiesTyped ==
  ASSUME TypeInv, ReconcileProperties
  PROVE  TypeInv'
  <1> DEFINE o == Properties(pass.infra)
  <1>1. /\ pass.pc = "properties" /\ pass \in PassType /\ pass.infra \in Infras
        /\ pass.spec \in Specs /\ pass.refs \subseteq Names \cup UserObjects
        /\ objects \in [Names -> Object] /\ objectsCurrent \subseteq Names
    BY DEF ReconcileProperties, At, TypeInv, TypeOK, PassGiven, PassType
  <1>2. UNCHANGED <<exists, spec, status, owned, worldVars, cached, infraCurrent,
                    cachedObjects, passCurrent, queue>>
    BY DEF ReconcileProperties
  <1>3. used' \in [{"edits", "changes", "owners", "deletes", "faults", "crashes"} -> Nat]
    <2>1. CASE UNCHANGED used
      BY <2>1 DEF TypeInv, TypeOK
    <2>2. CASE Use("faults", MaxFaults)
      BY <2>2, UseTyped DEF TypeInv, TypeOK
    <2> QED BY <2>1, <2>2 DEF ReconcileProperties
  <1>4. CASE /\ pass' = [pass EXCEPT !.pc = "references"]
             /\ UNCHANGED <<objects, objectsCurrent>>
    <2>1. pass' \in PassType /\ PassGiven'
      BY <1>1, <1>4, Zenon DEF PassType, PassGiven
    <2> QED BY <1>1, <1>2, <1>3, <1>4, <2>1, PassStep
  <1>5. CASE Fail("ReconciliationFailure") /\ UNCHANGED <<objects, objectsCurrent>>
    <2>1. "ReconciliationFailure" \in Reasons
      BY DEF Reasons
    <2>2. pass' \in PassType /\ PassGiven'
      BY <1>1, <1>5, <2>1, FailTyped, ZenonT(30)
    <2> QED BY <1>1, <1>2, <1>3, <1>5, <2>2, PassStep
  <1>6. CASE /\ ProcessDelta(o)
             /\ pass' = [pass EXCEPT !.pc = "references", !.refs = @ \cup {o}]
    <2>1. o \in Names
      BY <1>1, PropertiesNamed
    <2> HIDE DEF o
    <2>2. pass.refs \cup {o} \subseteq Names \cup UserObjects
      BY <1>1, <2>1
    <2>3. pass' = [pass EXCEPT !.pc = "references", !.refs = pass.refs \cup {o}]
      BY <1>6
    <2>4. pass' \in PassType /\ PassGiven'
      BY <1>1, <2>2, <2>3, ZenonT(30) DEF PassType, PassGiven
    <2>5. objects' \in [Names -> Object] /\ objectsCurrent' \subseteq Names
      BY <1>1, <1>6, DeltaTyped
    <2> QED BY <1>2, <1>3, <2>4, <2>5, PassStep
  <1> QED BY <1>4, <1>5, <1>6 DEF ReconcileProperties

LEMMA ReconcileReferencesTyped ==
  ASSUME TypeInv, ReconcileReferences
  PROVE  TypeInv'
  <1>1. /\ pass.pc = "references" /\ pass \in PassType /\ pass.infra \in Infras
        /\ pass.spec \in Specs /\ pass.refs \subseteq Names \cup UserObjects
        /\ userObjects \subseteq UserObjects
    BY Zenon DEF ReconcileReferences, At, TypeInv, TypeOK, PassGiven, PassType
  <1>2. /\ UNCHANGED <<exists, spec, status, owned, worldVars, cached, infraCurrent,
                       cachedObjects, passCurrent, queue>>
        /\ objects' \in [Names -> Object] /\ objectsCurrent' \subseteq Names
    BY ZenonT(30) DEF ReconcileReferences, apiVars, cacheVars, TypeInv, TypeOK
  <1>3. used' \in [{"edits", "changes", "owners", "deletes", "faults", "crashes"} -> Nat]
    <2>1. CASE UNCHANGED used
      BY <2>1 DEF TypeInv, TypeOK
    <2>2. CASE Use("faults", MaxFaults)
      BY <2>2, UseTyped DEF TypeInv, TypeOK
    <2> QED BY <2>1, <2>2, ZenonT(30) DEF ReconcileReferences
  <1>4. pass' \in PassType /\ PassGiven'
    <2>1. CASE Fail("ReconciliationFailure")
      <3>1. "ReconciliationFailure" \in Reasons
        BY DEF Reasons
      <3> QED BY <1>1, <2>1, <3>1, FailTyped
    <2>2. CASE pass' = [pass EXCEPT !.pc = "status", !.refs = @ \cup Found]
      <3>1. pass.refs \cup Found \subseteq Names \cup UserObjects
        BY <1>1 DEF Found
      <3> QED BY <1>1, <2>2, <3>1, Zenon DEF PassType, PassGiven
    <2>3. CASE \E before \in SUBSET Found, r \in pass.spec.refs \ Found :
                 pass' = [pass EXCEPT !.pc = "status", !.refs = @ \cup before,
                                      !.reason = IF r = None THEN "ResourceConfigError"
                                                             ELSE "ResourceNotFound"]
      <3>1. PICK before \in SUBSET Found, r \in pass.spec.refs \ Found :
                 pass' = [pass EXCEPT !.pc = "status", !.refs = @ \cup before,
                                      !.reason = IF r = None THEN "ResourceConfigError"
                                                             ELSE "ResourceNotFound"]
        BY <2>3, Zenon
      <3>2. pass.refs \cup before \subseteq Names \cup UserObjects
        BY <1>1, <3>1 DEF Found
      <3>3. "ResourceConfigError" \in Reasons /\ "ResourceNotFound" \in Reasons
        BY DEF Reasons
      <3> QED BY <1>1, <3>1, <3>2, <3>3, Zenon DEF PassType, PassGiven
    <2> QED BY <2>1, <2>2, <2>3, Zenon DEF ReconcileReferences
  <1> QED BY <1>2, <1>3, <1>4, PassStep

\* The operator starts anew.
LEMMA AfreshTyped ==
  ASSUME TypeInv, Afresh, UNCHANGED <<exists, spec, owned, objects, worldVars, status>>,
         used' \in [{"edits", "changes", "owners", "deletes", "faults", "crashes"} -> Nat]
  PROVE  TypeInv'
  <1>1. /\ spec \in [Infras -> SpecType] /\ status \in [Infras -> StatusType]
        /\ objects \in [Names -> Object] /\ exists \subseteq Infras
    BY DEF TypeInv, TypeOK
  <1>2. \A i \in Infras :
          /\ Copy(i) \in [exists : BOOLEAN, spec : SpecType, status : StatusType, owned : BOOLEAN]
          /\ Copy(i).spec = spec[i]
    BY <1>1, CopyTyped
  <1>3. cached' \in [Infras -> [exists : BOOLEAN, spec : SpecType, status : StatusType,
                                owned : BOOLEAN]]
    BY <1>2 DEF Afresh
  <1>4. SpecsGiven'
    BY <1>2 DEF Afresh, TypeInv, SpecsGiven
  <1>5. pass' \in PassType /\ pass'.pc = "idle" /\ passCurrent' \in BOOLEAN
    BY IdleTyped, Zenon DEF Afresh
  <1>6. PassGiven'
    BY <1>5 DEF PassGiven
  <1>7. TypeOK'
    BY <1>1, <1>3, <1>5 DEF TypeInv, TypeOK, Afresh, worldVars
  <1> QED BY <1>4, <1>6, <1>7, Zenon DEF TypeInv

LEMMA UpdateBaseStatusTyped ==
  ASSUME TypeInv, UpdateBaseStatus
  PROVE  TypeInv'
  <1> DEFINE i == pass.infra
             new == [configured |-> IF pass.reason = "None" THEN "True" ELSE "False",
                     reason |-> pass.reason, refs |-> pass.refs]
  <1>1. /\ pass.pc = "status" /\ pass \in PassType /\ pass.infra \in Infras
        /\ status \in [Infras -> StatusType]
    BY Zenon DEF UpdateBaseStatus, At, TypeInv, TypeOK, PassGiven
  <1>2. UNCHANGED <<exists, spec, owned, objects, worldVars>>
    BY Zenon DEF UpdateBaseStatus
  <1>3. CASE Afresh /\ UNCHANGED <<status, used>>
    <2>1. used' \in [{"edits", "changes", "owners", "deletes", "faults", "crashes"} -> Nat]
      BY <1>3 DEF TypeInv, TypeOK
    <2> QED BY <1>2, <1>3, <2>1, AfreshTyped, Zenon
  <1>4. CASE cached[i].exists
    <2>1. new \in StatusType
      BY <1>1, Zenon DEF PassType, StatusType
    <2>2. /\ pass' = IdlePass /\ passCurrent' = FALSE
          /\ queue' = IF Again(pass.reason) THEN queue \cup {i} ELSE queue
          /\ UNCHANGED <<cached, cachedObjects, objectsCurrent>>
      BY <1>4, Zenon DEF UpdateBaseStatus
    <2>3. /\ status' = status \/ status' = [status EXCEPT ![i] = new]
          /\ infraCurrent' \subseteq infraCurrent
      BY <1>4, Zenon DEF UpdateBaseStatus
    <2>4. used' \in [{"edits", "changes", "owners", "deletes", "faults", "crashes"} -> Nat]
      <3>1. CASE UNCHANGED used
        BY <3>1 DEF TypeInv, TypeOK
      <3>2. CASE Use("faults", MaxFaults)
        BY <3>2, UseTyped DEF TypeInv, TypeOK
      <3> QED BY <1>4, <3>1, <3>2, Zenon DEF UpdateBaseStatus
    <2> HIDE DEF new
    <2>5. status' \in [Infras -> StatusType]
      BY <1>1, <2>1, <2>3, Zenon
    <2>6. queue' \subseteq Infras
      BY <1>1, <2>2 DEF TypeInv, TypeOK
    <2>7. PassGiven' /\ pass' \in PassType
      BY <2>2, IdleTyped, Zenon DEF PassGiven
    <2>8. SpecsGiven'
      BY <1>2, <2>2, Zenon DEF TypeInv, SpecsGiven
    <2>9. TypeOK'
      BY <1>2, <2>2, <2>3, <2>4, <2>5, <2>6, <2>7, Zenon DEF TypeInv, TypeOK, worldVars
    <2> QED BY <2>7, <2>8, <2>9, Zenon DEF TypeInv
  <1> QED BY <1>3, <1>4 DEF UpdateBaseStatus


-----------------------------------------------------------------------------
\* The environment.
LEMMA EnvironmentTyped ==
  ASSUME TypeInv, Environment
  PROVE  TypeInv'
  <1> USE DEF worldVars
  <1>1. CASE \E i \in Infras : EditSpec(i)
    <2>1. PICK i \in Infras : EditSpec(i)
      BY <1>1
    <2>2. PICK s \in SpecsOf[i] : spec' = [spec EXCEPT ![i] = s]
      BY <2>1, ZenonT(30) DEF EditSpec
    <2>3. s \in SpecType
      BY <2>2, InfraAssumption
    <2>4. spec' \in [Infras -> SpecType]
      BY <2>2, <2>3 DEF TypeInv, TypeOK
    <2>5. SpecsGiven'
      <3>1. cached' = cached /\ spec \in [Infras -> SpecType]
        BY <2>1 DEF EditSpec, TypeInv, TypeOK
      <3> QED BY <2>2, <3>1 DEF TypeInv, SpecsGiven
    <2>6. used' \in [{"edits", "changes", "owners", "deletes", "faults", "crashes"} -> Nat]
      BY <2>1, UseTyped, Zenon DEF EditSpec, TypeInv, TypeOK
    <2>7. PassGiven'
      BY <2>1, ZenonT(30) DEF EditSpec, TypeInv, PassGiven
    <2>8. infraCurrent' \subseteq Infras
      BY <2>1 DEF EditSpec, TypeInv, TypeOK
    <2>9. passCurrent' \in BOOLEAN
      BY <2>1, Zenon DEF EditSpec
    <2>10. UNCHANGED <<exists, status, owned, objects, worldVars, cached,
                       cachedObjects, objectsCurrent, queue, pass>>
      BY <2>1, Zenon DEF EditSpec
    <2>11. TypeOK'
      BY <2>4, <2>6, <2>8, <2>9, <2>10, Zenon DEF TypeInv, TypeOK
    <2> QED BY <2>5, <2>7, <2>11 DEF TypeInv
  <1>2. CASE \E i \in Infras : ChangeOwners(i) \/ DeleteInfra(i)
    <2>1. PICK i \in Infras : ChangeOwners(i) \/ DeleteInfra(i)
      BY <1>2, Zenon
    <2>2. /\ UNCHANGED <<spec, status, objects, worldVars, cached, cachedObjects,
                         objectsCurrent, queue, pass>>
          /\ infraCurrent' = infraCurrent \ {i}
      BY <2>1, Zenon DEF ChangeOwners, DeleteInfra
    <2>3. exists' \subseteq Infras /\ owned' \subseteq Infras
      BY <2>1, ZenonT(30) DEF ChangeOwners, DeleteInfra, TypeInv, TypeOK
    <2>4. used' \in [{"edits", "changes", "owners", "deletes", "faults", "crashes"} -> Nat]
      BY <2>1, UseTyped DEF ChangeOwners, DeleteInfra, TypeInv, TypeOK
    <2>5. passCurrent' \in BOOLEAN
      BY <2>1, Zenon DEF ChangeOwners, DeleteInfra
    <2>6. SpecsGiven' /\ PassGiven'
      BY <2>2, Zenon DEF TypeInv, SpecsGiven, PassGiven
    <2>7. TypeOK'
      BY <2>2, <2>3, <2>4, <2>5 DEF TypeInv, TypeOK
    <2> QED BY <2>6, <2>7 DEF TypeInv
  <1>3. CASE ChangeWorld
    <2>1. UNCHANGED <<apiVars, cacheVars, passCurrent, queue, pass>>
      BY <1>3, ZenonT(30) DEF ChangeWorld
    <2>2. used' \in [{"edits", "changes", "owners", "deletes", "faults", "crashes"} -> Nat]
      BY <1>3, UseTyped DEF ChangeWorld, TypeInv, TypeOK
    <2>3. /\ apis' \subseteq UsedKinds /\ backing' \in [Resources -> Backings]
          /\ userObjects' \subseteq UserObjects
      <3>1. /\ apis \subseteq UsedKinds /\ backing \in [Resources -> Backings]
            /\ userObjects \subseteq UserObjects
        BY ZenonT(30) DEF TypeInv, TypeOK
      <3>2. CASE \E r \in Resources : \E b \in BackingsOf[r] \ {backing[r]} :
                   backing' = [backing EXCEPT ![r] = b]
        <4>1. PICK r \in Resources : \E b \in BackingsOf[r] : backing' = [backing EXCEPT ![r] = b]
          BY <3>2, Zenon
        <4>2. PICK b \in BackingsOf[r] : backing' = [backing EXCEPT ![r] = b]
          BY <4>1, Zenon
        <4>3. b \in Backings
          BY <4>2, InfraAssumption
        <4>4. backing' \in [Resources -> Backings]
          BY <3>1, <4>2, <4>3, Zenon
        <4> QED
          BY <1>3, <3>1, <4>4 DEF ChangeWorld
      <3>3. CASE UNCHANGED backing
        BY <1>3, <3>1, <3>3, Zenon DEF ChangeWorld
      <3> QED BY <1>3, <3>2, <3>3 DEF ChangeWorld
    <2>4. SpecsGiven' /\ PassGiven'
      BY <2>1, Zenon DEF TypeInv, SpecsGiven, PassGiven, apiVars, cacheVars
    <2>5. TypeOK'
      BY <2>1, <2>2, <2>3, Zenon DEF TypeInv, TypeOK, apiVars, cacheVars
    <2> QED BY <2>4, <2>5, Zenon DEF TypeInv
  <1>4. CASE \E o \in Names : CollectObject(o)
    <2>1. PICK o \in Names : CollectObject(o)
      BY <1>4
    <2>2. /\ objects' = [objects EXCEPT ![o] = NoObject]
          /\ objectsCurrent' = objectsCurrent \ {o}
          /\ UNCHANGED <<exists, spec, status, owned, worldVars, cached, infraCurrent,
                         cachedObjects, passCurrent, queue, pass, used>>
      BY <2>1, Zenon DEF CollectObject
    <2>3. objects' \in [Names -> Object] /\ objectsCurrent' \subseteq Names
      BY <2>2, Zenon DEF TypeInv, TypeOK, Object
    <2>4. PassGiven' /\ pass' \in PassType
      BY <2>2, Zenon DEF TypeInv, TypeOK, PassGiven
    <2>5. used' \in [{"edits", "changes", "owners", "deletes", "faults", "crashes"} -> Nat]
      BY <2>2 DEF TypeInv, TypeOK
    <2> QED BY <2>2, <2>3, <2>4, <2>5, PassStep, Zenon
  <1> QED BY <1>1, <1>2, <1>3, <1>4 DEF Environment

\* The informers, the resync and a restart.
LEMMA InformersTyped ==
  ASSUME TypeInv, Informers \/ Resync \/ Restart
  PROVE  TypeInv'
  <1>1. CASE \E i \in Infras : SyncInfra(i)
    <2>1. PICK i \in Infras : SyncInfra(i)
      BY <1>1, Zenon
    <2>2. /\ Copy(i) \in [exists : BOOLEAN, spec : SpecType, status : StatusType, owned : BOOLEAN]
          /\ Copy(i).spec = spec[i]
      BY CopyTyped DEF TypeInv, TypeOK
    <2>3. /\ cached' = [cached EXCEPT ![i] = Copy(i)]
          /\ infraCurrent' = infraCurrent \cup {i}
          /\ queue' \subseteq queue \cup {i}
          /\ UNCHANGED <<apiVars, worldVars, cachedObjects, objectsCurrent,
                         passCurrent, pass, used>>
      BY <2>1, Zenon DEF SyncInfra
    <2>4. cached' \in [Infras -> [exists : BOOLEAN, spec : SpecType, status : StatusType,
                                  owned : BOOLEAN]]
      BY <2>2, <2>3, ZenonT(30) DEF TypeInv, TypeOK
    <2>5. SpecsGiven'
      BY <2>2, <2>3 DEF TypeInv, TypeOK, SpecsGiven, apiVars
    <2>6. PassGiven'
      BY <2>3, ZenonT(30) DEF TypeInv, PassGiven
    <2>7. TypeOK'
      BY <2>3, <2>4 DEF TypeInv, TypeOK, apiVars, worldVars
    <2> QED BY <2>5, <2>6, <2>7 DEF TypeInv
  <1>2. CASE \E o \in Names : SyncObject(o)
    <2>1. PICK o \in Names : SyncObject(o)
      BY <1>2
    <2>2. /\ cachedObjects' = [cachedObjects EXCEPT ![o] = objects[o]]
          /\ objectsCurrent' = objectsCurrent \cup {o}
          /\ queue' = queue \cup ({cachedObjects[o].owner, objects[o].owner} \ {None})
          /\ UNCHANGED <<apiVars, worldVars, cached, infraCurrent, passCurrent, pass, used>>
      BY <2>1 DEF SyncObject
    <2>3. objects[o] \in Object /\ cachedObjects[o] \in Object
      BY Zenon DEF TypeInv, TypeOK
    <2>4. \A x \in Object : x.owner \in Infras \cup {None}
      BY DEF Object, NoObject
    <2>5. queue' \subseteq Infras
      BY <2>2, <2>3, <2>4, Zenon DEF TypeInv, TypeOK
    <2>6. cachedObjects' \in [Names -> Object]
      BY <2>2, <2>3, Zenon DEF TypeInv, TypeOK
    <2>7. SpecsGiven' /\ PassGiven'
      BY <2>2, ZenonT(30) DEF TypeInv, SpecsGiven, PassGiven, apiVars
    <2>8. TypeOK'
      BY <2>2, <2>5, <2>6 DEF TypeInv, TypeOK, apiVars, worldVars
    <2> QED BY <2>7, <2>8, ZenonT(30) DEF TypeInv
  <1>3. CASE Resync
    <2>1. queue' \subseteq Infras /\ UNCHANGED <<apiVars, worldVars, cacheVars, passCurrent, pass, used>>
      BY <1>3, ZenonT(30) DEF Resync, TypeInv, TypeOK
    <2>2. SpecsGiven' /\ PassGiven'
      BY <2>1 DEF TypeInv, SpecsGiven, PassGiven, apiVars, cacheVars
    <2>3. TypeOK'
      BY <2>1 DEF TypeInv, TypeOK, apiVars, worldVars, cacheVars
    <2> QED BY <2>2, <2>3, Zenon DEF TypeInv
  <1>4. CASE Restart
    <2>1. used' \in [{"edits", "changes", "owners", "deletes", "faults", "crashes"} -> Nat]
      BY <1>4, UseTyped DEF Restart, TypeInv, TypeOK
    <2> QED BY <1>4, <2>1, AfreshTyped DEF Restart, apiVars
  <1> QED BY <1>1, <1>2, <1>3, <1>4 DEF Informers

\* Every step keeps the types.
LEMMA TypeStep == TypeInv /\ [Next]_vars => TypeInv'
  <1> SUFFICES ASSUME TypeInv, [Next]_vars PROVE TypeInv'
    OBVIOUS
  <1>1. CASE UNCHANGED vars
    <2>1. SpecsGiven' /\ PassGiven'
      BY <1>1, ZenonT(30) DEF vars, apiVars, cacheVars, TypeInv, SpecsGiven, PassGiven
    <2>2. TypeOK'
      BY <1>1 DEF vars, apiVars, worldVars, cacheVars, TypeInv, TypeOK
    <2> QED BY <2>1, <2>2, Zenon DEF TypeInv
  <1>2. CASE Working
    BY <1>2, CheckResourceTyped, ReconcileObjectTyped, ReconcilePropertiesTyped,
       ReconcileReferencesTyped, UpdateBaseStatusTyped DEF Working
  <1> QED BY <1>1, <1>2, FetchTyped, EnvironmentTyped, InformersTyped DEF Next

\* Every variable keeps its type: whatever the resources look like, a status
\* only holds reasons of the API and references to objects of the names this
\* controller gives, and every object says what a spec or a resource says.
THEOREM TypeCorrect == Spec => []TypeOK
  <1>1. TypeInv => TypeOK
    BY DEF TypeInv
  <1> QED BY TypeInit, TypeStep, <1>1, PTL DEF Spec
=============================================================================
