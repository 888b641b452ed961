------------------------ MODULE BuildResourcesProofs ------------------------
(***************************************************************************)
(* Proofs about BuildResources, for any number of KogitoBuilds and         *)
(* KogitoRuntimes with any specs: the types, among them that a stream has  *)
(* one tag of a name, and that every BuildConfig builds from a base image  *)
(* that is there.                                                          *)
(*                                                                         *)
(* The argument for the latter: nobody owns the streams of base images, so *)
(* no pass lists them among what its instance deployed and none deletes or *)
(* overwrites them; they only grow.  A pass writes BuildConfigs after it   *)
(* has found or made the tags they build from, and from the same copy of   *)
(* the spec.                                                               *)
(***************************************************************************)
EXTENDS BuildResources, FiniteSetTheorems, TLAPS

-----------------------------------------------------------------------------
(* The inductive invariant.                                                 *)

ApiOK ==
  /\ exists \subseteq Owners
  /\ spec = [b \in Builds |-> spec[b]] /\ \A b \in Builds : spec[b] \in SpecsOf[b]
  /\ image = [r \in Runtimes |-> image[r]] /\ \A r \in Runtimes : image[r] \in ImagesOf[r]

GoodStream(is) ==
  /\ is \in [tags : {is.tags}, owners : SUBSET Owners, controller : Owners \cup {None}]
  /\ is.controller \in is.owners \cup {None}
  /\ \A t, u \in is.tags : t.name = u.name => t = u

\* The stream of a base image has no owners, and its tags are imported from
\* images of its name and their own.
GoodBase(n, is) ==
  /\ is \in BaseStreamType
  /\ \A t \in is.tags : t.from[2] = n[2] /\ t.from[3] = t.name

StreamsOK ==
  /\ streams = [n \in Streams |-> streams[n]]
  /\ \A n \in Streams : streams[n] # None => GoodStream(streams[n])
  /\ \A n \in BaseStreams : streams[n] # None => GoodBase(n, streams[n])

\* A tag of a base image is there, in these streams.
TagThere(st, n, tag) == n \in BaseStreams /\ st[n] # None /\ \E t \in st[n].tags : t.name = tag
Based(st, s, isBuilder) ==
  TagThere(st, ResolveKogitoImageStreamName(s, isBuilder), ResolveKogitoImageTag(s, isBuilder))

BcOK(st, n, bc) == n[2] \in bc.owners /\ TagThere(st, bc.base[1], bc.base[2])
BcsOK ==
  /\ bcs = [n \in BuildConfigs |-> bcs[n]]
  /\ \A n \in BuildConfigs : bcs[n] # None => BcOK(streams, n, bcs[n])

QueueOK(c, q) == q \in Seq(KeysOf(c)) /\ IsInjective(q)
QueuesOK ==
  /\ queue = [c \in Controllers |-> queue[c]]
  /\ \A c \in Controllers : QueueOK(c, queue[c])

\* Streams that passes write as a whole.
OwnStreams == ServiceStreams \cup BuilderStreams

Defaulted(b) == {SetDefaults(b, s) : s \in SpecsOf[b]}

\* What a pass is for, and what it read.
InstanceOK(c, p) ==
  /\ p \in [pc : {p.pc}, key : KeysOf(c) \cup {None}, spec : {p.spec}, created : {p.created},
            request : {p.request}, todo : {p.todo}, kind : {p.kind}]
  /\ p.pc # "idle" => /\ p.key \in KeysOf(c)
                      /\ c = "build" => p.spec \in Defaulted(p.key)
                      /\ c = "runtime" => p.spec \in ImagesOf[p.key]

RequestOK(p) == \A n \in DOMAIN p.request : n \in OwnStreams /\ GoodStream(p.request[n])

\* The writes of a pass are for objects of its own, and of requests it has.
StreamWrite(p, w) ==
  w[1] = "stream" /\ w[3] \in OwnStreams /\ (w[2] # "delete" => w[3] \in DOMAIN p.request)
BcWrite(p, w) ==
  /\ w[1] = "bc" /\ w[3] \in BuildConfigs
  /\ w[2] # "delete" => w[3] \in DOMAIN RequestedBuildConfigs(p.key, p.spec)
TodoOK(c, p) ==
  p.pc = "write" => \A w \in p.todo : StreamWrite(p, w) \/ (c = "build" /\ BcWrite(p, w))

\* The base images are there by the time the BuildConfigs are written.
BaseDone(st, c, p) ==
  c = "build" =>
    /\ p.pc \in {"runtimeBase", "request", "list", "write"} => Based(st, p.spec, TRUE)
    /\ p.pc \in {"request", "list", "write"} => Based(st, p.spec, FALSE)

PassOK(st, c, p) == InstanceOK(c, p) /\ RequestOK(p) /\ TodoOK(c, p) /\ BaseDone(st, c, p)
PassesOK ==
  /\ pass = [c \in Controllers |-> pass[c]]
  /\ \A c \in Controllers : PassOK(streams, c, pass[c])

CurrentOK ==
  /\ current = [c \in Controllers |-> current[c]]
  /\ \A c \in Controllers : current[c] \subseteq Streams

ResourcesInv == ApiOK /\ StreamsOK /\ BcsOK /\ QueuesOK /\ PassesOK /\ CurrentOK

-----------------------------------------------------------------------------
(* Names.                                                                   *)

LEMMA Disjoint == BaseStreams \cap OwnStreams = {}
<1>1. ASSUME NEW n \in BaseStreams PROVE n[1] \in {"custom", "kogito"}
  BY DEF BaseStreams, ResolveKogitoImageStreamName
<1>2. ASSUME NEW n \in OwnStreams PROVE n[1] \in {"service", "builder"}
  BY DEF OwnStreams, ServiceStreams, BuilderStreams, Service, GetBuildBuilderName
<1> QED
  BY <1>1, <1>2, ZenonT(30)

LEMMA NamesOfStreams ==
  Streams = OwnStreams \cup BaseStreams
BY DEF Streams, OwnStreams

LEMMA KeysOfControllers ==
  /\ Controllers = {"build", "runtime"} /\ KeysOf("build") = Builds /\ KeysOf("runtime") = Runtimes
  /\ \A c \in Controllers : KeysOf(c) \subseteq Owners /\ IsFiniteSet(KeysOf(c)) /\ None \notin KeysOf(c)
BY FiniteAssumption, NamesAssumption, ZenonT(30) DEF Controllers, KeysOf, Owners

\* The defaults change nothing about the base images.
LEMMA DefaultsKeepImages ==
  ASSUME NEW b \in Builds, NEW s \in SpecsOf[b], NEW isBuilder
  PROVE  LET d == SetDefaults(b, s)
         IN  /\ NewKogitoImageStream(d, isBuilder) = NewKogitoImageStream(s, isBuilder)
             /\ ResolveKogitoImageStreamName(d, isBuilder) = ResolveKogitoImageStreamName(s, isBuilder)
             /\ ResolveKogitoImageTag(d, isBuilder) = ResolveKogitoImageTag(s, isBuilder)
             /\ d.target = GetApplicationName(b, s)
<1> DEFINE d == SetDefaults(b, s)
<1>1. DOMAIN s = Fields
  BY SpecsAssumption, ZenonT(30)
<1>2. d.buildImage = s.buildImage /\ d.runtimeImage = s.runtimeImage /\ d.native = s.native
      /\ d.target = GetApplicationName(b, s)
  BY <1>1, ZenonT(30) DEF SetDefaults, Fields
<1> HIDE DEF d
<1>3. Given(d, isBuilder) = Given(s, isBuilder)
  BY <1>2, ZenonT(30) DEF Given
<1>4. /\ ResolveKogitoImageTag(d, isBuilder) = ResolveKogitoImageTag(s, isBuilder)
      /\ ResolveKogitoImageName(d, isBuilder) = ResolveKogitoImageName(s, isBuilder)
      /\ ResolveKogitoImageRegistryNamespace(d, isBuilder)
           = ResolveKogitoImageRegistryNamespace(s, isBuilder)
  BY <1>2, <1>3, ZenonT(30) DEF ResolveKogitoImageTag, ResolveKogitoImageName,
       ResolveKogitoImageRegistryNamespace
<1>5. /\ NewKogitoImageStream(d, isBuilder) = NewKogitoImageStream(s, isBuilder)
      /\ ResolveKogitoImageStreamName(d, isBuilder) = ResolveKogitoImageStreamName(s, isBuilder)
  BY <1>3, <1>4, ZenonT(30) DEF NewKogitoImageStream, ResolveKogitoImageStreamName
<1> QED
  BY <1>2, <1>4, <1>5, ZenonT(30) DEF d

\* The stream of a base image as it is first made.
LEMMA NewBase ==
  ASSUME NEW b \in Builds, NEW d \in Defaulted(b), NEW isBuilder \in BOOLEAN
  PROVE  LET n == ResolveKogitoImageStreamName(d, isBuilder)
             is == NewKogitoImageStream(d, isBuilder)
         IN  /\ n \in BaseStreams /\ GoodBase(n, is) /\ GoodStream(is) /\ is # None
             /\ \A t \in is.tags : t.name = ResolveKogitoImageTag(d, isBuilder)
             /\ is.tags # {}
<1> DEFINE n == ResolveKogitoImageStreamName(d, isBuilder)
           is == NewKogitoImageStream(d, isBuilder)
           tag == ResolveKogitoImageTag(d, isBuilder)
           from == <<ResolveKogitoImageRegistryNamespace(d, isBuilder),
                     ResolveKogitoImageName(d, isBuilder), tag>>
<1>1. PICK s \in SpecsOf[b] : d = SetDefaults(b, s)
  BY ZenonT(30) DEF Defaulted
<1>2. n = ResolveKogitoImageStreamName(s, isBuilder) /\ is = NewKogitoImageStream(s, isBuilder)
  BY <1>1, DefaultsKeepImages, ZenonT(30)
<1>3. n \in BaseStreams
  BY <1>2 DEF BaseStreams
<1>4. is = [tags |-> {[name |-> tag, from |-> from]}, owners |-> {}, controller |-> None]
  BY DEF NewKogitoImageStream, Tag
<1>5. n[2] = ResolveKogitoImageName(d, isBuilder)
  BY DEF ResolveKogitoImageStreamName
<1>6. \A t \in is.tags : t.name = tag /\ t.from[2] = n[2] /\ t.from[3] = tag
  <2>1. from[2] = ResolveKogitoImageName(d, isBuilder) /\ from[3] = tag
    OBVIOUS
  <2> HIDE DEF from, tag, n, is
  <2> QED
    BY <1>4, <1>5, <2>1, SMTT(30)
<1>7. is \in BaseStreamType
  <2>1. is.tags \in SUBSET UNION {UNION {NewKogitoImageStream(x, i).tags :
                                 x \in SpecsOf[a], i \in BOOLEAN} : a \in Builds}
    BY <1>2
  <2> HIDE DEF is, from, tag
  <2> QED
    BY <1>4, <2>1 DEF BaseStreamType
<1>8. is # None
  BY <1>7, NoneAssumption, ZenonT(30)
<1>9. GoodStream(is)
  <2> HIDE DEF from, tag, is
  <2> QED
    BY <1>4 DEF GoodStream
<1>10. is.tags # {}
  <2> HIDE DEF from, tag, is
  <2> QED
    BY <1>4, ZenonT(30)
<1> HIDE DEF is, n, tag
<1>11. GoodBase(n, is)
  BY <1>6, <1>7, ZenonT(30) DEF GoodBase
<1> QED
  BY <1>3, <1>6, <1>8, <1>9, <1>10, <1>11, ZenonT(30) DEF is, n, tag


\* The BuildConfigs a KogitoBuild asks for carry its name, belong to it, and
\* build from the tags its spec stands for.
LEMMA RequestedConfig ==
  ASSUME NEW b \in Builds, NEW s, NEW n \in DOMAIN RequestedBuildConfigs(b, s)
  PROVE  LET bc == RequestedBuildConfigs(b, s)[n]
         IN  /\ n \in BuildConfigs /\ n[2] = b /\ bc.owners = {b}
             /\ \E isBuilder \in BOOLEAN : bc.base = ResolveKogitoImageStreamTagName(s, isBuilder)
<1> DEFINE new == NewBuildConfig(b, s)
           builder == DecoratorForSourceBuilder(b, s, new)
           runtime == DecoratorForRuntimeBuilder(b, s, new)
           bc == RequestedBuildConfigs(b, s)[n]
<1>1. /\ builder.owners = {b} /\ builder.base = ResolveKogitoImageStreamTagName(s, TRUE)
      /\ DOMAIN builder = DOMAIN new
  BY DEF NewBuildConfig, DecoratorForSourceBuilder
<1>2. /\ runtime.owners = {b} /\ runtime.base = ResolveKogitoImageStreamTagName(s, FALSE)
      /\ DOMAIN runtime = DOMAIN new
  BY DEF NewBuildConfig, DecoratorForRuntimeBuilder
<1>3. "owners" \in DOMAIN new /\ "base" \in DOMAIN new
  BY DEF NewBuildConfig
<1> HIDE DEF new, builder, runtime
<1>4. /\ DecoratorForLocalSourceBuilder(s, builder).owners = {b}
      /\ DecoratorForLocalSourceBuilder(s, builder).base = builder.base
  BY <1>1, <1>3, ZenonT(30) DEF DecoratorForLocalSourceBuilder
<1>5. /\ DecoratorForRemoteSourceBuilder(s, builder).owners = {b}
      /\ DecoratorForRemoteSourceBuilder(s, builder).base = builder.base
  BY <1>1, <1>3, ZenonT(30) DEF DecoratorForRemoteSourceBuilder
<1>6. /\ DecoratorForSourceRuntimeBuilder(b, runtime).owners = {b}
      /\ DecoratorForSourceRuntimeBuilder(b, runtime).base = runtime.base
  BY <1>2, <1>3, ZenonT(30) DEF DecoratorForSourceRuntimeBuilder
<1>7. /\ DecoratorForBinaryRuntimeBuilder(runtime).owners = {b}
      /\ DecoratorForBinaryRuntimeBuilder(runtime).base = runtime.base
  BY <1>2, <1>3, ZenonT(30) DEF DecoratorForBinaryRuntimeBuilder
<1>8. /\ n \in {GetBuildBuilderName(b), RuntimeBuild(b)}
      /\ bc \in {DecoratorForLocalSourceBuilder(s, builder), DecoratorForRemoteSourceBuilder(s, builder),
                 DecoratorForSourceRuntimeBuilder(b, runtime), DecoratorForBinaryRuntimeBuilder(runtime)}
  BY DEF RequestedBuildConfigs, SourceBuildConfigs, BinaryBuildConfigs, new, builder, runtime
<1>9. n \in BuildConfigs /\ n[2] = b
  BY <1>8 DEF BuildConfigs, BuilderStreams, GetBuildBuilderName, RuntimeBuild
<1>10. /\ bc.owners = {b}
       /\ \E isBuilder \in BOOLEAN : bc.base = ResolveKogitoImageStreamTagName(s, isBuilder)
  <2> HIDE DEF bc
  <2>1. bc.owners = {b} /\ (bc.base = builder.base \/ bc.base = runtime.base)
    BY <1>4, <1>5, <1>6, <1>7, <1>8, ZenonT(30)
  <2> QED
    BY <1>1, <1>2, <2>1, ZenonT(30)
<1> QED
  BY <1>9, <1>10, ZenonT(30)

-----------------------------------------------------------------------------
(* Queues.                                                                  *)

LEMMA SeqOfSet ==
  ASSUME NEW S, IsFiniteSet(S)
  PROVE  SetToSeq(S) \in Seq(S) /\ IsInjective(SetToSeq(S))
<1>1. Cardinality(S) \in Nat /\ ExistsBijection(1 .. Cardinality(S), S)
  BY FS_CardinalityType, ZenonT(30)
<1>2. \E f \in [1 .. Cardinality(S) -> S] : IsInjective(f)
  BY <1>1, ZenonT(30) DEF ExistsBijection, Bijection, Injection
<1>3. SetToSeq(S) \in [1 .. Cardinality(S) -> S] /\ IsInjective(SetToSeq(S))
  BY <1>2, ZenonT(30) DEF SetToSeq
<1> QED
  BY <1>1, <1>3

\* Requests are added once.
LEMMA AddRequests ==
  ASSUME NEW K, IsFiniteSet(K), NEW q \in Seq(K), IsInjective(q), NEW S \in SUBSET K
  PROVE  LET r == q \o SetToSeq(S \ ToSet(q))
         IN  r \in Seq(K) /\ IsInjective(r)
<1> DEFINE new == SetToSeq(S \ ToSet(q))
           r == q \o new
<1>1. IsFiniteSet(S \ ToSet(q))
  BY FS_Subset
<1>2. new \in Seq(S \ ToSet(q)) /\ IsInjective(new)
  BY <1>1, SeqOfSet, ZenonT(30)
<1> HIDE DEF new
<1>3. new \in Seq(K)
  BY <1>2
<1>4. r \in Seq(K) /\ Len(r) = Len(q) + Len(new)
  BY <1>3
<1>5. \A i \in 1 .. Len(q) : r[i] = q[i] /\ r[i] \in ToSet(q)
  BY <1>3 DEF ToSet
<1>6. \A i \in 1 .. Len(r) : i > Len(q) => /\ r[i] = new[i - Len(q)] /\ i - Len(q) \in 1 .. Len(new)
                                          /\ r[i] \notin ToSet(q)
  <2> TAKE i \in 1 .. Len(r)
  <2> HAVE i > Len(q)
  <2>1. r[i] = new[i - Len(q)] /\ i - Len(q) \in 1 .. Len(new)
    BY <1>3, <1>4
  <2>2. new[i - Len(q)] \in S \ ToSet(q)
    BY <1>2, <2>1, SMTT(30)
  <2> QED
    BY <2>1, <2>2, ZenonT(30)
<1>7. DOMAIN r = 1 .. Len(r) /\ Len(r) \in Nat /\ Len(q) \in Nat
  BY <1>4
<1> HIDE DEF r
<1>8. ASSUME NEW i \in 1 .. Len(r), NEW j \in 1 .. Len(r), r[i] = r[j]
      PROVE  i = j
  <2>1. CASE i <= Len(q) /\ j <= Len(q)
    <3>1. i \in DOMAIN q /\ j \in DOMAIN q /\ q[i] = q[j]
      BY <1>5, <1>7, <1>8, <2>1, SMTT(30)
    <3> QED
      BY <3>1, ZenonT(30) DEF IsInjective
  <2>2. CASE i > Len(q) /\ j > Len(q)
    <3>1. /\ i - Len(q) \in DOMAIN new /\ j - Len(q) \in DOMAIN new
          /\ new[i - Len(q)] = new[j - Len(q)]
      BY <1>3, <1>6, <1>8, <2>2, SMTT(30)
    <3>2. i - Len(q) = j - Len(q)
      BY <1>2, <3>1, ZenonT(30) DEF IsInjective
    <3> QED
      BY <1>7, <3>2, SMTT(30)
  <2>3. CASE i <= Len(q) /\ j > Len(q)
    BY <1>5, <1>6, <1>7, <1>8, <2>3, SMTT(30)
  <2>4. CASE i > Len(q) /\ j <= Len(q)
    BY <1>5, <1>6, <1>7, <1>8, <2>4, SMTT(30)
  <2> QED
    BY <1>7, <2>1, <2>2, <2>3, <2>4, SMTT(30)
<1>9. IsInjective(r)
  BY <1>7, <1>8, ZenonT(30) DEF IsInjective
<1> QED
  BY <1>4, <1>9, ZenonT(30) DEF r, new

LEMMA QueuedOK ==
  ASSUME QueuesOK, NEW c \in Controllers, NEW keys \in SUBSET KeysOf(c)
  PROVE  QueueOK(c, Queued(c, keys))
<1>1. queue[c] \in Seq(KeysOf(c)) /\ IsInjective(queue[c]) /\ IsFiniteSet(KeysOf(c))
  BY KeysOfControllers, ZenonT(30) DEF QueuesOK, QueueOK
<1> QED
  BY <1>1, AddRequests, ZenonT(30) DEF Queued, QueueOK

-----------------------------------------------------------------------------
(* Parts of a step.                                                         *)

\* The streams of base images only grow.
Grows(st, st2) ==
  \A n \in BaseStreams : st[n] # None => st2[n] # None /\ st[n].tags \subseteq st2[n].tags

LEMMA PassGrows ==
  ASSUME NEW st, NEW st2, Grows(st, st2), NEW c, NEW p, PassOK(st, c, p)
  PROVE  PassOK(st2, c, p)
<1>1. \A s, isBuilder : Based(st, s, isBuilder) => Based(st2, s, isBuilder)
  BY DEF Grows, Based, TagThere
<1> QED
  BY <1>1, ZenonT(30) DEF PassOK, BaseDone

LEMMA BcsGrow ==
  ASSUME BcsOK, Grows(streams, streams'), UNCHANGED bcs
  PROVE  BcsOK'
<1>1. \A n, bc : BcOK(streams, n, bc) => BcOK(streams', n, bc)
  BY ZenonT(30) DEF Grows, BcOK, TagThere
<1> QED
  BY <1>1, ZenonT(30) DEF BcsOK

LEMMA IdleOK ==
  ASSUME NEW st, NEW c \in Controllers
  PROVE  PassOK(st, c, Idle)
<1>1. DOMAIN << >> = {}
  OBVIOUS
<1> QED
  BY <1>1, ZenonT(30) DEF PassOK, InstanceOK, RequestOK, TodoOK, BaseDone, Idle

\* One of the two passes changes.
LEMMA PassSet ==
  ASSUME PassesOK, Grows(streams, streams'), NEW c \in Controllers, NEW p,
         pass' = [pass EXCEPT ![c] = p], PassOK(streams', c, p)
  PROVE  PassesOK'
<1>1. \A d \in Controllers : pass'[d] = IF d = c THEN p ELSE pass[d]
  BY DEF PassesOK
<1>2. pass' = [d \in Controllers |-> pass'[d]]
  BY DEF PassesOK
<1>3. \A d \in Controllers : PassOK(streams', d, pass[d])
  BY PassGrows, ZenonT(30) DEF PassesOK
<1> QED
  BY <1>1, <1>2, <1>3, ZenonT(30) DEF PassesOK

LEMMA PassesSame ==
  ASSUME PassesOK, Grows(streams, streams'), UNCHANGED pass
  PROVE  PassesOK'
BY PassGrows, ZenonT(30) DEF PassesOK

\* A pass that ends: of the requests only the keys matter.
LEMMA FinishStep ==
  ASSUME ResourcesInv, NEW c \in Controllers, pass[c].pc # "idle", NEW again, NEW told,
         Finish(c, again, told), Grows(streams, streams')
  PROVE  QueuesOK' /\ PassesOK'
<1> DEFINE keys(d) == (IF d = c /\ again THEN {pass[c].key} ELSE {})
                        \cup (told \cap KeysOf(d) \cap exists)
<1>1. pass[c].key \in KeysOf(c)
  BY DEF ResourcesInv, PassesOK, PassOK, InstanceOK
<1>2. \A d \in Controllers : keys(d) \in SUBSET KeysOf(d)
  BY <1>1, ZenonT(30)
<1>3. queue' = [d \in Controllers |-> Queued(d, keys(d))]
  BY DEF Finish
<1> HIDE DEF keys
<1>4. \A d \in Controllers : QueueOK(d, queue'[d])
  BY <1>2, <1>3, QueuedOK, ZenonT(30) DEF ResourcesInv
<1>5. queue' = [d \in Controllers |-> queue'[d]]
  BY <1>3, ZenonT(30)
<1>6. QueuesOK'
  BY <1>4, <1>5, ZenonT(30) DEF QueuesOK
<1>7. PassesOK'
  BY PassSet, IdleOK, ZenonT(30) DEF Finish, ResourcesInv
<1> QED
  BY <1>6, <1>7, ZenonT(30)

LEMMA FaultStep ==
  ASSUME ResourcesInv, NEW c \in Controllers, pass[c].pc # "idle", Fault(c), UNCHANGED streams
  PROVE  QueuesOK' /\ PassesOK'
<1>1. Finish(c, TRUE, {}) /\ Grows(streams, streams')
  BY ZenonT(30) DEF Fault, Grows
<1> QED
  BY <1>1, FinishStep, ZenonT(30)

\* The rest of the invariant does not depend on queues and passes.
LEMMA ObjectsSame ==
  ASSUME ResourcesInv, UNCHANGED <<apiVars, objectVars>>, QueuesOK', PassesOK'
  PROVE  ResourcesInv'
<1>1. ApiOK'
  BY ZenonT(30) DEF ResourcesInv, ApiOK, apiVars
<1>2. StreamsOK' /\ BcsOK' /\ CurrentOK'
  BY DEF ResourcesInv, StreamsOK, BcsOK, CurrentOK, objectVars
<1> QED
  BY <1>1, <1>2, ZenonT(30) DEF ResourcesInv

-----------------------------------------------------------------------------
(* The passes.                                                              *)

LEMMA FetchInstanceStep ==
  ASSUME ResourcesInv, NEW c \in Controllers, FetchInstance(c)
  PROVE  ResourcesInv'
<1> DEFINE k == Head(queue[c])
           p == IF c = "build"
                  THEN [Idle EXCEPT !.pc = "builderBase", !.key = k, !.spec = SetDefaults(k, spec[k])]
                  ELSE [Idle EXCEPT !.pc = "request", !.key = k, !.spec = image[k]]
<1>1. /\ queue[c] # << >> /\ queue' = [queue EXCEPT ![c] = Tail(queue[c])]
      /\ UNCHANGED pass \/ pass' = [pass EXCEPT ![c] = p]
      /\ UNCHANGED <<apiVars, objectVars>>
  BY DEF FetchInstance
<1>2. /\ queue[c] \in Seq(KeysOf(c)) /\ IsInjective(queue[c])
      /\ queue = [d \in Controllers |-> queue[d]]
  BY DEF ResourcesInv, QueuesOK, QueueOK
<1>3. k \in KeysOf(c) /\ QueueOK(c, Tail(queue[c]))
  <2> DEFINE q == queue[c]
             r == Tail(q)
  <2>1. q \in Seq(KeysOf(c)) /\ q # << >> /\ IsInjective(q)
    BY <1>1, <1>2, ZenonT(30)
  <2> HIDE DEF q
  <2>2. /\ Head(q) \in KeysOf(c) /\ r \in Seq(KeysOf(c)) /\ DOMAIN r = 1 .. Len(q) - 1
        /\ Len(q) \in Nat /\ DOMAIN q = 1 .. Len(q)
        /\ \A i \in 1 .. Len(q) - 1 : r[i] = q[i + 1]
    BY <2>1
  <2> HIDE DEF r
  <2>3. ASSUME NEW i \in DOMAIN r, NEW j \in DOMAIN r, r[i] = r[j]
        PROVE  i = j
    <3>1. i + 1 \in DOMAIN q /\ j + 1 \in DOMAIN q /\ q[i + 1] = q[j + 1]
      BY <2>2, <2>3, SMTT(30)
    <3>2. i + 1 = j + 1
      BY <2>1, <3>1, ZenonT(30) DEF IsInjective
    <3> QED
      BY <2>2, <3>2, SMTT(30)
  <2>4. IsInjective(r)
    BY <2>3, ZenonT(30) DEF IsInjective
  <2> QED
    BY <2>2, <2>4, ZenonT(30) DEF q, r, QueueOK
<1> HIDE DEF k
<1>4. QueuesOK'
  <2>1. \A d \in Controllers : queue'[d] = IF d = c THEN Tail(queue[c]) ELSE queue[d]
    BY <1>1, <1>2, ZenonT(30)
  <2>2. queue' = [d \in Controllers |-> queue'[d]]
    BY <1>1, <1>2, ZenonT(30)
  <2> QED
    BY <1>3, <2>1, <2>2, ZenonT(30) DEF ResourcesInv, QueuesOK
<1>5. PassOK(streams', c, p)
  <2>1. CASE c = "build"
    <3>1. k \in Builds /\ spec[k] \in SpecsOf[k]
      BY <1>3, <2>1, KeysOfControllers, ZenonT(30) DEF ResourcesInv, ApiOK
    <3>2. SetDefaults(k, spec[k]) \in Defaulted(k)
      BY <3>1, ZenonT(30) DEF Defaulted
    <3>3. p = [Idle EXCEPT !.pc = "builderBase", !.key = k, !.spec = SetDefaults(k, spec[k])]
      BY <2>1, ZenonT(30)
    <3>4. /\ p.pc = "builderBase" /\ p.key = k /\ p.spec = SetDefaults(k, spec[k])
          /\ p.request = << >> /\ p.todo = {}
          /\ p \in [pc : {p.pc}, key : {k}, spec : {p.spec}, created : {p.created},
                    request : {p.request}, todo : {p.todo}, kind : {p.kind}]
      BY <3>3, ZenonT(30) DEF Idle
    <3> HIDE DEF p
    <3>5. InstanceOK(c, p)
      BY <1>3, <2>1, <3>2, <3>4, ZenonT(30) DEF InstanceOK
    <3>6. RequestOK(p) /\ TodoOK(c, p) /\ BaseDone(streams', c, p)
      BY <3>4, SMTT(30) DEF RequestOK, TodoOK, BaseDone
    <3> QED
      BY <3>5, <3>6, ZenonT(30) DEF PassOK
  <2>2. CASE c = "runtime"
    <3>1. k \in Runtimes /\ image[k] \in ImagesOf[k]
      BY <1>3, <2>2, KeysOfControllers, ZenonT(30) DEF ResourcesInv, ApiOK
    <3>3. p = [Idle EXCEPT !.pc = "request", !.key = k, !.spec = image[k]]
      BY <2>2, ZenonT(30)
    <3>4. /\ p.pc = "request" /\ p.key = k /\ p.spec = image[k] /\ p.request = << >>
          /\ p \in [pc : {p.pc}, key : {k}, spec : {p.spec}, created : {p.created},
                    request : {p.request}, todo : {p.todo}, kind : {p.kind}]
      BY <3>3, ZenonT(30) DEF Idle
    <3> HIDE DEF p
    <3>5. InstanceOK(c, p)
      BY <1>3, <2>2, <3>1, <3>4, ZenonT(30) DEF InstanceOK
    <3>6. RequestOK(p) /\ TodoOK(c, p) /\ BaseDone(streams', c, p)
      BY <2>2, <3>4, SMTT(30) DEF RequestOK, TodoOK, BaseDone
    <3> QED
      BY <3>5, <3>6 DEF PassOK
  <2> QED
    BY <2>1, <2>2, KeysOfControllers, ZenonT(30)
<1> HIDE DEF p
<1>6. PassesOK' 
  <2>1. Grows(streams, streams')
    BY <1>1, ZenonT(30) DEF objectVars, Grows
  <2> QED
    BY <1>1, <1>5, <2>1, PassSet, PassesSame, ZenonT(30) DEF ResourcesInv
<1> QED
  BY <1>1, <1>4, <1>6, ObjectsSame, ZenonT(30)

\* A tag of a base image is made, or found.
LEMMA TagCreated ==
  ASSUME ResourcesInv, NEW b \in Builds, NEW s \in Defaulted(b), NEW isBuilder \in BOOLEAN,
         CreateRequiredKogitoImageStreamTag(s, isBuilder)
  PROVE  StreamsOK' /\ Grows(streams, streams') /\ Based(streams', s, isBuilder)
<1> DEFINE n == ResolveKogitoImageStreamName(s, isBuilder)
           tag == ResolveKogitoImageTag(s, isBuilder)
           required == NewKogitoImageStream(s, isBuilder)
           is == streams[n]
           new == IF ~MissingTag(s, isBuilder) THEN is
                  ELSE IF is = None THEN required
                  ELSE [is EXCEPT !.tags = is.tags \cup required.tags]
<1>1. /\ n \in BaseStreams /\ GoodBase(n, required) /\ GoodStream(required) /\ required # None
      /\ (\A t \in required.tags : t.name = tag) /\ required.tags # {}
  BY NewBase, ZenonT(30)
<1>2. n \in Streams /\ streams = [m \in Streams |-> streams[m]]
  BY <1>1, NamesOfStreams, ZenonT(30) DEF ResourcesInv, StreamsOK
<1>3. is # None => GoodStream(is) /\ GoodBase(n, is)
  BY <1>1, <1>2, ZenonT(30) DEF ResourcesInv, StreamsOK
<1>4. streams' = [streams EXCEPT ![n] = new]
  BY DEF CreateRequiredKogitoImageStreamTag
<1>5. MissingTag(s, isBuilder) <=> (is = None \/ \A t \in is.tags : t.name # tag)
  BY DEF MissingTag, HasTag
<1> HIDE DEF n, tag, required, is
<1>6. /\ new # None /\ GoodStream(new) /\ GoodBase(n, new) /\ \E t \in new.tags : t.name = tag
      /\ is # None => is.tags \subseteq new.tags
  <2>1. CASE ~MissingTag(s, isBuilder)
    BY <1>3, <1>5, <2>1, ZenonT(30)
  <2>2. CASE MissingTag(s, isBuilder) /\ is = None
    BY <1>1, <2>2, ZenonT(30)
  <2>3. CASE MissingTag(s, isBuilder) /\ is # None
    <3> DEFINE more == [is EXCEPT !.tags = is.tags \cup required.tags]
    <3>1. new = more
      BY <2>3, ZenonT(30)
    <3>2. GoodStream(is) /\ GoodBase(n, is) /\ \A t \in is.tags : t.name # tag
      BY <1>3, <1>5, <2>3, ZenonT(30)
    <3>3. /\ more = [tags |-> is.tags \cup required.tags, owners |-> is.owners,
                     controller |-> is.controller]
      BY <3>2, SMTT(30) DEF GoodStream
    <3> HIDE DEF more
    <3>4. more \in BaseStreamType
      BY <1>1, <3>2, <3>3, SMTT(30) DEF GoodBase, BaseStreamType
    <3>5. GoodBase(n, more)
      BY <1>1, <3>2, <3>3, <3>4, ZenonT(30) DEF GoodBase
    <3>6. \A t, u \in required.tags : t.name = u.name => t = u
      BY <1>1, ZenonT(30) DEF GoodStream
    <3>7. \A t, u \in is.tags \cup required.tags : t.name = u.name => t = u
      BY <1>1, <3>2, <3>6, ZenonT(30) DEF GoodStream
    <3>8. GoodStream(more)
      BY <3>2, <3>3, <3>7, ZenonT(30) DEF GoodStream
    <3>9. more # None
      BY <3>4, NoneAssumption, ZenonT(30)
    <3> QED
      BY <1>1, <3>1, <3>3, <3>5, <3>8, <3>9, SMTT(30)
  <2> QED
    BY <2>1, <2>2, <2>3, ZenonT(30)
<1> HIDE DEF new
<1>7. /\ streams' = [m \in Streams |-> streams'[m]]
      /\ \A m \in Streams : streams'[m] = IF m = n THEN new ELSE streams[m]
  BY <1>2, <1>4, ZenonT(30)
<1>8. StreamsOK'
  BY <1>6, <1>7, NamesOfStreams, ZenonT(30) DEF ResourcesInv, StreamsOK
<1>9. Grows(streams, streams')
  BY <1>6, <1>7, NamesOfStreams, ZenonT(30) DEF Grows, is
<1>10. Based(streams', s, isBuilder)
  BY <1>1, <1>2, <1>6, <1>7, ZenonT(30) DEF Based, TagThere, n, tag
<1> QED
  BY <1>8, <1>9, <1>10, ZenonT(30)

LEMMA CreateStreamsStep ==
  ASSUME ResourcesInv, CreateRequiredKogitoImageStreams
  PROVE  ResourcesInv'
<1> DEFINE p == pass["build"]
           s == p.spec
           isBuilder == At("build", "builderBase")
           created == p.created \/ MissingTag(s, isBuilder)
           q == [p EXCEPT !.created = created, !.pc = IF isBuilder THEN "runtimeBase" ELSE "request"]
<1>1. "build" \in Controllers /\ pass = [c \in Controllers |-> pass[c]] /\ PassOK(streams, "build", p)
  BY KeysOfControllers, ZenonT(30) DEF ResourcesInv, PassesOK
<1>2. p.pc \in {"builderBase", "runtimeBase"} /\ isBuilder = (p.pc = "builderBase")
  BY ZenonT(30) DEF CreateRequiredKogitoImageStreams, At
<1>3. p.key \in Builds /\ s \in Defaulted(p.key) /\ p.pc # "idle"
  BY <1>1, <1>2, KeysOfControllers, ZenonT(30) DEF PassOK, InstanceOK
<1>4. UNCHANGED <<apiVars, bcs, current>>
  BY ZenonT(30) DEF CreateRequiredKogitoImageStreams
<1>5. CASE Fault("build") /\ UNCHANGED streams
  <2>1. QueuesOK' /\ PassesOK'
    BY <1>1, <1>3, <1>5, FaultStep, ZenonT(30)
  <2> QED
    BY <1>4, <1>5, <2>1, ObjectsSame, ZenonT(30) DEF objectVars
<1>6. CASE /\ CreateRequiredKogitoImageStreamTag(s, isBuilder)
           /\ \/ Finish("build", TRUE, {})
              \/ UNCHANGED queue /\ pass' = [pass EXCEPT !["build"] = q]
  <2>1. isBuilder \in BOOLEAN
    BY DEF At
  <2>2. StreamsOK' /\ Grows(streams, streams') /\ Based(streams', s, isBuilder)
    BY <1>3, <1>6, <2>1, TagCreated, ZenonT(30)
  <2>3. ApiOK' /\ CurrentOK'
    BY <1>4, ZenonT(30) DEF ResourcesInv, ApiOK, CurrentOK, apiVars
  <2>4. BcsOK'
    BY <1>4, <2>2, BcsGrow, ZenonT(30) DEF ResourcesInv
  <2>5. QueuesOK' /\ PassesOK'
    <3>1. CASE Finish("build", TRUE, {})
      BY <1>1, <1>3, <2>2, <3>1, FinishStep, ZenonT(30)
    <3>2. CASE UNCHANGED queue /\ pass' = [pass EXCEPT !["build"] = q]
      <4>1. QueuesOK'
        BY <3>2, ZenonT(30) DEF ResourcesInv, QueuesOK
      <4>2. /\ q \in [pc : {q.pc}, key : {p.key}, spec : {s}, created : {q.created},
                      request : {p.request}, todo : {p.todo}, kind : {p.kind}]
            /\ q.pc = IF isBuilder THEN "runtimeBase" ELSE "request"
        BY <1>1, ZenonT(30) DEF PassOK, InstanceOK
      <4>3. q.pc = IF p.pc = "builderBase" THEN "runtimeBase" ELSE "request"
        BY <1>2, <4>2, ZenonT(30)
      <4>4. PassOK(streams', "build", p)
        BY <1>1, <2>2, PassGrows, ZenonT(30)
      <4>5. /\ p.pc = "builderBase" => Based(streams', s, TRUE)
            /\ p.pc = "runtimeBase" => Based(streams', s, FALSE) /\ Based(streams', s, TRUE)
        <5>1. p.pc = "builderBase" => isBuilder = TRUE
          BY DEF At
        <5>2. p.pc = "runtimeBase" => isBuilder = FALSE
          BY DEF At
        <5> HIDE DEF isBuilder
        <5>3. p.pc = "runtimeBase" => Based(streams', s, TRUE)
          BY <4>4, ZenonT(30) DEF PassOK, BaseDone
        <5> QED
          BY <2>2, <5>1, <5>2, <5>3, ZenonT(30)
      <4> HIDE DEF q
      <4>6. InstanceOK("build", q) /\ RequestOK(q) /\ TodoOK("build", q)
        BY <1>1, <1>3, <4>2, <4>3, ZenonT(30) DEF PassOK, InstanceOK, RequestOK, TodoOK
      <4>7. BaseDone(streams', "build", q)
        BY <1>2, <4>2, <4>3, <4>5, ZenonT(30) DEF BaseDone
      <4>8. PassOK(streams', "build", q)
        BY <4>6, <4>7, ZenonT(30) DEF PassOK
      <4> QED
        BY <1>1, <2>2, <3>2, <4>1, <4>8, PassSet, ZenonT(30) DEF ResourcesInv
    <3> QED
      BY <1>6, <3>1, <3>2, ZenonT(30)
  <2> QED
    BY <2>2, <2>3, <2>4, <2>5, ZenonT(30) DEF ResourcesInv
<1>7. [pass EXCEPT !["build"].created = created,
                   !["build"].pc = IF isBuilder THEN "runtimeBase" ELSE "request"]
        = [pass EXCEPT !["build"] = q]
  BY <1>1, ZenonT(30)
<1> QED
  BY <1>5, <1>6, <1>7, ZenonT(30) DEF CreateRequiredKogitoImageStreams

\* The streams that passes ask for are good ones.
LEMMA SharedStream ==
  ASSUME NEW is, is = None \/ GoodStream(is), NEW tag, NEW from, NEW owner \in Owners
  PROVE  GoodStream(AddOwnerReference(CreateImageStreamIfNotExists(is, tag, from), owner))
<1> DEFINE found == IF is = None THEN [tags |-> {}, owners |-> {}, controller |-> None] ELSE is
           tagged == CreateImageStreamIfNotExists(is, tag, from)
           added == AddOwnerReference(tagged, owner)
<1>1. GoodStream(found)
  BY DEF GoodStream
<1>2. tagged = IF HasTag(found, tag) THEN found
               ELSE [found EXCEPT !.tags = @ \cup {Tag(tag, from)}]
  BY DEF CreateImageStreamIfNotExists
<1> HIDE DEF found, tagged
<1>3. GoodStream(tagged)
  <2>1. CASE ~HasTag(found, tag)
    <3>1. /\ tagged.tags = found.tags \cup {Tag(tag, from)}
          /\ tagged.owners = found.owners /\ tagged.controller = found.controller
          /\ tagged \in [tags : {tagged.tags}, owners : SUBSET Owners, controller : Owners \cup {None}]
      BY <1>1, <1>2, <2>1, ZenonT(30) DEF GoodStream
    <3>2. Tag(tag, from).name = tag
      BY DEF Tag
    <3>3. \A t \in found.tags : t.name # tag
      BY <2>1, ZenonT(30) DEF HasTag
    <3>4. \A t, u \in tagged.tags : t.name = u.name => t = u
      BY <1>1, <3>1, <3>2, <3>3, ZenonT(30) DEF GoodStream
    <3> QED
      BY <1>1, <3>1, <3>4, ZenonT(30) DEF GoodStream
  <2> QED
    BY <1>1, <1>2, <2>1, ZenonT(30)
<1>4. /\ added.tags = tagged.tags /\ added.owners = tagged.owners \cup {owner}
      /\ added.controller = tagged.controller
      /\ added \in [tags : {added.tags}, owners : SUBSET Owners, controller : Owners \cup {None}]
  BY <1>3, ZenonT(30) DEF AddOwnerReference, GoodStream
<1> HIDE DEF added
<1>5. GoodStream(added)
  BY <1>3, <1>4, ZenonT(30) DEF GoodStream
<1> QED
  BY <1>5, ZenonT(30) DEF added, tagged

LEMMA ServiceOfBuild ==
  ASSUME NEW b \in Builds, NEW d \in Defaulted(b)
  PROVE  Service(d.target) \in ServiceStreams
<1>1. PICK s \in SpecsOf[b] : d = SetDefaults(b, s)
  BY DEF Defaulted
<1>2. d.target = GetApplicationName(b, s)
  BY <1>1, DefaultsKeepImages, ZenonT(30)
<1>3. d.target \in Owners /\ d.target # None
  BY <1>2, SpecsAssumption, NamesAssumption, ZenonT(30) DEF GetApplicationName, Owners
<1> QED
  BY <1>3, ZenonT(30) DEF ServiceStreams, ServiceNames

LEMMA ServiceOfRuntime ==
  ASSUME NEW r \in Runtimes, NEW i \in ImagesOf[r]
  PROVE  ResolveImage(r, i).stream \in ServiceStreams
<1>1. CASE i = Unset
  <2>1. r \in ServiceNames
    BY NamesAssumption, ZenonT(30) DEF ServiceNames, Owners
  <2> QED
    BY <1>1, <2>1, ZenonT(30) DEF ResolveImage, ServiceStreams
<1>2. CASE i # Unset
  <2>1. DOMAIN i = {"domain", "name", "tag"} /\ i.name # None
    BY <1>2, ImagesAssumption, ZenonT(30)
  <2>2. ConvertImageTagToImage(i).name = i.name
    BY <2>1, ZenonT(30) DEF ConvertImageTagToImage
  <2>3. ResolveImage(r, i).stream = Service(i.name)
    BY <1>2, <2>2, ZenonT(30) DEF ResolveImage
  <2>4. i.name \in ServiceNames
    BY <2>1, ZenonT(30) DEF ServiceNames
  <2> QED
    BY <2>3, <2>4, ZenonT(30) DEF ServiceStreams
<1> QED
  BY <1>1, <1>2, ZenonT(30)

LEMMA RequestStep ==
  ASSUME ResourcesInv, NEW c \in Controllers, GetRequestedResources(c)
  PROVE  ResourcesInv'
<1> DEFINE k == pass[c].key
           s == pass[c].spec
           service == IF c = "build" THEN Service(s.target) ELSE ResolveImage(k, s).stream
           shared == IF c = "build" THEN NewOutputImageStreamForRuntime(k, streams[service])
                     ELSE RequestedStream(k, s, streams[service])
           own == IF c = "build" /\ s.type \in SourceTypes THEN {GetBuildBuilderName(k)} ELSE {}
           request == [n \in {service} \cup own |->
                         IF n = service THEN shared ELSE NewOutputImageStreamForBuilder(k)]
           q == [pass[c] EXCEPT !.pc = "list", !.request = request]
<1>1. /\ pass = [d \in Controllers |-> pass[d]] /\ PassOK(streams, c, pass[c])
      /\ pass[c].pc = "request"
  BY SMTT(30) DEF ResourcesInv, PassesOK, GetRequestedResources, At
<1>2. UNCHANGED <<apiVars, objectVars>>
  BY DEF GetRequestedResources
<1>3. CASE Fault(c)
  <2>1. QueuesOK' /\ PassesOK'
    BY <1>1, <1>2, <1>3, FaultStep, ZenonT(30) DEF objectVars
  <2> QED
    BY <1>2, <2>1, ObjectsSame, ZenonT(30)
<1>4. k \in KeysOf(c) /\ k \in Owners
  BY <1>1, KeysOfControllers, ZenonT(30) DEF PassOK, InstanceOK
<1>5. service \in ServiceStreams
  <2>1. CASE c = "build"
    <3>1. k \in Builds /\ s \in Defaulted(k)
      BY <1>1, <1>4, <2>1, KeysOfControllers, ZenonT(30) DEF PassOK, InstanceOK
    <3> QED
      BY <2>1, <3>1, ServiceOfBuild, SMTT(30)
  <2>2. CASE c = "runtime"
    <3>1. k \in Runtimes /\ s \in ImagesOf[k]
      BY <1>1, <1>4, <2>2, KeysOfControllers, ZenonT(30) DEF PassOK, InstanceOK
    <3> QED
      BY <2>2, <3>1, ServiceOfRuntime, ZenonT(30)
  <2> QED
    BY <2>1, <2>2, KeysOfControllers, ZenonT(30)
<1> HIDE DEF service
<1>6. GoodStream(shared)
  <2>1. streams[service] = None \/ GoodStream(streams[service])
    BY <1>5, NamesOfStreams, ZenonT(30) DEF ResourcesInv, StreamsOK, OwnStreams
  <2> QED
    BY <1>4, <2>1, SharedStream, ZenonT(30) DEF NewOutputImageStreamForRuntime, RequestedStream
<1> HIDE DEF shared
<1>7. own # {} => /\ own = {GetBuildBuilderName(k)} /\ GetBuildBuilderName(k) \in BuilderStreams
                  /\ GoodStream(NewOutputImageStreamForBuilder(k))
  <2>1. own # {} => own = {GetBuildBuilderName(k)} /\ k \in Builds
    BY <1>4, KeysOfControllers, ZenonT(30)
  <2>2. GoodStream(NewOutputImageStreamForBuilder(k))
    BY <1>4, ZenonT(30) DEF NewOutputImageStreamForBuilder, GoodStream, Tag
  <2> QED
    BY <2>1, <2>2, ZenonT(30) DEF BuilderStreams
<1> HIDE DEF own
<1>8. \A n \in DOMAIN request : n \in OwnStreams /\ GoodStream(request[n])
  <2> TAKE n \in DOMAIN request
  <2>1. CASE n = service
    BY <1>5, <1>6, <2>1, SMTT(30) DEF OwnStreams
  <2>2. CASE n # service
    BY <1>7, <2>2, ZenonT(30) DEF OwnStreams
  <2> QED
    BY <2>1, <2>2, ZenonT(30)
<1> HIDE DEF request
<1>9. PassOK(streams, c, q)
  <2>1. /\ q.pc = "list" /\ q.key = k /\ q.spec = s /\ q.request = request
        /\ q \in [pc : {q.pc}, key : KeysOf(c) \cup {None}, spec : {q.spec}, created : {q.created},
                  request : {q.request}, todo : {q.todo}, kind : {q.kind}]
    BY <1>1, ZenonT(30) DEF PassOK, InstanceOK
  <2> HIDE DEF q, k, s
  <2>2. InstanceOK(c, q)
    BY <1>1, <2>1, ZenonT(30) DEF PassOK, InstanceOK, k, s
  <2>3. RequestOK(q) /\ TodoOK(c, q)
    BY <1>8, <2>1, ZenonT(30) DEF RequestOK, TodoOK
  <2>4. BaseDone(streams, c, q)
    BY <1>1, <2>1, ZenonT(30) DEF PassOK, BaseDone, s
  <2> QED
    BY <2>2, <2>3, <2>4, ZenonT(30) DEF PassOK
<1>10. CASE pass' = [pass EXCEPT ![c] = q] /\ UNCHANGED queue
  <2>1. Grows(streams, streams') /\ UNCHANGED streams
    BY <1>2, ZenonT(30) DEF objectVars, Grows
  <2>2. PassesOK'
    BY <1>9, <1>10, <2>1, PassSet, ZenonT(30) DEF ResourcesInv
  <2>3. QueuesOK'
    BY <1>10, ZenonT(30) DEF ResourcesInv, QueuesOK
  <2> QED
    BY <1>2, <2>2, <2>3, ObjectsSame, ZenonT(30)
<1>11. [pass EXCEPT ![c].pc = "list", ![c].request = request] = [pass EXCEPT ![c] = q]
  BY <1>1, ZenonT(30)
<1>12. Fault(c) \/ (pass' = [pass EXCEPT ![c].pc = "list", ![c].request = request] /\ UNCHANGED queue)
  BY ZenonT(30) DEF GetRequestedResources, request, shared, service, own
<1> QED
  BY <1>3, <1>10, <1>11, <1>12, ZenonT(30)

\* No pass deploys the stream of a base image.
LEMMA DeployedOwn ==
  ASSUME ResourcesInv, NEW c \in Controllers
  PROVE  DeployedStreams(c) \subseteq OwnStreams
<1> SUFFICES ASSUME NEW n \in DeployedStreams(c), n \in BaseStreams PROVE FALSE
  BY NamesOfStreams, ZenonT(30) DEF DeployedStreams
<1>1. streams[n] # None /\ GoodBase(n, streams[n]) /\ n \notin ServiceStreams
  BY Disjoint, ZenonT(30) DEF DeployedStreams, ResourcesInv, StreamsOK, OwnStreams
<1>2. streams[n].owners = {}
  BY <1>1 DEF GoodBase, BaseStreamType
<1> QED
  BY <1>1, <1>2, ZenonT(30) DEF DeployedStreams

LEMMA DeltaStep ==
  ASSUME ResourcesInv, NEW c \in Controllers, ProcessDelta(c)
  PROVE  ResourcesInv'
<1> DEFINE p == pass[c]
           todo == StreamDeltas(c) \cup (IF c = "build" THEN BuildConfigDeltas ELSE {})
           q == [p EXCEPT !.pc = "write", !.todo = todo]
<1>1. pass = [d \in Controllers |-> pass[d]] /\ PassOK(streams, c, p) /\ p.pc = "list"
  BY ZenonT(30) DEF ResourcesInv, PassesOK, ProcessDelta, At
<1>2. UNCHANGED <<apiVars, bcs, streams>>
  BY ZenonT(30) DEF ProcessDelta
<1>3. ApiOK' /\ StreamsOK' /\ BcsOK' /\ Grows(streams, streams')
  BY <1>2, ZenonT(30) DEF ResourcesInv, ApiOK, StreamsOK, BcsOK, apiVars, Grows
<1>4. CurrentOK'
  <2>1. \/ UNCHANGED current
        \/ \E S \in SUBSET DeployedStreams(c) : current' = [current EXCEPT ![c] = S]
    BY ZenonT(30) DEF ProcessDelta
  <2>2. DeployedStreams(c) \subseteq Streams
    BY DEF DeployedStreams
  <2> QED
    BY <2>1, <2>2, ZenonT(30) DEF ResourcesInv, CurrentOK
<1>5. CASE Fault(c) \/ Finish(c, FALSE, {})
  <2>1. \E again : Finish(c, again, {})
    BY <1>5, ZenonT(30) DEF Fault
  <2>2. QueuesOK' /\ PassesOK'
    BY <1>1, <1>3, <2>1, FinishStep, ZenonT(30)
  <2> QED
    BY <1>3, <1>4, <2>2, ZenonT(30) DEF ResourcesInv
<1>6. \A w \in StreamDeltas(c) :
        w[1] = "stream" /\ w[3] \in OwnStreams /\ (w[2] # "delete" => w[3] \in DOMAIN p.request)
  <2>1. DOMAIN p.request \subseteq OwnStreams
    BY <1>1, ZenonT(30) DEF PassOK, RequestOK
  <2> QED
    BY <2>1, DeployedOwn, SMTT(30) DEF StreamDeltas
<1>7. c = "build" => \A w \in BuildConfigDeltas :
        /\ w[1] = "bc" /\ w[3] \in BuildConfigs
        /\ w[2] # "delete" => w[3] \in DOMAIN RequestedBuildConfigs(p.key, p.spec)
  <2> HAVE c = "build"
  <2> DEFINE R == DOMAIN RequestedBuildConfigs(p.key, p.spec)
  <2>1. p.key \in Builds /\ p = pass["build"]
    BY <1>1, KeysOfControllers, ZenonT(30) DEF PassOK, InstanceOK
  <2>2. R \subseteq BuildConfigs
    BY <2>1, RequestedConfig, ZenonT(30)
  <2> QED
    BY <2>1, <2>2, SMTT(30) DEF BuildConfigDeltas
<1>8. \A w \in todo : StreamWrite(p, w) \/ (c = "build" /\ BcWrite(p, w))
  BY <1>6, <1>7, ZenonT(30) DEF StreamWrite, BcWrite
<1> HIDE DEF todo
<1>9. PassOK(streams, c, q)
  <2>1. /\ q.pc = "write" /\ q.key = p.key /\ q.spec = p.spec /\ q.request = p.request /\ q.todo = todo
        /\ q \in [pc : {q.pc}, key : KeysOf(c) \cup {None}, spec : {q.spec}, created : {q.created},
                  request : {q.request}, todo : {q.todo}, kind : {q.kind}]
    BY <1>1, ZenonT(30) DEF PassOK, InstanceOK
  <2> HIDE DEF q
  <2>2. InstanceOK(c, q)
    BY <1>1, <2>1, ZenonT(30) DEF PassOK, InstanceOK
  <2>3. RequestOK(q)
    BY <1>1, <2>1, ZenonT(30) DEF PassOK, RequestOK
  <2>4. TodoOK(c, q)
    BY <1>8, <2>1, ZenonT(30) DEF TodoOK, StreamWrite, BcWrite
  <2>5. BaseDone(streams, c, q)
    BY <1>1, <2>1, ZenonT(30) DEF PassOK, BaseDone
  <2> QED
    BY <2>2, <2>3, <2>4, <2>5, ZenonT(30) DEF PassOK
<1>10. [pass EXCEPT ![c].pc = "write", ![c].todo = todo] = [pass EXCEPT ![c] = q]
  BY <1>1, ZenonT(30)
<1>11. CASE pass' = [pass EXCEPT ![c] = q] /\ UNCHANGED queue
  <2>1. PassesOK'
    BY <1>2, <1>3, <1>9, <1>11, PassSet, ZenonT(30) DEF ResourcesInv
  <2>2. QueuesOK'
    BY <1>11, ZenonT(30) DEF ResourcesInv, QueuesOK
  <2> QED
    BY <1>3, <1>4, <2>1, <2>2, ZenonT(30) DEF ResourcesInv
<1>12. \/ Fault(c) \/ Finish(c, FALSE, {})
       \/ pass' = [pass EXCEPT ![c].pc = "write", ![c].todo = todo] /\ UNCHANGED queue
  BY ZenonT(30) DEF ProcessDelta, todo
<1> QED
  BY <1>5, <1>10, <1>11, <1>12, ZenonT(30)

\* A write changes no stream of a base image, and builds only from those that
\* are there.
LEMMA ApplyStep ==
  ASSUME ResourcesInv, NEW c \in Controllers, At(c, "write"), NEW w \in pass[c].todo, Apply(c, w)
  PROVE  StreamsOK' /\ BcsOK' /\ CurrentOK' /\ Grows(streams, streams')
<1> DEFINE p == pass[c]
<1>1. PassOK(streams, c, p) /\ p.pc = "write"
  BY ZenonT(30) DEF ResourcesInv, PassesOK, At
<1>2. StreamWrite(p, w) \/ (c = "build" /\ BcWrite(p, w))
  BY <1>1, ZenonT(30) DEF PassOK, TodoOK
<1>3. CASE w[1] = "stream"
  <2> DEFINE new == IF w[2] = "delete" THEN None ELSE p.request[w[3]]
  <2>1. w[3] \in OwnStreams /\ (w[2] # "delete" => w[3] \in DOMAIN p.request)
    BY <1>2, <1>3, ZenonT(30) DEF StreamWrite, BcWrite
  <2>2. /\ streams' = [streams EXCEPT ![w[3]] = new] /\ UNCHANGED bcs
        /\ current' = [d \in Controllers |-> current[d] \ {w[3]}]
    BY <1>3, ZenonT(30) DEF Apply
  <2>3. new # None => GoodStream(new)
    BY <1>1, <2>1, ZenonT(30) DEF PassOK, RequestOK
  <2> HIDE DEF new
  <2>4. /\ streams' = [n \in Streams |-> streams'[n]]
        /\ \A n \in Streams : streams'[n] = IF n = w[3] THEN new ELSE streams[n]
    BY <2>2, ZenonT(30) DEF ResourcesInv, StreamsOK
  <2>5. \A n \in BaseStreams : streams'[n] = streams[n]
    BY <2>1, <2>4, Disjoint, NamesOfStreams, ZenonT(30)
  <2>6. StreamsOK'
    <3>1. \A n \in Streams : streams'[n] # None => GoodStream(streams'[n])
      BY <2>3, <2>4, ZenonT(30) DEF ResourcesInv, StreamsOK
    <3>2. \A n \in BaseStreams : streams'[n] # None => GoodBase(n, streams'[n])
      BY <2>5, ZenonT(30) DEF ResourcesInv, StreamsOK
    <3> QED
      BY <2>4, <3>1, <3>2, ZenonT(30) DEF StreamsOK
  <2>7. Grows(streams, streams')
    BY <2>5, ZenonT(30) DEF Grows
  <2>8. BcsOK'
    BY <2>2, <2>7, BcsGrow, ZenonT(30) DEF ResourcesInv
  <2>9. CurrentOK'
    BY <2>2, ZenonT(30) DEF ResourcesInv, CurrentOK
  <2> QED
    BY <2>6, <2>7, <2>8, <2>9, ZenonT(30)
<1>4. CASE w[1] # "stream"
  <2> DEFINE R == RequestedBuildConfigs(p.key, p.spec)
             new == IF w[2] = "delete" THEN None ELSE R[w[3]]
  <2>1. c = "build" /\ w[3] \in BuildConfigs /\ (w[2] # "delete" => w[3] \in DOMAIN R)
    BY <1>2, <1>4, ZenonT(30) DEF StreamWrite, BcWrite
  <2>2. bcs' = [bcs EXCEPT ![w[3]] = new] /\ UNCHANGED <<streams, current>>
    BY <1>4, ZenonT(30) DEF Apply
  <2>3. new # None => BcOK(streams, w[3], new)
    <3> SUFFICES ASSUME w[2] # "delete" PROVE BcOK(streams, w[3], R[w[3]])
      BY ZenonT(30)
    <3>1. p.key \in Builds /\ Based(streams, p.spec, TRUE) /\ Based(streams, p.spec, FALSE)
      BY <1>1, <2>1, KeysOfControllers, ZenonT(30) DEF PassOK, InstanceOK, BaseDone
    <3>2. /\ w[3][2] = p.key /\ R[w[3]].owners = {p.key}
          /\ \E i \in BOOLEAN : R[w[3]].base = ResolveKogitoImageStreamTagName(p.spec, i)
      BY <2>1, <3>1, RequestedConfig, SMTT(30)
    <3> HIDE DEF R
    <3>3. PICK i \in BOOLEAN : R[w[3]].base = ResolveKogitoImageStreamTagName(p.spec, i)
      BY <3>2, ZenonT(30)
    <3>4. Based(streams, p.spec, i)
      BY <3>1, ZenonT(30)
    <3>5. /\ R[w[3]].base[1] = ResolveKogitoImageStreamName(p.spec, i)
          /\ R[w[3]].base[2] = ResolveKogitoImageTag(p.spec, i)
      BY <3>3, SMTT(30) DEF ResolveKogitoImageStreamTagName
    <3>6. TagThere(streams, R[w[3]].base[1], R[w[3]].base[2])
      BY <3>4, <3>5, ZenonT(30) DEF Based
    <3> QED
      BY <3>2, <3>6, ZenonT(30) DEF BcOK
  <2> HIDE DEF new
  <2>4. BcsOK'
    BY <2>1, <2>2, <2>3, ZenonT(30) DEF ResourcesInv, BcsOK
  <2>5. StreamsOK' /\ CurrentOK' /\ Grows(streams, streams')
    BY <2>2, ZenonT(30) DEF ResourcesInv, StreamsOK, CurrentOK, Grows
  <2> QED
    BY <2>4, <2>5, ZenonT(30)
<1> QED
  BY <1>3, <1>4, ZenonT(30)

LEMMA WriteStep ==
  ASSUME ResourcesInv, NEW c \in Controllers, WriteResource(c)
  PROVE  ResourcesInv'
<1> DEFINE p == pass[c]
           q(w) == [p EXCEPT !.todo = @ \ {w}, !.kind = w[1]]
<1>1. pass = [d \in Controllers |-> pass[d]] /\ PassOK(streams, c, p) /\ p.pc = "write" /\ At(c, "write")
  BY ZenonT(30) DEF ResourcesInv, PassesOK, WriteResource, At
<1>2. ApiOK'
  BY DEF WriteResource, ResourcesInv, ApiOK, apiVars
<1>3. PICK w \in NextWrites(c) :
        \/ /\ Apply(c, w)
           /\ \/ \E again, told : Finish(c, again, told)
              \/ /\ pass' = [pass EXCEPT ![c].todo = @ \ {w}, ![c].kind = w[1]]
                 /\ queue' = [queue EXCEPT !["build"] = Queued("build", Told(w) \cap exists)]
        \/ UNCHANGED objectVars /\ \E again, told : Finish(c, again, told)
  BY ZenonT(30) DEF WriteResource, Fault
<1>4. w \in p.todo
  BY ZenonT(30) DEF NextWrites
<1>5. CASE UNCHANGED objectVars /\ \E again, told : Finish(c, again, told)
  <2>1. StreamsOK' /\ BcsOK' /\ CurrentOK' /\ Grows(streams, streams')
    BY <1>5, ZenonT(30) DEF ResourcesInv, StreamsOK, BcsOK, CurrentOK, objectVars, Grows
  <2>2. QueuesOK' /\ PassesOK'
    BY <1>1, <1>5, <2>1, FinishStep, ZenonT(30)
  <2> QED
    BY <1>2, <2>1, <2>2, ZenonT(30) DEF ResourcesInv
<1>6. ASSUME Apply(c, w)
      PROVE  StreamsOK' /\ BcsOK' /\ CurrentOK' /\ Grows(streams, streams')
  BY <1>1, <1>4, <1>6, ApplyStep, SMTT(30)
<1>7. CASE Apply(c, w) /\ \E again, told : Finish(c, again, told)
  <2>1. QueuesOK' /\ PassesOK'
    BY <1>1, <1>6, <1>7, FinishStep, ZenonT(30)
  <2> QED
    BY <1>2, <1>6, <1>7, <2>1, ZenonT(30) DEF ResourcesInv
<1>8. CASE /\ Apply(c, w)
           /\ pass' = [pass EXCEPT ![c].todo = @ \ {w}, ![c].kind = w[1]]
           /\ queue' = [queue EXCEPT !["build"] = Queued("build", Told(w) \cap exists)]
  <2>1. /\ q(w).pc = p.pc /\ q(w).key = p.key /\ q(w).spec = p.spec /\ q(w).request = p.request
        /\ q(w).todo = p.todo \ {w}
        /\ q(w) \in [pc : {q(w).pc}, key : KeysOf(c) \cup {None}, spec : {q(w).spec},
                     created : {q(w).created}, request : {q(w).request}, todo : {q(w).todo},
                     kind : {q(w).kind}]
    BY <1>1, ZenonT(30) DEF PassOK, InstanceOK
  <2>2. pass' = [pass EXCEPT ![c] = q(w)]
    BY <1>1, <1>8, ZenonT(30)
  <2> HIDE DEF q
  <2>3. PassOK(streams, c, q(w))
    <3>1. InstanceOK(c, q(w))
      BY <1>1, <2>1, ZenonT(30) DEF PassOK, InstanceOK
    <3>2. RequestOK(q(w))
      BY <1>1, <2>1, ZenonT(30) DEF PassOK, RequestOK
    <3>3. TodoOK(c, q(w))
      BY <1>1, <2>1, ZenonT(30) DEF PassOK, TodoOK, StreamWrite, BcWrite
    <3>4. BaseDone(streams, c, q(w))
      BY <1>1, <2>1, ZenonT(30) DEF PassOK, BaseDone
    <3> QED
      BY <3>1, <3>2, <3>3, <3>4, ZenonT(30) DEF PassOK
  <2>4. PassesOK'
    BY <1>6, <1>8, <2>2, <2>3, PassGrows, PassSet, ZenonT(30) DEF ResourcesInv
  <2>5. Told(w) \cap exists \in SUBSET KeysOf("build")
    <3>1. w[3] \in OwnStreams \cup BuildConfigs
      BY <1>1, <1>4, ZenonT(30) DEF PassOK, TodoOK, StreamWrite, BcWrite
    <3>2. w[3] \notin ServiceStreams => w[3][2] \in Builds
      BY <3>1 DEF OwnStreams, BuildConfigs, BuilderStreams, GetBuildBuilderName, RuntimeBuild
    <3> QED
      BY <3>2, KeysOfControllers, ZenonT(30) DEF Told
  <2>6. QueueOK("build", Queued("build", Told(w) \cap exists))
    BY <2>5, QueuedOK, KeysOfControllers, ZenonT(30) DEF ResourcesInv
  <2>7. QueuesOK'
    BY <1>8, <2>6, ZenonT(30) DEF ResourcesInv, QueuesOK
  <2> QED
    BY <1>2, <1>6, <1>8, <2>4, <2>7, ZenonT(30) DEF ResourcesInv
<1> QED
  BY <1>3, <1>5, <1>7, <1>8, ZenonT(30)

-----------------------------------------------------------------------------
(* The environment.                                                         *)

LEMMA EnqueueStep ==
  ASSUME ResourcesInv, NEW keys, Enqueue(keys)
  PROVE  QueuesOK'
<1>1. queue' = [c \in Controllers |-> Queued(c, keys \cap KeysOf(c))]
  BY DEF Enqueue
<1>2. \A c \in Controllers : QueueOK(c, Queued(c, keys \cap KeysOf(c)))
  BY QueuedOK, ZenonT(30) DEF ResourcesInv
<1>3. /\ queue' = [c \in Controllers |-> queue'[c]]
      /\ \A c \in Controllers : queue'[c] = Queued(c, keys \cap KeysOf(c))
  BY <1>1, ZenonT(30)
<1> QED
  BY <1>2, <1>3, ZenonT(30) DEF QueuesOK

LEMMA EditStep ==
  ASSUME ResourcesInv, Edit
  PROVE  ResourcesInv'
<1>1. UNCHANGED <<exists, objectVars, pass>> /\ \E keys : Enqueue(keys)
  BY ZenonT(30) DEF Edit
<1>2. ApiOK'
  BY ZenonT(30) DEF Edit, ResourcesInv, ApiOK
<1>3. StreamsOK' /\ BcsOK' /\ CurrentOK' /\ Grows(streams, streams')
  BY <1>1, ZenonT(30) DEF ResourcesInv, StreamsOK, BcsOK, CurrentOK, objectVars, Grows
<1>4. PassesOK'
  BY <1>1, <1>3, PassesSame, ZenonT(30) DEF ResourcesInv
<1>5. QueuesOK'
  BY <1>1, EnqueueStep, ZenonT(30)
<1> QED
  BY <1>2, <1>3, <1>4, <1>5, ZenonT(30) DEF ResourcesInv

LEMMA DeleteStep ==
  ASSUME ResourcesInv, Delete
  PROVE  ResourcesInv'
<1>1. UNCHANGED <<spec, image, objectVars, queue, pass>> /\ exists' \subseteq exists
  BY ZenonT(30) DEF Delete
<1>2. ApiOK'
  BY <1>1, ZenonT(30) DEF ResourcesInv, ApiOK
<1>3. StreamsOK' /\ BcsOK' /\ CurrentOK' /\ QueuesOK' /\ Grows(streams, streams')
  BY <1>1, ZenonT(30) DEF ResourcesInv, StreamsOK, BcsOK, CurrentOK, QueuesOK, objectVars, Grows
<1>4. PassesOK'
  BY <1>1, <1>3, PassesSame, ZenonT(30) DEF ResourcesInv
<1> QED
  BY <1>2, <1>3, <1>4, ZenonT(30) DEF ResourcesInv

LEMMA CollectBuildConfigStep ==
  ASSUME ResourcesInv, CollectBuildConfig
  PROVE  ResourcesInv'
<1>1. UNCHANGED <<apiVars, streams, current, queue, pass>>
  BY ZenonT(30) DEF CollectBuildConfig
<1>2. BcsOK'
  BY <1>1, ZenonT(30) DEF CollectBuildConfig, ResourcesInv, BcsOK
<1>3. ApiOK' /\ StreamsOK' /\ CurrentOK' /\ QueuesOK' /\ Grows(streams, streams')
  BY <1>1, ZenonT(30) DEF ResourcesInv, ApiOK, StreamsOK, CurrentOK, QueuesOK, apiVars, Grows
<1>4. PassesOK'
  BY <1>1, <1>3, PassesSame, ZenonT(30) DEF ResourcesInv
<1> QED
  BY <1>2, <1>3, <1>4, ZenonT(30) DEF ResourcesInv

\* The garbage collector touches only streams with owners.
LEMMA StreamSet ==
  ASSUME ResourcesInv, NEW n \in Streams, streams[n] # None, streams[n].owners # {},
         NEW new, new = None \/ GoodStream(new),
         streams' = [streams EXCEPT ![n] = new],
         current' = [c \in Controllers |-> current[c] \ {n}],
         UNCHANGED <<apiVars, bcs, queue, pass>>
  PROVE  ResourcesInv'
<1>1. n \notin BaseStreams
  <2>1. n \in BaseStreams => GoodBase(n, streams[n])
    BY ZenonT(30) DEF ResourcesInv, StreamsOK
  <2> QED
    BY <2>1, SMTT(30) DEF GoodBase, BaseStreamType
<1>2. /\ streams' = [m \in Streams |-> streams'[m]]
      /\ \A m \in Streams : streams'[m] = IF m = n THEN new ELSE streams[m]
  BY DEF ResourcesInv, StreamsOK
<1>3. \A m \in BaseStreams : streams'[m] = streams[m]
  BY <1>1, <1>2, NamesOfStreams, ZenonT(30)
<1>4. StreamsOK'
  <2>1. \A m \in Streams : streams'[m] # None => GoodStream(streams'[m])
    BY <1>2, ZenonT(30) DEF ResourcesInv, StreamsOK
  <2>2. \A m \in BaseStreams : streams'[m] # None => GoodBase(m, streams'[m])
    BY <1>3, ZenonT(30) DEF ResourcesInv, StreamsOK
  <2> QED
    BY <1>2, <2>1, <2>2, ZenonT(30) DEF StreamsOK
<1>5. Grows(streams, streams')
  BY <1>3, ZenonT(30) DEF Grows
<1>6. BcsOK' /\ PassesOK'
  BY <1>5, BcsGrow, PassesSame, ZenonT(30) DEF ResourcesInv
<1>7. ApiOK' /\ QueuesOK'
  BY ZenonT(30) DEF ResourcesInv, ApiOK, QueuesOK, apiVars
<1>8. CurrentOK'
  BY ZenonT(30) DEF ResourcesInv, CurrentOK
<1> QED
  BY <1>4, <1>6, <1>7, <1>8, ZenonT(30) DEF ResourcesInv

LEMMA CollectStreamStep ==
  ASSUME ResourcesInv, CollectStream
  PROVE  ResourcesInv'
<1>1. PICK n \in Streams :
        /\ streams[n] # None /\ streams[n].owners # {}
        /\ streams' = [streams EXCEPT ![n] = None]
        /\ current' = [c \in Controllers |-> current[c] \ {n}]
  BY ZenonT(30) DEF CollectStream
<1>2. UNCHANGED <<apiVars, bcs, queue, pass>>
  BY ZenonT(30) DEF CollectStream
<1> QED
  BY <1>1, <1>2, StreamSet, ZenonT(30)

LEMMA ReleaseStreamStep ==
  ASSUME ResourcesInv, ReleaseStream
  PROVE  ResourcesInv'
<1>1. PICK n \in Streams :
        /\ streams[n] # None /\ streams[n].owners \cap exists \notin {{}, streams[n].owners}
        /\ streams' = [streams EXCEPT ![n].owners = @ \cap exists,
                                      ![n].controller = IF @ \in exists THEN @ ELSE None]
        /\ current' = [c \in Controllers |-> current[c] \ {n}]
  BY ZenonT(30) DEF ReleaseStream
<1>2. UNCHANGED <<apiVars, bcs, queue, pass>>
  BY ZenonT(30) DEF ReleaseStream
<1> DEFINE is == streams[n]
           new == [is EXCEPT !.owners = @ \cap exists,
                             !.controller = IF @ \in exists THEN @ ELSE None]
<1>3. GoodStream(is) /\ exists \subseteq Owners /\ None \notin Owners
  BY <1>1, NamesAssumption, ZenonT(30) DEF ResourcesInv, StreamsOK, ApiOK
<1>4. streams' = [streams EXCEPT ![n] = new]
  <2>1. streams = [m \in Streams |-> streams[m]]
    BY DEF ResourcesInv, StreamsOK
  <2>2. streams' = [m \in Streams |-> IF m = n THEN new ELSE streams[m]]
    BY <1>1, <2>1, ZenonT(30)
  <2> QED
    BY <2>1, <2>2, ZenonT(30)
<1>5. is.owners # {}
  BY <1>1, ZenonT(30)
<1> HIDE DEF is
<1>6. /\ new.tags = is.tags /\ new.owners = is.owners \cap exists
      /\ new.controller = IF is.controller \in exists THEN is.controller ELSE None
      /\ new \in [tags : {new.tags}, owners : SUBSET Owners, controller : Owners \cup {None}]
  BY <1>3, ZenonT(30) DEF GoodStream
<1> HIDE DEF new
<1>7. GoodStream(new)
  BY <1>3, <1>6, ZenonT(30) DEF GoodStream
<1> QED
  BY <1>1, <1>2, <1>4, <1>5, <1>7, StreamSet, ZenonT(30) DEF is

LEMMA ResyncStep ==
  ASSUME ResourcesInv, Resync
  PROVE  ResourcesInv'
<1>1. UNCHANGED <<apiVars, objectVars, pass>> /\ Enqueue(exists)
  BY DEF Resync
<1>2. QueuesOK'
  BY <1>1, EnqueueStep, ZenonT(30)
<1>3. PassesOK'
  BY <1>1, PassesSame, ZenonT(30) DEF ResourcesInv, objectVars, Grows
<1> QED
  BY <1>1, <1>2, <1>3, ObjectsSame, ZenonT(30)

LEMMA RestartStep ==
  ASSUME ResourcesInv, Restart
  PROVE  ResourcesInv'
<1>1. /\ UNCHANGED <<apiVars, objectVars>> /\ pass' = [c \in Controllers |-> Idle]
      /\ queue' = [c \in Controllers |-> SetToSeq(exists \cap KeysOf(c))]
  BY DEF Restart
<1>2. ASSUME NEW c \in Controllers PROVE QueueOK(c, SetToSeq(exists \cap KeysOf(c)))
  <2>1. IsFiniteSet(exists \cap KeysOf(c))
    BY KeysOfControllers, FS_Subset, ZenonT(30)
  <2>2. SetToSeq(exists \cap KeysOf(c)) \in Seq(exists \cap KeysOf(c))
        /\ IsInjective(SetToSeq(exists \cap KeysOf(c)))
    BY <2>1, SeqOfSet, ZenonT(30)
  <2> DEFINE q == SetToSeq(exists \cap KeysOf(c))
  <2> HIDE DEF q
  <2>3. q \in Seq(exists \cap KeysOf(c)) => q \in Seq(KeysOf(c))
    OBVIOUS
  <2> QED
    BY <2>2, <2>3, ZenonT(30) DEF QueueOK, q
<1>3. QueuesOK'
  BY <1>1, <1>2, ZenonT(30) DEF QueuesOK
<1>4. PassesOK'
  BY <1>1, IdleOK, ZenonT(30) DEF PassesOK
<1> QED
  BY <1>1, <1>3, <1>4, ObjectsSame, ZenonT(30)

-----------------------------------------------------------------------------
(* The theorems.                                                            *)

LEMMA ResourcesInit ==
  Init => ResourcesInv
<1> SUFFICES ASSUME Init PROVE ResourcesInv
  OBVIOUS
<1>1. ApiOK
  <2>1. exists \subseteq Owners
    BY ZenonT(30) DEF Init
  <2>2. spec = [b \in Builds |-> spec[b]] /\ \A b \in Builds : spec[b] \in SpecsOf[b]
    BY ZenonT(30) DEF Init
  <2>3. image = [r \in Runtimes |-> image[r]] /\ \A r \in Runtimes : image[r] \in ImagesOf[r]
    BY ZenonT(30) DEF Init
  <2> QED
    BY <2>1, <2>2, <2>3, ZenonT(30) DEF ApiOK
<1>2. StreamsOK
  BY NamesOfStreams, ZenonT(30) DEF Init, StreamsOK
<1>3. BcsOK
  BY ZenonT(30) DEF Init, BcsOK
<1>4. QueuesOK
  <2> DEFINE Qs == UNION {SetToSeqs(KeysOf(c)) : c \in Controllers}
  <2>1. queue \in [Controllers -> Qs] /\ \A c \in Controllers : ToSet(queue[c]) = KeysOf(c)
    BY DEF Init
  <2>2. ASSUME NEW c \in Controllers PROVE QueueOK(c, queue[c])
    <3>1. PICK d \in Controllers : queue[c] \in SetToSeqs(KeysOf(d))
      BY <2>1, ZenonT(30)
    <3> DEFINE q == queue[c]
               N == Cardinality(KeysOf(d))
    <3>2. N \in Nat
      BY KeysOfControllers, FS_CardinalityType, SMTT(30)
    <3>3. q \in [1 .. N -> KeysOf(d)] /\ \A i, j \in 1 .. N : i # j => q[i] # q[j]
      BY <3>1, ZenonT(30) DEF SetToSeqs
    <3>4. ToSet(q) = KeysOf(c)
      BY <2>1, ZenonT(30)
    <3> HIDE DEF q, N
    <3>5. \A i \in 1 .. N : q[i] \in KeysOf(c)
      BY <3>3, <3>4, ZenonT(30) DEF ToSet
    <3>6. q \in [1 .. N -> KeysOf(c)]
      BY <3>3, <3>5, SMTT(30)
    <3>7. q \in Seq(KeysOf(c)) /\ IsInjective(q)
      BY <3>2, <3>3, <3>6, SMTT(30) DEF IsInjective
    <3> QED
      BY <3>7, ZenonT(30) DEF QueueOK, q
  <2> QED
    BY <2>1, <2>2, ZenonT(30) DEF QueuesOK
<1>5. PassesOK
  BY IdleOK, ZenonT(30) DEF Init, PassesOK
<1>6. CurrentOK
  BY DEF Init, CurrentOK
<1> QED
  BY <1>1, <1>2, <1>3, <1>4, <1>5, <1>6, ZenonT(30) DEF ResourcesInv

LEMMA ResourcesNext ==
  ResourcesInv /\ [Next]_vars => ResourcesInv'
<1> SUFFICES ASSUME ResourcesInv, [Next]_vars PROVE ResourcesInv'
  BY ZenonT(30)
<1>1. ASSUME NEW c \in Controllers, Reconcile(c) PROVE ResourcesInv'
  BY <1>1, FetchInstanceStep, CreateStreamsStep, RequestStep, DeltaStep, WriteStep, ZenonT(30) DEF Reconcile
<1>2. CASE UNCHANGED vars
  <2>1. UNCHANGED <<apiVars, objectVars, queue, pass>>
    BY <1>2, ZenonT(30) DEF vars
  <2>2. QueuesOK'
    BY <2>1, ZenonT(30) DEF ResourcesInv, QueuesOK
  <2>3. PassesOK'
    BY <2>1, PassesSame, ZenonT(30) DEF ResourcesInv, objectVars, Grows
  <2> QED
    BY <2>1, <2>2, <2>3, ObjectsSame, ZenonT(30)
<1> QED
  BY <1>1, <1>2, EditStep, DeleteStep, CollectBuildConfigStep, CollectStreamStep,
     ReleaseStreamStep, ResyncStep, RestartStep, ZenonT(30) DEF Next

\* The inductive invariant holds in every reachable state: among the rest,
\* the streams of base images have no owners, passes write only objects of
\* their own, and a pass that writes has the tags it builds from.
THEOREM Invariance == Spec => []ResourcesInv
BY ResourcesInit, ResourcesNext, PTL DEF Spec

\* The variables keep their types; a stream has one tag of a name, a request
\* is in a queue once, and a BuildConfig belongs to the KogitoBuild whose name
\* it carries (imagestream_reconciler.go, build_config.go).
THEOREM TypeCorrect == Spec => []TypeOK
<1>1. ResourcesInv => TypeOK
  <2> SUFFICES ASSUME ResourcesInv PROVE TypeOK
    OBVIOUS
  <2>1. /\ exists \subseteq Owners /\ \A b \in Builds : spec[b] \in SpecsOf[b]
        /\ \A r \in Runtimes : image[r] \in ImagesOf[r]
    BY ZenonT(30) DEF ResourcesInv, ApiOK
  <2>2. \A n \in BuildConfigs : bcs[n] # None => n[2] \in bcs[n].owners
    BY ZenonT(30) DEF ResourcesInv, BcsOK, BcOK
  <2>3. \A n \in Streams : streams[n] # None =>
          /\ streams[n].owners \subseteq Owners
          /\ streams[n].controller \in streams[n].owners \cup {None}
          /\ \A t, u \in streams[n].tags : t.name = u.name => t = u
    BY ZenonT(30) DEF ResourcesInv, StreamsOK, GoodStream
  <2>4. ASSUME NEW c \in Controllers
        PROVE  /\ ToSet(queue[c]) \subseteq KeysOf(c) /\ IsInjective(queue[c])
               /\ current[c] \subseteq Streams
               /\ pass[c].key \in KeysOf(c) \cup {None}
               /\ DOMAIN pass[c].request \subseteq Streams
    <3>1. queue[c] \in Seq(KeysOf(c)) /\ IsInjective(queue[c])
      BY ZenonT(30) DEF ResourcesInv, QueuesOK, QueueOK
    <3>2. ToSet(queue[c]) \subseteq KeysOf(c)
      BY <3>1, SMTT(30) DEF ToSet
    <3>3. current[c] \subseteq Streams
      BY ZenonT(30) DEF ResourcesInv, CurrentOK
    <3>4. PassOK(streams, c, pass[c])
      BY ZenonT(30) DEF ResourcesInv, PassesOK
    <3>5. pass[c].key \in KeysOf(c) \cup {None} /\ DOMAIN pass[c].request \subseteq Streams
      BY <3>4, NamesOfStreams, ZenonT(30) DEF PassOK, InstanceOK, RequestOK
    <3> QED
      BY <3>1, <3>2, <3>3, <3>5, ZenonT(30)
  <2> QED
    BY <2>1, <2>2, <2>3, <2>4, ZenonT(30) DEF TypeOK
<1> QED
  BY <1>1, Invariance, PTL

\* Every BuildConfig builds from a tag that is there, of the image that its
\* KogitoBuild asks for, however passes of KogitoBuilds that share the streams,
\* deletions, faults and restarts interleave (image_stream.go,
\* createRequiredKogitoImageStreamTag; source_build_manager.go).
THEOREM BaseImagesExist == Spec => []BaseImageExists
<1>1. ResourcesInv => BaseImageExists
  <2> SUFFICES ASSUME ResourcesInv, NEW n \in BuildConfigs, bcs[n] # None
               PROVE  LET base == bcs[n].base
                      IN  /\ streams[base[1]] # None
                          /\ \E t \in streams[base[1]].tags :
                               t.name = base[2] /\ t.from[2] = base[1][2] /\ t.from[3] = base[2]
    BY ZenonT(30) DEF BaseImageExists
  <2> DEFINE base == bcs[n].base
  <2>1. TagThere(streams, base[1], base[2])
    BY ZenonT(30) DEF ResourcesInv, BcsOK, BcOK
  <2>2. GoodBase(base[1], streams[base[1]])
    BY <2>1 DEF TagThere, ResourcesInv, StreamsOK
  <2> QED
    BY <2>1, <2>2, SMTT(30) DEF TagThere, GoodBase
<1> QED
  BY <1>1, Invariance, PTL
=============================================================================
