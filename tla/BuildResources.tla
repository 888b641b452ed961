--------------------------- MODULE BuildResources ---------------------------
(***************************************************************************)
(* What the KogitoBuilds of a namespace make of their specs: the           *)
(* ImageStreams of the Kogito base images, which all of them share, the    *)
(* BuildConfigs and the builder ImageStream of each, and the ImageStream   *)
(* of a service, which several KogitoBuilds write to and a KogitoRuntime   *)
(* deploys from.  The last is owned by all of them, and two controllers    *)
(* write it: that of the KogitoBuilds and that of the KogitoRuntimes.      *)
(*                                                                         *)
(* KogitoBuild follows one KogitoBuild through its builds, with a cache    *)
(* that lags; here several meet, and what is modelled is the content of    *)
(* the objects, their names and their owners.                              *)
(*                                                                         *)
(* Objects are named by tuples, so that names of different origin differ:  *)
(* a KogitoBuild or a service that is called like a base image, or like a  *)
(* KogitoBuild with the suffix -builder, is left out.                      *)
(***************************************************************************)
EXTENDS Naturals, FiniteSets, Sequences, SequencesExt, TLC

CONSTANTS
  Builds,       \* the KogitoBuilds
  Runtimes,     \* the KogitoRuntimes; what KogitoBuilds may target
  SpecsOf,      \* for each KogitoBuild, the specs a user may give it
  ImagesOf,     \* for each KogitoRuntime, the images a user may give it
  Version,      \* the version of the operator, as the sequence of its numbers
  Registry,     \* IMAGE_REGISTRY, or its default
  Labels,       \* what the operator adds to the labels of a BuildConfig
  None,         \* an attribute that is not set; an object that does not exist
  MaxEdits,     \* bound: edits of specs
  MaxDeletes,   \* bound: deletions of KogitoBuilds and KogitoRuntimes
  MaxReleases,  \* bound: references to deleted owners the garbage collector removes
  MaxFaults,    \* bound: failing API calls
  MaxCrashes    \* bound: restarts of the operator

Owners == Builds \cup Runtimes
SourceTypes == {"RemoteSource", "LocalSource"}

\* An image as a user writes it: the registry, the name and the tag, which is
\* a sequence of words or numbers; any of them may be missing.
Latest == <<"latest">>
Unset == [domain |-> None, name |-> None, tag |-> None]

\* Parts of a spec: where the source is, what the project generated from a local
\* source is called, and the web hooks of a repository.
GitSource(uri, reference, contextDir) ==
  [uri |-> uri, reference |-> reference, contextDir |-> contextDir]
Artifact(groupID, artifactID, version) ==
  [groupID |-> groupID, artifactID |-> artifactID, version |-> version]
WebHookSecret(type, secret) == [type |-> type, secret |-> secret]

\* The attributes of a KogitoBuild, None where the user set none.
Fields == {"type", "git", "hooks", "runtime", "native", "buildImage",
           "runtimeImage", "target", "env", "limits", "mirror", "artifact",
           "incremental", "downloads"}

ASSUME NamesAssumption == Builds \cap Runtimes = {} /\ None \notin Owners
ASSUME FiniteAssumption == IsFiniteSet(Builds) /\ IsFiniteSet(Runtimes)
ASSUME SpecsAssumption ==
  \A b \in Builds : \A s \in SpecsOf[b] :
    /\ DOMAIN s = Fields
    /\ s.type \in SourceTypes \cup {"Binary"} /\ s.target \in Runtimes \cup {None}
ASSUME ImagesAssumption ==
  \A r \in Runtimes : \A i \in ImagesOf[r] :
    DOMAIN i = {"domain", "name", "tag"} /\ (i # Unset => i.name # None)
ASSUME BuildBoundsAssumption ==
  /\ MaxEdits \in Nat /\ MaxDeletes \in Nat /\ MaxReleases \in Nat
  /\ MaxFaults \in Nat /\ MaxCrashes \in Nat

-----------------------------------------------------------------------------
(***************************************************************************)
(* Names of images, streams and BuildConfigs.                              *)
(***************************************************************************)

\* SplitImageTag: an image without a tag is the latest; no image has nothing.
ConvertImageTagToImage(i) ==
  IF i # Unset /\ i.tag = None THEN [i EXCEPT !.tag = Latest] ELSE i

\* The first two numbers of the version of the operator.
GetKogitoImageVersion(v) ==
  IF v = << >> THEN Latest ELSE SubSeq(v, 1, IF Len(v) <= 2 THEN Len(v) ELSE 2)

\* The base images Kogito distributes, unless the environment names others.
GetDefaultImage(type) ==
  [builder |-> "kogito-s2i-builder", jvm |-> "kogito-runtime-jvm",
   native |-> "kogito-runtime-native"][type]

GetKogitoImageType(isBuilder, native) ==
  IF isBuilder THEN "builder" ELSE IF native THEN "native" ELSE "jvm"

\* The image that the spec gives for this purpose, if any.
Given(s, isBuilder) ==
  ConvertImageTagToImage(IF isBuilder THEN s.buildImage ELSE s.runtimeImage)

ResolveKogitoImageTag(s, isBuilder) ==
  IF Given(s, isBuilder).tag # None THEN Given(s, isBuilder).tag
                                    ELSE GetKogitoImageVersion(Version)

ResolveKogitoImageName(s, isBuilder) ==
  IF Given(s, isBuilder).name # None
    THEN Given(s, isBuilder).name
    ELSE GetDefaultImage(GetKogitoImageType(isBuilder, s.native))

ResolveKogitoImageRegistryNamespace(s, isBuilder) ==
  IF Given(s, isBuilder).domain # None THEN Given(s, isBuilder).domain ELSE Registry

\* A custom image has a stream of its own, after its name and not its registry.
ResolveKogitoImageStreamName(s, isBuilder) ==
  <<IF Given(s, isBuilder).name # None THEN "custom" ELSE "kogito",
    ResolveKogitoImageName(s, isBuilder)>>

ResolveKogitoImageStreamTagName(s, isBuilder) ==
  <<ResolveKogitoImageStreamName(s, isBuilder), ResolveKogitoImageTag(s, isBuilder)>>

GetApplicationName(b, s) == IF s.target = None THEN b ELSE s.target
GetBuildBuilderName(b) == <<"builder", b>>

\* The stream of a service, and the tag both controllers use.
Service(a) == <<"service", a>>
ServiceNames ==
  (Owners \cup {i.name : i \in UNION {ImagesOf[r] : r \in Runtimes}}) \ {None}
ServiceStreams == {Service(a) : a \in ServiceNames}
BuilderStreams == {GetBuildBuilderName(b) : b \in Builds}
BaseStreams ==
  UNION {{ResolveKogitoImageStreamName(s, isBuilder) : s \in SpecsOf[b], isBuilder \in BOOLEAN}
           : b \in Builds}
Streams == ServiceStreams \cup BuilderStreams \cup BaseStreams

\* The BuildConfigs: the builder, and the one that makes the final image.
RuntimeBuild(b) == <<"runtime", b>>
BuildConfigs == BuilderStreams \cup {RuntimeBuild(b) : b \in Builds}

-----------------------------------------------------------------------------
(***************************************************************************)
(* The objects a spec asks for.                                            *)
(***************************************************************************)

\* Environment variables are pairs of a name and a value.
EnvOverride(env, name, value) == {v \in env : v[1] # name} \cup {<<name, value>>}
SetIf(env, name, value) == IF value = None THEN env ELSE EnvOverride(env, name, value)

\* What Reconcile and setDefaults fill in before anything else is done.
SetDefaults(b, s) ==
  LET runtime == IF s.runtime = None THEN "quarkus" ELSE s.runtime
  IN [s EXCEPT !.runtime = runtime,
               !.env = EnvOverride(@, "RUNTIME_TYPE", runtime),
               !.target = GetApplicationName(b, s)]

\* A type is required by the API; a remote source needs its repository.
SanityCheck(s) == s.type = "RemoteSource" => s.git.uri # None

\* The image change that triggers a build.
ImageChange(from) == <<"ImageChange", from>>

\* Mutant: the service that is built owns it as well.
BuildConfigOfService(b, s) ==
  [owners |-> {b, s.target} \cap Owners, labels |-> <<s.type, s.target, Labels>>,
   resources |-> s.limits, source |-> None, triggers |-> {}, base |-> None, env |-> {},
   incremental |-> None, output |-> None]

\* newBuildConfig, to be filled in by the decorators.
NewBuildConfig(b, s) ==
  [owners |-> {b}, labels |-> <<s.type, s.target, Labels>>, resources |-> s.limits,
   source |-> None, triggers |-> {}, base |-> None, env |-> {},
   incremental |-> None, output |-> None]

DecoratorForSourceBuilder(b, s, bc) ==
  LET base == ResolveKogitoImageStreamTagName(s, TRUE)
      native == IF s.runtime = "quarkus" THEN s.native ELSE None
      limited == EnvOverride(SetIf(s.env, "NATIVE", native), "LIMITS", bc.resources)
      env == SetIf(SetIf(limited, "MAVEN_MIRROR_URL", s.mirror),
                   "MAVEN_DOWNLOAD_OUTPUT", s.downloads)
  IN [bc EXCEPT !.base = base, !.output = <<GetBuildBuilderName(b), Latest>>,
                !.triggers = {ImageChange(base)}, !.env = env,
                !.incremental = s.incremental]

\* Each web hook is a trigger.
DecoratorForRemoteSourceBuilder(s, bc) ==
  [bc EXCEPT !.source = <<"Git", s.git>>,
             !.triggers = @ \cup
               {<<IF h.type = "GitHub" THEN "GitHubWebHook" ELSE "GenericWebHook", h.secret>> :
                  h \in s.hooks}]

\* The source is uploaded: no image change starts a build.  The variables of the
\* artifact come after those of the user and replace none.
DecoratorForLocalSourceBuilder(s, bc) ==
  LET artifact == SetIf(SetIf(SetIf({}, "PROJECT_GROUP_ID", s.artifact.groupID),
                              "PROJECT_ARTIFACT_ID", s.artifact.artifactID),
                        "PROJECT_VERSION", s.artifact.version)
  IN [bc EXCEPT !.source = <<"Binary">>, !.triggers = {}, !.env = @ \cup artifact]

DecoratorForRuntimeBuilder(b, s, bc) ==
  [bc EXCEPT !.base = ResolveKogitoImageStreamTagName(s, FALSE), !.env = s.env,
             !.output = <<Service(s.target), Latest>>]

\* The output of the builder is the source of the final image.
DecoratorForSourceRuntimeBuilder(b, bc) ==
  LET from == <<GetBuildBuilderName(b), Latest>>
  IN [bc EXCEPT !.source = <<"Image", from>>, !.triggers = {ImageChange(from)}]

DecoratorForBinaryRuntimeBuilder(bc) ==
  [bc EXCEPT !.source = <<"Binary">>, !.triggers = {},
             !.env = @ \cup {<<"BINARY_BUILD", TRUE>>}]

\* The BuildConfigs that a KogitoBuild asks for, None where it asks for none.
SourceBuildConfigs(b, s) ==
  LET new == NewBuildConfig(b, s)
      builder == DecoratorForSourceBuilder(b, s, new)
      runtime == DecoratorForRuntimeBuilder(b, s, new)
  IN [n \in {GetBuildBuilderName(b), RuntimeBuild(b)} |->
        IF n = RuntimeBuild(b) THEN DecoratorForSourceRuntimeBuilder(b, runtime)
        ELSE IF s.type = "LocalSource" THEN DecoratorForLocalSourceBuilder(s, builder)
        ELSE DecoratorForRemoteSourceBuilder(s, builder)]
BinaryBuildConfigs(b, s) ==
  [n \in {RuntimeBuild(b)} |->
     DecoratorForBinaryRuntimeBuilder(DecoratorForRuntimeBuilder(b, s, NewBuildConfig(b, s)))]
RequestedBuildConfigs(b, s) ==
  IF s.type \in SourceTypes THEN SourceBuildConfigs(b, s) ELSE BinaryBuildConfigs(b, s)

\* An ImageStream: its tags, each with the image it is imported from if any,
\* and its owners, one of which may be its controller.
Tag(name, from) == [name |-> name, from |-> from]
HasTag(is, name) == \E t \in is.tags : t.name = name

\* newKogitoImageStream: a base image, owned by nobody.
NewKogitoImageStream(s, isBuilder) ==
  LET tag == ResolveKogitoImageTag(s, isBuilder)
      from == <<ResolveKogitoImageRegistryNamespace(s, isBuilder),
                ResolveKogitoImageName(s, isBuilder), tag>>
  IN [tags |-> {Tag(tag, from)}, owners |-> {}, controller |-> None]

\* An absent stream is not taken for one of base images.
BaseStreamType ==
  [tags : SUBSET UNION {UNION {NewKogitoImageStream(s, isBuilder).tags :
                                 s \in SpecsOf[b], isBuilder \in BOOLEAN} : b \in Builds},
   owners : {{}}, controller : {None}]
ASSUME NoneAssumption == None \notin BaseStreamType

\* The stream that the builder writes to is controlled by its KogitoBuild.
NewOutputImageStreamForBuilder(b) ==
  [tags |-> {Tag(Latest, None)}, owners |-> {b}, controller |-> b]

\* CreateImageStreamIfNotExists: the stream as it is, if it is there, with the
\* tag added to it unless it has one of that name.
CreateImageStreamIfNotExists(is, tag, from) ==
  LET found == IF is = None THEN [tags |-> {}, owners |-> {}, controller |-> None] ELSE is
  IN IF HasTag(found, tag) THEN found ELSE [found EXCEPT !.tags = @ \cup {Tag(tag, from)}]

AddOwnerReference(is, owner) == [is EXCEPT !.owners = @ \cup {owner}]

\* newOutputImageStreamForRuntime: the stream of the service, shared.
NewOutputImageStreamForRuntime(b, is) ==
  AddOwnerReference(CreateImageStreamIfNotExists(is, Latest, None), b)

\* The image of a KogitoRuntime: its stream, the tag and where it comes from.
\* Without an image, the one that is built in the cluster.
ResolveTag(i) == IF i.tag = None THEN GetKogitoImageVersion(Version) ELSE i.tag
ResolveRegistryImage(i) ==
  <<IF i.domain = None THEN Registry ELSE i.domain, i.name, ResolveTag(i)>>
ResolveImage(r, given) ==
  LET i == ConvertImageTagToImage(given)
  IN IF given = Unset THEN [stream |-> Service(r), tag |-> Latest, from |-> None]
     ELSE [stream |-> Service(i.name), tag |-> ResolveTag(i), from |-> ResolveRegistryImage(i)]
RequestedStream(r, given, is) ==
  LET i == ResolveImage(r, given)
  IN AddOwnerReference(CreateImageStreamIfNotExists(is, i.tag, i.from), r)

\* The comparators.  Triggers that were not asked for are not compared: OpenShift
\* adds some.  Of a stream, the tags and the owners are.
SameBuildConfig(deployed, requested) ==
  LET seen == IF requested.triggers = {} THEN [deployed EXCEPT !.triggers = {}] ELSE deployed
  IN seen = requested
SameImageStream(deployed, requested) ==
  deployed.tags = requested.tags /\ deployed.owners = requested.owners

-----------------------------------------------------------------------------
(***************************************************************************)
(* The state.                                                              *)
(***************************************************************************)

VARIABLES
  exists,     \* the KogitoBuilds and KogitoRuntimes in the API server,
  spec,       \*   the specs of the KogitoBuilds,
  image,      \*   and the images of the KogitoRuntimes
  bcs,        \* the BuildConfigs
  streams,    \* the ImageStreams
  queue,      \* the requests waiting for each of the two controllers, in order
  pass,       \* their passes
  current,    \* for each, the streams to update whose listed version is the latest
  used        \* how much of each bound was used

apiVars == <<exists, spec, image>>
objectVars == <<bcs, streams, current>>
vars == <<apiVars, objectVars, queue, pass, used>>

Controllers == {"build", "runtime"}
KeysOf(c) == IF c = "build" THEN Builds ELSE Runtimes

\* A pass: what it is for, the copy of the instance, the streams it asks for,
\* and the writes that are left.  A write is <<kind, operation, name>>.
Idle == [pc |-> "idle", key |-> None, spec |-> None, created |-> FALSE,
         request |-> << >>, todo |-> {}, kind |-> None]

Init ==
  /\ exists = Owners
  /\ spec \in {f \in [Builds -> UNION {SpecsOf[b] : b \in Builds}] :
                 \A b \in Builds : f[b] \in SpecsOf[b]}
  /\ image \in {f \in [Runtimes -> UNION {ImagesOf[r] : r \in Runtimes}] :
                  \A r \in Runtimes : f[r] \in ImagesOf[r]}
  /\ bcs = [n \in BuildConfigs |-> None]
  /\ streams = [n \in Streams |-> None]
  /\ queue \in {q \in [Controllers -> UNION {SetToSeqs(KeysOf(c)) : c \in Controllers}] :
                 \A c \in Controllers : ToSet(q[c]) = KeysOf(c)}
  /\ pass = [c \in Controllers |-> Idle]
  /\ current = [c \in Controllers |-> {}]
  /\ used \in [edits : {0, MaxEdits}, deletes : {0, MaxDeletes}, releases : {0},
               faults : {0, MaxFaults}, crashes : {0, MaxCrashes}]

Use(what, max) ==
  /\ used[what] < max
  /\ used' = [used EXCEPT ![what] = @ + 1]

-----------------------------------------------------------------------------
(***************************************************************************)
(* The passes.  Of the pass of a KogitoRuntime only ReconcileImageStream   *)
(* is here; KogitoService has the rest.                                    *)
(***************************************************************************)

At(c, pc) == pass[c].pc = pc

\* The work queue, in which a request is once.
Queued(c, keys) == queue[c] \o SetToSeq(keys \ ToSet(queue[c]))

\* The pass ends, with an error or a result that brings the request back or
\* without; the controllers of written objects are told.
Finish(c, again, told) ==
  /\ pass' = [pass EXCEPT ![c] = Idle]
  /\ queue' = [d \in Controllers |->
       Queued(d, (IF d = c /\ again THEN {pass[c].key} ELSE {})
                 \cup (told \cap KeysOf(d) \cap exists))]

Fault(c) == Use("faults", MaxFaults) /\ Finish(c, TRUE, {})

\* A request is taken and the instance read, with its defaults.
FetchInstance(c) ==
  /\ At(c, "idle")
  /\ queue[c] # << >>
  /\ queue' = [queue EXCEPT ![c] = Tail(@)]
  /\ LET k == Head(queue[c])
     IN IF k \notin exists THEN UNCHANGED pass
        ELSE pass' = [pass EXCEPT ![c] =
               IF c = "build"
                 THEN [Idle EXCEPT !.pc = "builderBase", !.key = k,
                                   !.spec = SetDefaults(k, spec[k])]
                 ELSE [Idle EXCEPT !.pc = "request", !.key = k, !.spec = image[k]]]
  /\ UNCHANGED <<apiVars, objectVars, used>>

\* Mutants: the tags of a stream that is there are not looked at; a tag is added
\* each time.
MissingStream(s, isBuilder) == streams[ResolveKogitoImageStreamName(s, isBuilder)] = None
AlwaysMissing(s, isBuilder) == TRUE

\* createRequiredKogitoImageStreamTag: the stream is created, or the tag is
\* added to it, unless it is there.
MissingTag(s, isBuilder) ==
  LET is == streams[ResolveKogitoImageStreamName(s, isBuilder)]
  IN IF is = None THEN TRUE ELSE ~HasTag(is, ResolveKogitoImageTag(s, isBuilder))
CreateRequiredKogitoImageStreamTag(s, isBuilder) ==
  LET n == ResolveKogitoImageStreamName(s, isBuilder)
      is == streams[n]
      required == NewKogitoImageStream(s, isBuilder)
  IN streams' = [streams EXCEPT ![n] =
       IF ~MissingTag(s, isBuilder) THEN is
       ELSE IF is = None THEN required
       ELSE [is EXCEPT !.tags = is.tags \cup required.tags]]

\* First the builder's, then the runtime's.  When a tag was created the pass
\* ends, to come back in 10 seconds; a spec that fails the check ends it with
\* an error.
CreateRequiredKogitoImageStreams ==
  LET s == pass["build"].spec
      isBuilder == At("build", "builderBase")
      created == pass["build"].created \/ MissingTag(s, isBuilder)
  IN /\ At("build", "builderBase") \/ At("build", "runtimeBase")
     /\ \/ /\ CreateRequiredKogitoImageStreamTag(s, isBuilder)
           /\ IF ~isBuilder /\ (created \/ ~SanityCheck(s)) THEN Finish("build", TRUE, {})
              ELSE /\ pass' = [pass EXCEPT !["build"].created = created,
                        !["build"].pc = IF isBuilder THEN "runtimeBase" ELSE "request"]
                   /\ UNCHANGED queue
           /\ UNCHANGED used
        \/ Fault("build") /\ UNCHANGED streams
     /\ UNCHANGED <<apiVars, bcs, current>>

\* The streams that the instance asks for.  The one of the service is made
\* from what is there now.
GetRequestedResources(c) ==
  LET k == pass[c].key
      s == pass[c].spec
      service == IF c = "build" THEN Service(s.target) ELSE ResolveImage(k, s).stream
      shared == IF c = "build" THEN NewOutputImageStreamForRuntime(k, streams[service])
                ELSE RequestedStream(k, s, streams[service])
      own == IF c = "build" /\ s.type \in SourceTypes THEN {GetBuildBuilderName(k)} ELSE {}
  IN /\ At(c, "request")
     /\ \/ /\ pass' = [pass EXCEPT ![c].pc = "list", ![c].request =
                [n \in {service} \cup own |->
                   IF n = service THEN shared ELSE NewOutputImageStreamForBuilder(k)]]
           /\ UNCHANGED <<queue, used>>
        \/ Fault(c)
     /\ UNCHANGED <<apiVars, objectVars>>

\* Mutant: a stream that has other owners only is not looked for.
DeployedOwnedStreams(c) ==
  {n \in Streams : streams[n] # None /\ pass[c].key \in streams[n].owners}

\* The streams the instance owns, with others or alone, and the one it is
\* about to share.
DeployedStreams(c) ==
  {n \in Streams : /\ streams[n] # None
                   /\ \/ pass[c].key \in streams[n].owners
                      \/ n \in DOMAIN pass[c].request \cap ServiceStreams}

\* What is to be written: <<kind, operation, name>>.
StreamDeltas(c) ==
  LET request == pass[c].request
      deployed == DeployedStreams(c)
  IN {<<"stream", "create", n>> : n \in DOMAIN request \ deployed}
     \cup {<<"stream", "update", n>> :
              n \in {m \in DOMAIN request \cap deployed : ~SameImageStream(streams[m], request[m])}}
     \cup {<<"stream", "delete", n>> : n \in deployed \ DOMAIN request}
BuildConfigDeltas ==
  LET b == pass["build"].key
      request == RequestedBuildConfigs(b, pass["build"].spec)
      deployed == {n \in BuildConfigs : bcs[n] # None /\ b \in bcs[n].owners}
  IN {<<"bc", "create", n>> : n \in DOMAIN request \ deployed}
     \cup {<<"bc", "update", n>> :
              n \in {m \in DOMAIN request \cap deployed : ~SameBuildConfig(bcs[m], request[m])}}
     \cup {<<"bc", "delete", n>> : n \in deployed \ DOMAIN request}

\* What is deployed is listed and compared with what was requested.
ProcessDelta(c) ==
  LET todo == StreamDeltas(c) \cup (IF c = "build" THEN BuildConfigDeltas ELSE {})
  IN /\ At(c, "list")
     /\ \/ /\ todo # {}
           /\ pass' = [pass EXCEPT ![c].pc = "write", ![c].todo = todo]
           /\ current' = [current EXCEPT ![c] =
                {n \in DeployedStreams(c) : <<"stream", "update", n>> \in todo}]
           /\ UNCHANGED <<queue, used>>
        \/ todo = {} /\ Finish(c, FALSE, {}) /\ UNCHANGED <<current, used>>
        \/ Fault(c) /\ UNCHANGED current
     /\ UNCHANGED <<apiVars, bcs, streams>>

\* The writes of one kind come in this order, and one kind after the other,
\* in any order.
Rank(op) == [create |-> 1, update |-> 2, delete |-> 3][op]
NextWrites(c) ==
  LET todo == pass[c].todo
      begun == {w \in todo : w[1] = pass[c].kind}
      open == IF begun = {} THEN todo ELSE begun
  IN {w \in open : \A v \in open : v[1] = w[1] => Rank(w[2]) <= Rank(v[2])}

\* A write is accepted when the object is there, or not, as the list said; an
\* update of a stream must carry the version the stream has now.
Accepted(c, w) ==
  LET there == IF w[1] = "stream" THEN streams[w[3]] # None ELSE bcs[w[3]] # None
  IN CASE w[2] = "create" -> ~there
       [] w[2] = "update" -> there /\ (w[1] = "stream" => w[3] \in current[c])
       [] w[2] = "delete" -> there

\* One write.  The update carries the copy that was requested, with the
\* version that was listed.
Apply(c, w) ==
  /\ IF w[1] = "stream"
       THEN /\ streams' = [streams EXCEPT ![w[3]] =
                 IF w[2] = "delete" THEN None ELSE pass[c].request[w[3]]]
            /\ current' = [d \in Controllers |-> current[d] \ {w[3]}]
            /\ UNCHANGED bcs
       ELSE /\ bcs' = [bcs EXCEPT ![w[3]] =
                 IF w[2] = "delete" THEN None
                 ELSE RequestedBuildConfigs(pass[c].key, pass[c].spec)[w[3]]]
            /\ UNCHANGED <<streams, current>>

\* BuildConfigs and builder streams are watched; the stream of a service has
\* no controller, and nobody is told.
Told(w) == IF w[3] \in ServiceStreams THEN {} ELSE {w[3][2]}

\* CreateResources, UpdateResources, DeleteResources.  A pass of a KogitoRuntime
\* that wrote comes back.  A reply may be lost; the build that a changed builder
\* BuildConfig starts may fail, which ends the pass as well.
WriteResource(c) ==
  /\ At(c, "write")
  /\ \E w \in NextWrites(c) :
       \/ /\ Accepted(c, w)
          /\ Apply(c, w)
          /\ \/ /\ pass[c].todo = {w}
                /\ Finish(c, c = "runtime", Told(w))
                /\ UNCHANGED used
             \/ /\ pass[c].todo # {w}
                /\ pass' = [pass EXCEPT ![c].todo = @ \ {w}, ![c].kind = w[1]]
                /\ queue' = [queue EXCEPT !["build"] = Queued("build", Told(w) \cap exists)]
                /\ UNCHANGED used
             \/ Use("faults", MaxFaults) /\ Finish(c, TRUE, Told(w))
       \/ /\ ~Accepted(c, w)
          /\ Finish(c, TRUE, {})
          /\ UNCHANGED <<objectVars, used>>
       \/ Fault(c) /\ UNCHANGED objectVars
  /\ UNCHANGED apiVars

-----------------------------------------------------------------------------
(***************************************************************************)
(* The users, the garbage collector and the operator's process.            *)
(***************************************************************************)

Enqueue(keys) == queue' = [c \in Controllers |-> Queued(c, keys \cap KeysOf(c))]

Edit ==
  /\ Use("edits", MaxEdits)
  /\ \/ \E b \in Builds \cap exists : \E s \in SpecsOf[b] \ {spec[b]} :
          spec' = [spec EXCEPT ![b] = s] /\ Enqueue({b}) /\ UNCHANGED image
     \/ \E r \in Runtimes \cap exists : \E i \in ImagesOf[r] \ {image[r]} :
          image' = [image EXCEPT ![r] = i] /\ Enqueue({r}) /\ UNCHANGED spec
  /\ UNCHANGED <<exists, objectVars, pass>>

\* The request that a deletion makes finds no instance, as any that waits
\* already does; it is left out.
Delete ==
  /\ Use("deletes", MaxDeletes)
  /\ \E k \in exists : exists' = exists \ {k}
  /\ UNCHANGED <<spec, image, objectVars, queue, pass>>

\* An object goes when all its owners are gone.
CollectBuildConfig ==
  /\ \E n \in BuildConfigs :
       /\ bcs[n] # None
       /\ bcs[n].owners \cap exists = {}
       /\ bcs' = [bcs EXCEPT ![n] = None]
  /\ UNCHANGED <<apiVars, streams, current, queue, pass, used>>
CollectStream ==
  /\ \E n \in Streams :
       /\ streams[n] # None
       /\ streams[n].owners # {} /\ streams[n].owners \cap exists = {}
       /\ streams' = [streams EXCEPT ![n] = None]
       /\ current' = [c \in Controllers |-> current[c] \ {n}]
  /\ UNCHANGED <<apiVars, bcs, queue, pass, used>>

\* A reference to an owner that is gone is removed from an object that has
\* others.  A pass that read the object before may write it back.
ReleaseStream ==
  /\ Use("releases", MaxReleases)
  /\ \E n \in Streams :
       /\ streams[n] # None
       /\ streams[n].owners \cap exists \notin {{}, streams[n].owners}
       /\ streams' = [streams EXCEPT ![n].owners = @ \cap exists,
                                 ![n].controller = IF @ \in exists THEN @ ELSE None]
       /\ current' = [c \in Controllers |-> current[c] \ {n}]
  /\ UNCHANGED <<apiVars, bcs, queue, pass>>

\* Every 10 hours each instance is reconciled.  By then the requests made
\* before have been served, but for those of specs that fail the check.
Settled ==
  \A c \in Controllers : \A k \in exists \cap (ToSet(queue[c]) \cup {pass[c].key}) :
    k \in Builds /\ ~SanityCheck(spec[k])
Resync ==
  /\ Settled
  /\ Enqueue(exists)
  /\ UNCHANGED <<apiVars, objectVars, pass, used>>

Restart ==
  /\ Use("crashes", MaxCrashes)
  /\ pass' = [c \in Controllers |-> Idle]
  /\ queue' = [c \in Controllers |-> SetToSeq(exists \cap KeysOf(c))]
  /\ UNCHANGED <<apiVars, objectVars>>

Reconcile(c) ==
  \/ FetchInstance(c)
  \/ c = "build" /\ CreateRequiredKogitoImageStreams
  \/ GetRequestedResources(c) \/ ProcessDelta(c) \/ WriteResource(c)

Next ==
  \/ \E c \in Controllers : Reconcile(c)
  \/ Edit \/ Delete
  \/ CollectBuildConfig \/ CollectStream \/ ReleaseStream
  \/ Resync \/ Restart

\* The workers and the garbage collector go on; the resync is an assumption of
\* the properties.
Fairness ==
  /\ \A c \in Controllers : WF_vars(Reconcile(c))
  /\ WF_vars(CollectBuildConfig) /\ WF_vars(CollectStream)

Spec == Init /\ [][Next]_vars /\ Fairness

-----------------------------------------------------------------------------
(***************************************************************************)
(* Properties.                                                             *)
(***************************************************************************)

\* Type invariant.  A stream has one tag of a name, and BuildConfigs belong to
\* the KogitoBuild whose name they carry.
TypeOK ==
  /\ exists \subseteq Owners
  /\ \A b \in Builds : spec[b] \in SpecsOf[b]
  /\ \A r \in Runtimes : image[r] \in ImagesOf[r]
  /\ \A n \in BuildConfigs : bcs[n] # None => n[2] \in bcs[n].owners
  /\ \A n \in Streams : streams[n] # None =>
       /\ streams[n].owners \subseteq Owners
       /\ streams[n].controller \in streams[n].owners \cup {None}
       /\ \A t, u \in streams[n].tags : t.name = u.name => t = u
  /\ \A c \in Controllers :
       /\ ToSet(queue[c]) \subseteq KeysOf(c) /\ IsInjective(queue[c])
       /\ current[c] \subseteq Streams
       /\ pass[c].key \in KeysOf(c) \cup {None}
       /\ DOMAIN pass[c].request \subseteq Streams

\* A BuildConfig builds from a tag that is there, imported from an image of
\* the name and the tag that its KogitoBuild asks for: the streams are made
\* first, and by whichever KogitoBuild comes first.  (The registry may be that
\* of another KogitoBuild: the stream of a custom image is named after the
\* image alone.)
BaseImageExists ==
  \A n \in BuildConfigs : bcs[n] # None =>
    LET base == bcs[n].base
    IN /\ streams[base[1]] # None
       /\ \E t \in streams[base[1]].tags :
            t.name = base[2] /\ t.from[2] = base[1][2] /\ t.from[3] = base[2]

\* Everything a KogitoBuild asks for is there as it asks for it, and nothing
\* that it asked for earlier.
BuildComplete(b) ==
  LET s == SetDefaults(b, spec[b])
      request == RequestedBuildConfigs(b, s)
      service == streams[Service(s.target)]
  IN /\ \A n \in BuildConfigs : n[2] = b =>
          IF n \notin DOMAIN request THEN bcs[n] = None
          ELSE bcs[n] # None /\ SameBuildConfig(bcs[n], request[n])
     /\ s.type \in SourceTypes => streams[GetBuildBuilderName(b)] # None
     /\ service # None /\ b \in service.owners /\ HasTag(service, Latest)
     /\ \A n \in Streams : streams[n] # None /\ b \in streams[n].owners =>
          n \in {Service(s.target), GetBuildBuilderName(b)}

RuntimeComplete(r) ==
  LET i == ResolveImage(r, image[r])
      service == streams[i.stream]
  IN service # None /\ r \in service.owners /\ HasTag(service, i.tag)

Resyncs == WF_vars(Resync)

\* Whatever the KogitoBuilds and KogitoRuntimes that share a stream do to each
\* other (they delete the stream when they stop using it, write over each
\* other's owner references, and hear of no change to it), an instance that
\* stays gets what it asks for again and again, as long as the requests keep
\* coming.
StreamsComeBack ==
  Resyncs =>
    /\ \A b \in Builds : []<>(b \in exists /\ SanityCheck(spec[b]) => BuildComplete(b))
    /\ \A r \in Runtimes : []<>(r \in exists => RuntimeComplete(r))

\* Once a KogitoBuild is deleted, its BuildConfigs, its builder stream and the
\* stream of a service that it alone built go, for good: neither a pass of it
\* that was under way nor one of another instance brings them back.  (A
\* reference to it in a stream that others own may come back.)
NothingLeftOfBuild ==
  \A b \in Builds :
    <>[](b \notin exists =>
           /\ \A n \in BuildConfigs : n[2] = b => bcs[n] = None
           /\ streams[GetBuildBuilderName(b)] = None
           /\ \A n \in Streams : streams[n] # None => streams[n].owners # {b})
=============================================================================
