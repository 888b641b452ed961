--------------------------- MODULE CLIArguments ---------------------------
(***************************************************************************)
(* What the kogito command line makes of its arguments: the checks of the  *)
(* flags, the kind of the source given to deploy-service, the files that   *)
(* are uploaded, and the custom resources that are asked for               *)
(* (cmd/kogito/command/flag, converter, iozip, util and service).          *)
(*                                                                         *)
(* An item KEY=VALUE of a flag is the text before the first separator and  *)
(* the text after it, which is Absent without a separator.                 *)
(***************************************************************************)
EXTENDS Naturals, Sequences

CONSTANTS
  Keys,      \* texts before a separator, other than the empty one
  Plains,    \* texts after it that do not contain the separator of secrets
  Secrets,   \*   and texts of the form NAME#KEY
  Absent     \* no text

Items == [key : Keys \cup {""}, value : Plains \cup Secrets \cup {Absent}]
Variables == [env : Seq(Items), secretEnv : Seq(Items)]

RuntimeTypes == {"quarkus", "springboot"}
ServiceTypes == {"DataIndex", "Explainability", "JobsService", "MgmtConsole",
                 "TaskConsole", "TrustyAI", "TrustyUI"}

ASSUME TextsAssumption ==
  /\ "" \notin Keys \cup Plains \cup Secrets \cup {Absent}
  /\ Plains \cap Secrets = {} /\ Absent \notin Plains \cup Secrets

-----------------------------------------------------------------------------
(***************************************************************************)
(* Flags.                                                                  *)
(***************************************************************************)

CheckKeyPair(items) ==
  \A i \in DOMAIN items : items[i].value # Absent /\ items[i].key # ""

\* The items up to the first without a key, at which the loop ends.
Converted(items) ==
  {i \in DOMAIN items : \A j \in 1 .. i : items[j].key # ""}

\* A slip: the first of the items with a key counts.
FirstCounts(items) ==
  [k \in {items[i].key : i \in Converted(items)} |->
     LET first == CHOOSE i \in Converted(items) :
                    /\ items[i].key = k
                    /\ \A j \in Converted(items) : items[j].key = k => i <= j
     IN  IF items[first].value = Absent THEN "" ELSE items[first].value]

\* The last of the items with a key counts; one without a separator is empty.
FromStringsKeyPairToMap(items) ==
  [k \in {items[i].key : i \in Converted(items)} |->
     LET last == CHOOSE i \in Converted(items) :
                   /\ items[i].key = k
                   /\ \A j \in Converted(items) : items[j].key = k => j <= i
     IN  IF items[last].value = Absent THEN "" ELSE items[last].value]

CheckSecretKeyPair(items) ==
  CheckKeyPair(items) =>
    \A k \in DOMAIN FromStringsKeyPairToMap(items) :
       FromStringsKeyPairToMap(items)[k] \in Secrets

\* Environment variables: with a value, or from a key of a Secret.
NoEnvs == [env |-> <<>>, secretEnv |-> <<>>]
FromStringArrayToEnvs(e) ==
  LET plain == FromStringsKeyPairToMap(e.env)
      secret == FromStringsKeyPairToMap(e.secretEnv)
  IN  {[name |-> k, from |-> "value", text |-> plain[k]] : k \in DOMAIN plain}
      \cup {[name |-> k, from |-> "secret", text |-> secret[k]] :
              k \in {j \in DOMAIN secret : secret[j] \in Secrets}}

\* The flags of the commands that install something, with their defaults.  An
\* image is "", or a name that matches the expression for image names or not;
\* an address and a file are likewise wrong or not.  The config of a
\* KogitoInfra is given by its own flag, property.
NoFlags ==
  [envs |-> NoEnvs, buildEnvs |-> NoEnvs, limits |-> <<>>, buildLimits |-> <<>>, config |-> <<>>,
   labels |-> <<>>, webHooks |-> <<>>, image |-> "", buildImage |-> "", mirror |-> "",
   runtime |-> "quarkus", native |-> FALSE, replicas |-> 1, file |-> "",
   resource |-> "", apiVersion |-> "", kind |-> ""]

CheckImageTag(image) == image # "wrong"
CheckEnvVarArgs(e) == CheckKeyPair(e.env) /\ CheckSecretKeyPair(e.secretEnv)
CheckPodResourceArgs(limits) == CheckKeyPair(limits)
CheckConfigFlags(f) == CheckKeyPair(f.config) /\ f.file # "wrong"
CheckWebHookArgs(f) ==
  DOMAIN FromStringsKeyPairToMap(f.webHooks) \subseteq {"GitHub", "Generic"}
CheckRuntimeTypeArgs(f) == f.runtime \in RuntimeTypes
CheckInstallArgs(f) ==
  /\ CheckPodResourceArgs(f.limits) /\ CheckImageTag(f.image) /\ CheckEnvVarArgs(f.envs)
  /\ CheckConfigFlags(f) /\ f.replicas > 0
CheckRuntimeArgs(f) == CheckInstallArgs(f) /\ CheckKeyPair(f.labels)
CheckBuildArgs(f) ==
  /\ CheckImageTag(f.buildImage) /\ CheckPodResourceArgs(f.buildLimits) /\ CheckWebHookArgs(f)
  /\ CheckEnvVarArgs(f.buildEnvs) /\ f.mirror # "wrong"
CheckInfraResourceArgs(f) == f.resource # "" => f.apiVersion # "" /\ f.kind # ""
CheckPropertiesArgs(f) == CheckKeyPair(f.config)

-----------------------------------------------------------------------------
(***************************************************************************)
(* The source of deploy-service.  A file is named by its extension; a      *)
(* source is nothing, an address or a path, which may be a file, a         *)
(* directory with files in it, or not exist.                               *)
(***************************************************************************)

SourceToImage == {".dmn", ".drl", ".bpmn", ".bpmn2", ".properties", ".sw.json", ".sw.yaml"}
Runner == {"-runner", "-runner.jar", "quarkus-app"}
FileNames == SourceToImage \cup Runner \cup {"pom.xml", ".jar", ".json", ".dat", ".java", "repository"}
Folders == {"", "lib/", "quarkus-app/", "quarkus-app/lib/", "quarkus-app/lib/main/",
            "quarkus-app/lib/boot/", "quarkus-app/app/", "quarkus-app/quarkus/"}

Sources ==
  [place : {"", "http", "file", "directory", "nowhere"}, valid : BOOLEAN,
   name : FileNames \cup {"", "target", "project"}, files : SUBSET (Folders \X FileNames)]
NoSource == [place |-> "", valid |-> TRUE, name |-> "", files |-> {}]

\* The endings that are taken into an upload; ".jar" is also the end of
\* "-runner.jar", and ".json" that of ".sw.json".
IsSuffixSupported(name, build) ==
  name \in CASE build = "SourceToImage"  -> SourceToImage
             [] build = "QuarkusNative"  -> {"-runner", ".json", ".sw.json"}
             [] build = "QuarkusFastJar" -> {".jar", "-runner.jar", ".json", ".sw.json", ".dat"}
             [] OTHER                    -> {".jar", "-runner.jar", ".json", ".sw.json"}

NoResource == "error"
GetResourceType(s) ==
  CASE s.place = ""          -> "BinaryResource"
    [] s.place = "http"      -> IF ~s.valid THEN NoResource
                                ELSE IF IsSuffixSupported(s.name, "SourceToImage")
                                     THEN "GitFileResource" ELSE "GitRepositoryResource"
    [] s.place = "file"      -> IF IsSuffixSupported(s.name, "SourceToImage")
                                THEN "LocalFileResource" ELSE NoResource
    [] s.place = "directory" -> IF s.name = "target"
                                THEN "LocalBinaryDirectoryResource" ELSE "LocalDirectoryResource"
    [] s.place = "nowhere"   -> NoResource

IsTarget(s) == GetResourceType(s) = "LocalBinaryDirectoryResource"
InTarget(s, names) == \E n \in names : <<"", n>> \in s.files

\* A native executable makes a build of binaries native.
FromArgsToNative(native, s) == IF IsTarget(s) THEN InTarget(s, {"-runner"}) ELSE native
NativeIsMissing(native, s) == native /\ IsTarget(s) /\ ~InTarget(s, {"-runner"})

FromArgsToRuntimeType(runtime, s) ==
  IF ~IsTarget(s) THEN runtime
  ELSE IF InTarget(s, Runner) THEN "quarkus" ELSE "springboot"

ToQuarkusLegacyJarType(s) == IsTarget(s) /\ InTarget(s, {"-runner.jar"})

FromArgsToBinaryBuildType(s, runtime, native) ==
  CASE ~IsTarget(s)             -> "SourceToImage"
    [] IsTarget(s) /\ runtime = "springboot" -> "SpringBootJvm"
    [] IsTarget(s) /\ runtime # "springboot" /\ native -> "QuarkusNative"
    [] IsTarget(s) /\ runtime # "springboot" /\ ~native /\ ToQuarkusLegacyJarType(s) -> "QuarkusLegacyJar"
    [] OTHER                    -> "QuarkusFastJar"

FromResourceTypeToKogitoBuildType(type) ==
  CASE type \in {"LocalDirectoryResource", "LocalFileResource", "GitFileResource"} -> "LocalSource"
    [] type \in {"BinaryResource", "LocalBinaryDirectoryResource"}                 -> "Binary"
    [] OTHER                                                                       -> "RemoteSource"

BuildType(f, s) ==
  FromArgsToBinaryBuildType(s, FromArgsToRuntimeType(f.runtime, s), FromArgsToNative(f.native, s))

\* The folders below the target directory that are read for a build of
\* binaries, the last of them last.
BinaryAddedFolders(build) ==
  CASE build = "QuarkusLegacyJar" -> <<"lib/">>
    [] build = "QuarkusFastJar"   -> <<"quarkus-app/", "quarkus-app/lib/", "quarkus-app/lib/main/",
                                       "quarkus-app/lib/boot/", "quarkus-app/app/",
                                       "quarkus-app/quarkus/">>
    [] OTHER                      -> <<>>

\* The files of an upload, when those in unread cannot be read or come after
\* one that cannot.  The error of a build from sources stays in the inner
\* scope, and that of a folder is replaced by the next one's.
CompressAsTGZ(s, build, unread) ==
  LET folders == <<"">> \o BinaryAddedFolders(build)
      wanted == IF build = "SourceToImage"
                THEN IF <<"", "pom.xml">> \in s.files THEN s.files
                     ELSE {f \in s.files : IsSuffixSupported(f[2], build)}
                ELSE {f \in s.files : /\ \E i \in DOMAIN folders : f[1] = folders[i]
                                      /\ IsSuffixSupported(f[2], build)}
      last == folders[Len(folders)]
  IN  [files |-> wanted \ unread,
       ok |-> build = "SourceToImage" \/ \A f \in wanted \cap unread : f[1] # last]

-----------------------------------------------------------------------------
(***************************************************************************)
(* The custom resources that are asked for.                                *)
(***************************************************************************)

FromPodResourceFlagsToResourceRequirement(limits) == FromStringsKeyPairToMap(limits)
FromWebHookFlagsToWebHookSecret(f) ==
  LET map == FromStringsKeyPairToMap(f.webHooks)
  IN  {[type |-> k, secret |-> map[k]] : k \in DOMAIN map}
FromGitSourceFlagsToGitSource(s) ==
  IF GetResourceType(s) = "GitRepositoryResource" THEN s.name ELSE ""
FromInfraResourceFlagsToResource(f) ==
  IF f.resource = "" THEN Absent
  ELSE [name |-> f.resource, apiVersion |-> f.apiVersion, kind |-> f.kind]

KogitoBuildFor(f, s) ==
  [type |-> FromResourceTypeToKogitoBuildType(GetResourceType(s)),
   env |-> FromStringArrayToEnvs(f.buildEnvs), image |-> f.buildImage,
   git |-> FromGitSourceFlagsToGitSource(s), webHooks |-> FromWebHookFlagsToWebHookSecret(f),
   runtime |-> FromArgsToRuntimeType(f.runtime, s), native |-> FromArgsToNative(f.native, s),
   limits |-> FromPodResourceFlagsToResourceRequirement(f.buildLimits)]

KogitoRuntimeFor(f) ==
  [env |-> FromStringArrayToEnvs(f.envs), image |-> f.image, runtime |-> f.runtime,
   replicas |-> f.replicas, config |-> FromStringsKeyPairToMap(f.config), properties |-> f.file,
   labels |-> FromStringsKeyPairToMap(f.labels),
   limits |-> FromPodResourceFlagsToResourceRequirement(f.limits)]

KogitoSupportingServiceFor(type, f) ==
  [type |-> type, env |-> FromStringArrayToEnvs(f.envs), image |-> f.image,
   replicas |-> f.replicas, config |-> FromStringsKeyPairToMap(f.config), properties |-> f.file,
   limits |-> FromPodResourceFlagsToResourceRequirement(f.limits)]

KogitoInfraFor(f) ==
  [resource |-> FromInfraResourceFlagsToResource(f),
   properties |-> FromStringsKeyPairToMap(f.config), env |-> FromStringArrayToEnvs(f.envs)]

\* What the user meant by the items of a flag: for each key the last value.
Meant(items) ==
  {[name |-> items[i].key, text |-> items[i].value] :
     i \in {j \in DOMAIN items : \A l \in DOMAIN items : items[l].key = items[j].key => l <= j}}
MeantEnvs(e) ==
  {[name |-> v.name, from |-> "value", text |-> v.text] : v \in Meant(e.env)}
  \cup {[name |-> v.name, from |-> "secret", text |-> v.text] : v \in Meant(e.secretEnv)}
=============================================================================
