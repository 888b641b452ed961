----------------------------- MODULE KogitoCLI -----------------------------
(***************************************************************************)
(* The kogito command line (cmd/kogito): processes of one user that share  *)
(* a kubeconfig file, and the objects they create, change and delete in    *)
(* the projects of a cluster while the operator works on the same objects. *)
(*                                                                         *)
(* A step of a command is one access to the kubeconfig file or one call to *)
(* the API server with the local work around it.  A command may end at any *)
(* of its steps: a call fails, or the user interrupts it.  The operator is *)
(* there in what a command can see of it: it writes the status of objects  *)
(* and makes the BuildConfigs of KogitoBuilds.                             *)
(***************************************************************************)
EXTENDS CLIArguments, FiniteSets

CONSTANTS
  Clients,      \* processes of the command line
  Projects,     \* names of projects
  NoProject,    \* no project given, or none in the context
  Clusters,     \* the rest of the name of a context: cluster and user
  NoContext,    \* no current context
  Starts,       \* kubeconfig files and projects at the start
  CommandLines, \* what users type
  NoCommand,    \* nothing
  Parse,        \* the commands they are
  OpenShift,    \* whether the cluster is an OpenShift
  MaxCommands,  \* bound: commands
  MaxWrites,    \* bound: writes of the operator
  MaxUpdates,   \* attempts of an update before the poll times out
  MaxRetries    \* attempts to find a BuildConfig

ASSUME BoundsAssumption ==
  /\ MaxCommands \in Nat /\ MaxWrites \in Nat
  /\ MaxUpdates \in Nat \ {0} /\ MaxRetries \in Nat \ {0}
ASSUME ClusterAssumption == OpenShift \in BOOLEAN
ASSUME ProjectAssumption == NoProject \notin Projects

Operations == {"deploy-service", "delete-service", "install-infra", "remove-infra",
               "install-service", "remove-service", "use-project", "new-project",
               "delete-project"}
ASSUME CommandsAssumption ==
  /\ NoCommand \notin CommandLines
  /\ \A line \in CommandLines : /\ Parse[line].op \in Operations
                                /\ Parse[line].project \in Projects \cup {NoProject}
                                /\ Parse[line].source \in Sources
                                /\ Parse[line].flags.envs \in Variables
                                /\ Parse[line].flags.buildEnvs \in Variables

\* A context is named after its project, its cluster and its user.
Contexts == [project : Projects, cluster : Clusters]
ASSUME ContextAssumption == NoContext \notin Contexts

\* The content of a kubeconfig file: the current context, and for each context
\* its project and its cluster, those it is named after in a file that was
\* written by logging in.
ConfigIsSound(config) ==
  /\ config.current \in {NoContext} \cup DOMAIN config.contexts
  /\ DOMAIN config.contexts \subseteq Contexts
  /\ \A x \in DOMAIN config.contexts :
       config.contexts[x] = [namespace |-> x.project, cluster |-> x.cluster]
ASSUME StartsAssumption ==
  \A start \in Starts : ConfigIsSound(start.config) /\ start.projects \subseteq Projects

NamespaceOf(config) ==
  IF config.current \in DOMAIN config.contexts
  THEN config.contexts[config.current].namespace ELSE NoProject

\* Objects are named by project, kind and name.  Commands with a service name
\* use it for the KogitoBuild, the KogitoRuntime and the ConfigMap.
Kinds == {"KogitoBuild", "KogitoRuntime", "KogitoInfra", "KogitoSupportingService", "ConfigMap"}
ObjectKey(p, kind, name) == [project |-> p, kind |-> kind, name |-> name]
ObjectKeys == [project : Projects, kind : Kinds, name : {Parse[line].name : line \in CommandLines}]

VARIABLES
  kubeconfig,    \* the kubeconfig file
  projects,      \* the projects that exist
  objects,       \* the objects that exist and what their specs ask for
  buildConfigs,  \* the BuildConfigs of KogitoBuilds, by role, and their sources
  uploads,       \* the files that were uploaded to a BuildConfig
  proc,          \* the processes
  ran,           \* how many commands were begun
  writes         \*   and how often the operator wrote an object

vars == <<kubeconfig, projects, objects, buildConfigs, uploads, proc, ran, writes>>

\* A process: its position, its command, the project it acts in and the one it
\* found in the context, the kubeconfig it is about to write, the kind of
\* object it works on, whether its copy of it is current, the attempts it made,
\* the objects it still has to delete, what it is about to upload, and - for
\* the properties only - the objects that others changed since it began.
Idle ==
  [pc |-> "idle", cmd |-> NoCommand, project |-> NoProject, inContext |-> NoProject,
   config |-> NoContext, kind |-> "KogitoBuild", current |-> FALSE, attempts |-> 0,
   list |-> {}, upload |-> {}, touched |-> {}]

Failed == [Idle EXCEPT !.pc = "failed"]

Ended == {"idle", "ok", "failed"}

Init ==
  /\ \E start \in Starts : kubeconfig = start.config /\ projects = start.projects
  /\ objects = [k \in {} |-> {}]
  /\ buildConfigs = [k \in {} |-> {}]
  /\ uploads = {}
  /\ proc = [c \in Clients |-> Idle]
  /\ ran = 0 /\ writes = 0

-----------------------------------------------------------------------------
(***************************************************************************)
(* Steps of a process.                                                     *)
(***************************************************************************)

\* The object a process works on.
Cmd(p) == Parse[p.cmd]
Target(p) == ObjectKey(p.project, p.kind, Cmd(p).name)

\* What the commands ask for the objects to be.
Resources ==
  [line \in CommandLines |->
     LET cmd == Parse[line]
     IN  [KogitoBuild             |-> KogitoBuildFor(cmd.flags, cmd.source),
          KogitoRuntime           |-> KogitoRuntimeFor(cmd.flags),
          KogitoInfra             |-> KogitoInfraFor(cmd.flags),
          KogitoSupportingService |-> KogitoSupportingServiceFor(cmd.type, cmd.flags),
          ConfigMap               |-> cmd.flags.file]]
Asked(p) == Resources[p.cmd][p.kind]

Goto(p, pc) == [p EXCEPT !.pc = pc]
Work(p, pc, kind) == [p EXCEPT !.pc = pc, !.kind = kind, !.attempts = 0]

\* Process c goes on as p and nothing else changes for the others.
Continue(c, p) == proc' = [proc EXCEPT ![c] = p]

\* Process c goes on as p and changed the objects in K: the copies that others
\* hold of them are not current any more.
ContinueAndTouch(c, p, K) ==
  proc' = [d \in Clients |->
             IF d = c THEN p
             ELSE IF proc[d].cmd = NoCommand THEN proc[d]
             ELSE [proc[d] EXCEPT !.touched = @ \cup K,
                                  !.current = @ /\ Target(proc[d]) \notin K]]

Store(c, p, k, value) ==
  /\ objects' = [j \in DOMAIN objects \cup {k} |-> IF j = k THEN value ELSE objects[j]]
  /\ ContinueAndTouch(c, p, {k})

Remove(c, p, K) ==
  /\ objects' = [j \in DOMAIN objects \ K |-> objects[j]]
  /\ ContinueAndTouch(c, p, K)

\* The commands, once they have their project.
DeployServiceExec(p) ==
  IF Cmd(p).flags.image # "" THEN Work(p, "file", "ConfigMap") ELSE Work(p, "crds", "KogitoBuild")
DeleteServiceExec(p) == Work(p, "check", "KogitoRuntime")
InstallInfraExec(p) == Work(p, "crds", "KogitoInfra")
RemoveInfraExec(p) == Work(p, "check", "KogitoInfra")
InstallServiceExec(p) == Work(p, "file", "ConfigMap")
RemoveServiceExec(p) == Goto(p, "list")
DeleteProjectExec(p) == Goto(p, "drop")

Started(p) ==
  CASE Cmd(p).op = "deploy-service"  -> DeployServiceExec(p)
    [] Cmd(p).op = "delete-service"  -> DeleteServiceExec(p)
    [] Cmd(p).op = "install-infra"   -> InstallInfraExec(p)
    [] Cmd(p).op = "remove-infra"    -> RemoveInfraExec(p)
    [] Cmd(p).op = "install-service" -> InstallServiceExec(p)
    [] Cmd(p).op = "remove-service"  -> RemoveServiceExec(p)
    [] Cmd(p).op = "delete-project"  -> DeleteProjectExec(p)
    [] Cmd(p).op \in {"use-project", "new-project"} -> Goto(p, "ok")

-----------------------------------------------------------------------------
(***************************************************************************)
(* The project context.                                                    *)
(***************************************************************************)

\* The checks of the arguments, made before the command runs.
DeployServiceArgs(cmd) ==
  CheckRuntimeTypeArgs(cmd.flags) /\ CheckBuildArgs(cmd.flags) /\ CheckRuntimeArgs(cmd.flags)
InstallInfraArgs(cmd) ==
  /\ CheckInfraResourceArgs(cmd.flags) /\ CheckPropertiesArgs(cmd.flags)
  /\ CheckEnvVarArgs(cmd.flags.envs)
InstallServiceArgs(cmd) == CheckInstallArgs(cmd.flags)
NewProjectArgs(cmd) == cmd.project # NoProject

CheckArgs(cmd) ==
  CASE cmd.op = "deploy-service"  -> DeployServiceArgs(cmd)
    [] cmd.op = "install-service" -> InstallServiceArgs(cmd)
    [] cmd.op = "install-infra"   -> InstallInfraArgs(cmd)
    [] cmd.op = "new-project"     -> NewProjectArgs(cmd)
    [] OTHER                      -> TRUE

\* A user runs a command.  use-project without a name takes the project of the
\* context.
Begin(c, line) ==
  /\ proc[c].pc \in Ended
  /\ ran < MaxCommands
  /\ CheckArgs(Parse[line])
  /\ LET cmd == Parse[line]
         p == [Idle EXCEPT !.cmd = line, !.project = cmd.project]
         named == [p EXCEPT !.pc = "lookup", !.project = IF @ = NoProject
                                                         THEN NamespaceOf(kubeconfig) ELSE @]
     IN  /\ cmd.op = "use-project" => named.project # NoProject
         /\ Continue(c, IF cmd.op \in {"use-project", "new-project"} THEN named
                        ELSE Goto(p, "context"))
  /\ ran' = ran + 1
  /\ UNCHANGED <<kubeconfig, projects, objects, buildConfigs, uploads, writes>>

EnsureProject(c) ==
  /\ proc[c].pc = "context"
  /\ LET found == NamespaceOf(kubeconfig)
         p == [proc[c] EXCEPT !.pc = "exists", !.inContext = found,
                              !.project = IF @ = NoProject THEN found ELSE @]
     IN  Continue(c, IF p.project = NoProject THEN Failed ELSE p)
  /\ UNCHANGED <<kubeconfig, projects, objects, buildConfigs, uploads, ran, writes>>

CheckProjectExists(c) ==
  /\ proc[c].pc = "exists"
  /\ LET p == proc[c]
     IN  Continue(c, CASE p.project \notin projects -> Failed
                       [] p.project \in projects /\ p.project # p.inContext -> Goto(p, "load")
                       [] OTHER -> Started(p))
  /\ UNCHANGED <<kubeconfig, projects, objects, buildConfigs, uploads, ran, writes>>

\* Slips in choosing the context: the copy keeps the project it was copied
\* from; any context of the project will do.
WithNamespaceKept(config, project) ==
  LET new == [project |-> project, cluster |-> config.current.cluster]
  IN  [current |-> new,
       contexts |-> [x \in DOMAIN config.contexts \cup {new} |->
                       IF x \in DOMAIN config.contexts THEN config.contexts[x]
                       ELSE config.contexts[config.current]]]
WithNamespaceAnywhere(config, project) ==
  LET same == {x \in DOMAIN config.contexts : x.project = project}
      new == IF same = {} THEN [project |-> project, cluster |-> config.current.cluster]
             ELSE CHOOSE x \in same : TRUE
  IN  [current |-> new,
       contexts |-> [x \in DOMAIN config.contexts \cup {new} |->
                       IF x \in DOMAIN config.contexts THEN config.contexts[x]
                       ELSE [config.contexts[config.current] EXCEPT !.namespace = project]]]

\* The kubeconfig with the project as its context: a context of that name is
\* used as it is, otherwise the current one is copied.
WithNamespace(config, project) ==
  LET new == [project |-> project, cluster |-> config.current.cluster]
  IN  [current |-> new,
       contexts |-> [x \in DOMAIN config.contexts \cup {new} |->
                       IF x \in DOMAIN config.contexts THEN config.contexts[x]
                       ELSE [config.contexts[config.current] EXCEPT !.namespace = project]]]

\* Without a current context it is an error; with one that is not defined the
\* process ends in a panic.
SetCurrentNamespaceToKubeConfig(c) ==
  /\ proc[c].pc = "load"
  /\ LET p == proc[c]
     IN  Continue(c, IF kubeconfig.current \in DOMAIN kubeconfig.contexts
                     THEN [p EXCEPT !.pc = "save", !.config = WithNamespace(kubeconfig, p.project)]
                     ELSE Failed)
  /\ UNCHANGED <<kubeconfig, projects, objects, buildConfigs, uploads, ran, writes>>

\* The whole file is written, whatever others wrote since it was read.
WriteToFile(c) ==
  /\ proc[c].pc = "save"
  /\ kubeconfig' = proc[c].config
  /\ Continue(c, Started([proc[c] EXCEPT !.config = NoContext]))
  /\ UNCHANGED <<projects, objects, buildConfigs, uploads, ran, writes>>

\* use-project and new-project look for the project.
FetchNamespace(c) ==
  /\ proc[c].pc = "lookup"
  /\ LET p == proc[c]
         exists == p.project \in projects
     IN  Continue(c, CASE Cmd(p).op = "use-project" -> IF exists THEN Goto(p, "load") ELSE Failed
                       [] Cmd(p).op = "new-project" -> Goto(p, IF exists THEN "ok" ELSE "make"))
  /\ UNCHANGED <<kubeconfig, projects, objects, buildConfigs, uploads, ran, writes>>

CreateNamespace(c) ==
  /\ proc[c].pc = "make"
  /\ Continue(c, IF proc[c].project \in projects THEN Failed ELSE Goto(proc[c], "load"))
  /\ projects' = projects \cup {proc[c].project}
  /\ UNCHANGED <<kubeconfig, objects, buildConfigs, uploads, ran, writes>>

\* delete-project; everything in the project goes with it.
DeleteProject(c) ==
  /\ proc[c].pc = "drop"
  /\ LET p == proc[c]
         gone == {k \in DOMAIN objects : k.project = p.project}
     IN  IF p.project \notin projects
         THEN Continue(c, Failed) /\ UNCHANGED <<projects, objects, buildConfigs>>
         ELSE /\ projects' = projects \ {p.project}
              /\ Remove(c, Goto(p, "ok"), gone)
              /\ buildConfigs' = [k \in {j \in DOMAIN buildConfigs : j.project # p.project} |->
                                    buildConfigs[k]]
  /\ UNCHANGED <<kubeconfig, uploads, ran, writes>>

-----------------------------------------------------------------------------
(***************************************************************************)
(* Installing: CreateOrUpdate, the upload of sources, the ConfigMap.       *)
(***************************************************************************)

\* The conditions on a build, and on its source, before anything is created.
ValidatePreRequisite(cmd) ==
  /\ OpenShift
  /\ cmd.flags.native => cmd.flags.runtime = "quarkus"
  /\ GetResourceType(cmd.source) # NoResource
  /\ ~NativeIsMissing(cmd.flags.native, cmd.source)

\* A group of resources that cannot be read is taken for one that is missing,
\* which ends the command like any failure.
CheckOperatorCRDs(c) ==
  /\ proc[c].pc = "crds"
  /\ LET p == proc[c]
     IN  Continue(c, IF p.kind = "KogitoBuild" /\ ~ValidatePreRequisite(Cmd(p))
                     THEN Failed ELSE Goto(p, "fetch"))
  /\ UNCHANGED <<kubeconfig, projects, objects, buildConfigs, uploads, ran, writes>>

\* CreateOrUpdate, and CreateConfigMapFromFile, look for the object first.
Fetch(c) ==
  /\ proc[c].pc = "fetch"
  /\ LET p == proc[c]
     IN  Continue(c, IF Target(p) \in DOMAIN objects
                     THEN [p EXCEPT !.pc = "update", !.current = TRUE]
                     ELSE Goto(p, "create"))
  /\ UNCHANGED <<kubeconfig, projects, objects, buildConfigs, uploads, ran, writes>>

\* What follows once an object is installed.
Uploads(cmd) == GetResourceType(cmd.source) \notin {"GitRepositoryResource", "BinaryResource"}
Installed(p) ==
  LET q == [p EXCEPT !.current = FALSE]
  IN  CASE p.kind = "KogitoBuild"   -> IF Uploads(Cmd(p)) THEN Work(q, "read", "KogitoBuild")
                                       ELSE Work(q, "file", "ConfigMap")
        [] p.kind = "ConfigMap"     -> Work(q, "crds", IF Cmd(p).op = "deploy-service"
                                                       THEN "KogitoRuntime"
                                                       ELSE "KogitoSupportingService")
        [] p.kind = "KogitoRuntime" -> Goto(q, "console")
        [] OTHER                    -> Goto(q, "ok")

\* A slip: an object is created in a project that is gone.
CreateAnywhere(c) ==
  /\ proc[c].pc = "create"
  /\ LET p == proc[c]
     IN  IF Target(p) \in DOMAIN objects
         THEN Continue(c, Failed) /\ UNCHANGED objects
         ELSE Store(c, Installed(p), Target(p), Asked(p))
  /\ UNCHANGED <<kubeconfig, projects, buildConfigs, uploads, ran, writes>>

Create(c) ==
  /\ proc[c].pc = "create"
  /\ LET p == proc[c]
     IN  IF p.project \notin projects \/ Target(p) \in DOMAIN objects
         THEN Continue(c, Failed) /\ UNCHANGED objects
         ELSE Store(c, Installed(p), Target(p), Asked(p))
  /\ UNCHANGED <<kubeconfig, projects, buildConfigs, uploads, ran, writes>>

\* A conflict is no error for a custom resource: the object is read again and
\* the update repeated with its version, until the poll times out.  When the
\* object is gone the old version stays and the next attempt fails.
Update(c) ==
  /\ proc[c].pc = "update"
  /\ LET p == proc[c]
         exists == Target(p) \in DOMAIN objects
         again == exists /\ p.kind # "ConfigMap" /\ p.attempts < MaxUpdates - 1
     IN  IF exists /\ p.current THEN Store(c, Installed(p), Target(p), Asked(p))
         ELSE /\ Continue(c, IF again THEN [p EXCEPT !.current = TRUE, !.attempts = @ + 1]
                             ELSE Failed)
              /\ UNCHANGED objects
  /\ UNCHANGED <<kubeconfig, projects, buildConfigs, uploads, ran, writes>>

\* CreateConfigMapFromFile: without a file there is nothing to do.
CreateConfigMapFromFile(c) ==
  /\ proc[c].pc = "file"
  /\ LET p == proc[c]
     IN  Continue(c, IF Cmd(p).flags.file = "" THEN Installed(p) ELSE Goto(p, "fetch"))
  /\ UNCHANGED <<kubeconfig, projects, objects, buildConfigs, uploads, ran, writes>>

\* The management console is looked up for a message, after the KogitoRuntime
\* was installed.
PrintMgmtConsoleInfo(c) ==
  /\ proc[c].pc = "console"
  /\ Continue(c, Goto(proc[c], "ok"))
  /\ UNCHANGED <<kubeconfig, projects, objects, buildConfigs, uploads, ran, writes>>

\* The source is read into memory: one file, or a directory of which some
\* files may not be readable.
Builds == [line \in CommandLines |-> BuildType(Parse[line].flags, Parse[line].source)]
Readings ==
  [line \in CommandLines |->
     LET s == Parse[line].source
     IN  IF s.place = "directory"
         THEN {CompressAsTGZ(s, Builds[line], unread) : unread \in SUBSET s.files}
         ELSE {[files |-> {<<"", s.name>>}, ok |-> TRUE]}]

LoadIntoMemory(c) ==
  /\ proc[c].pc = "read"
  /\ \E tgz \in Readings[proc[c].cmd] :
       Continue(c, IF tgz.ok THEN [proc[c] EXCEPT !.pc = "wait", !.upload = tgz.files]
                   ELSE Failed)
  /\ UNCHANGED <<kubeconfig, projects, objects, buildConfigs, uploads, ran, writes>>

\* A slip: the upload goes to the BuildConfig named after the service.
InputOfRuntime(p) == [project |-> p.project, name |-> Cmd(p).name, role |-> "runtime"]

\* The BuildConfig that takes the upload: that of the builder, unless binaries
\* are built into the image as they are.
InputOf(p) ==
  [project |-> p.project, name |-> Cmd(p).name,
   role |-> IF Builds[p.cmd] = "SourceToImage" THEN "builder" ELSE "runtime"]

\* A slip: the attempts are not counted.
WaitForever(c) ==
  /\ proc[c].pc = "wait"
  /\ InputOf(proc[c]) \in DOMAIN buildConfigs
  /\ Continue(c, Goto(proc[c], "post"))
  /\ UNCHANGED <<kubeconfig, projects, objects, buildConfigs, uploads, ran, writes>>

WaitForBuildConfig(c) ==
  /\ proc[c].pc = "wait"
  /\ LET p == proc[c]
     IN  Continue(c, CASE InputOf(p) \in DOMAIN buildConfigs -> Goto(p, "post")
                       [] InputOf(p) \notin DOMAIN buildConfigs /\ p.attempts < MaxRetries - 1 ->
                            [p EXCEPT !.attempts = @ + 1]
                       [] OTHER -> Failed)
  /\ UNCHANGED <<kubeconfig, projects, objects, buildConfigs, uploads, ran, writes>>

TriggerBuildFromFile(c) ==
  /\ proc[c].pc = "post"
  /\ LET p == proc[c]
     IN  IF InputOf(p) \notin DOMAIN buildConfigs
         THEN Continue(c, Failed) /\ UNCHANGED uploads
         ELSE /\ uploads' = uploads \cup {[to |-> InputOf(p), files |-> p.upload]}
              /\ Continue(c, Work([p EXCEPT !.upload = {}], "file", "ConfigMap"))
  /\ UNCHANGED <<kubeconfig, projects, objects, buildConfigs, ran, writes>>

-----------------------------------------------------------------------------
(***************************************************************************)
(* Deleting.                                                               *)
(***************************************************************************)

\* CheckKogitoRuntimeExists, CheckKogitoBuildExists, CheckKogitoInfraExists.
CheckExists(c) ==
  /\ proc[c].pc = "check"
  /\ Continue(c, IF Target(proc[c]) \in DOMAIN objects THEN Goto(proc[c], "delete") ELSE Failed)
  /\ UNCHANGED <<kubeconfig, projects, objects, buildConfigs, uploads, ran, writes>>

\* A slip: delete-service ends with the KogitoRuntime.
DeleteRuntimeOnly(c) ==
  /\ proc[c].pc = "delete"
  /\ LET p == proc[c]
     IN  IF Target(p) \notin DOMAIN objects
         THEN Continue(c, Failed) /\ UNCHANGED objects
         ELSE Remove(c, Goto(p, "ok"), {Target(p)})
  /\ UNCHANGED <<kubeconfig, projects, buildConfigs, uploads, ran, writes>>

\* delete-service goes on with the KogitoBuild, which only an OpenShift has.
Delete(c) ==
  /\ proc[c].pc = "delete"
  /\ LET p == proc[c]
     IN  IF Target(p) \notin DOMAIN objects
         THEN Continue(c, Failed) /\ UNCHANGED objects
         ELSE Remove(c, IF p.kind = "KogitoRuntime" /\ OpenShift
                        THEN Work(p, "check", "KogitoBuild") ELSE Goto(p, "ok"), {Target(p)})
  /\ UNCHANGED <<kubeconfig, projects, buildConfigs, uploads, ran, writes>>

\* remove-service deletes all the services of its type, one by one.
OfServiceType(project, type) ==
  {k \in DOMAIN objects : /\ k.project = project /\ k.kind = "KogitoSupportingService"
                          /\ objects[k].type = type}

ListServices(c) ==
  /\ proc[c].pc = "list"
  /\ LET p == proc[c]
         found == OfServiceType(p.project, Cmd(p).type)
     IN  Continue(c, [p EXCEPT !.pc = IF found = {} THEN "ok" ELSE "each", !.list = found])
  /\ UNCHANGED <<kubeconfig, projects, objects, buildConfigs, uploads, ran, writes>>

DeleteService(c) ==
  /\ proc[c].pc = "each"
  /\ LET p == proc[c]
     IN  \E k \in p.list :
           LET rest == p.list \ {k}
           IN  IF k \notin DOMAIN objects
               THEN Continue(c, Failed) /\ UNCHANGED objects
               ELSE Remove(c, [p EXCEPT !.list = rest, !.pc = IF rest = {} THEN "ok" ELSE @], {k})
  /\ UNCHANGED <<kubeconfig, projects, buildConfigs, uploads, ran, writes>>

-----------------------------------------------------------------------------
(***************************************************************************)
(* Interrupts, other clients and the operator.                             *)
(***************************************************************************)

Interrupt(c) ==
  /\ proc[c].pc \notin Ended
  /\ Continue(c, Failed)
  /\ UNCHANGED <<kubeconfig, projects, objects, buildConfigs, uploads, ran, writes>>

\* The operator writes the status of an object, which makes it a new version.
WriteStatus(k) ==
  /\ k \in DOMAIN objects /\ k.kind # "ConfigMap"
  /\ writes < MaxWrites
  /\ writes' = writes + 1
  /\ proc' = [d \in Clients |-> [proc[d] EXCEPT !.current = @ /\ Target(proc[d]) # k]]
  /\ UNCHANGED <<kubeconfig, projects, objects, buildConfigs, uploads, ran>>

\* The BuildConfigs of a KogitoBuild and where they take their sources from.
BuildConfigsOf(type) ==
  CASE type = "RemoteSource" -> [builder |-> "Git", runtime |-> "Image"]
    [] type = "LocalSource"  -> [builder |-> "Binary", runtime |-> "Image"]
    [] type = "Binary"       -> [runtime |-> "Binary"]

RequestedBuildConfigs ==
  LET builds == {k \in DOMAIN objects : k.kind = "KogitoBuild"}
      configs == UNION {{[project |-> k.project, name |-> k.name, role |-> r] :
                           r \in DOMAIN BuildConfigsOf(objects[k].type)} : k \in builds}
  IN  [b \in configs |->
         BuildConfigsOf(objects[ObjectKey(b.project, "KogitoBuild", b.name)].type)[b.role]]

\* The operator makes the BuildConfigs what the KogitoBuilds ask for, and those
\* of deleted KogitoBuilds are collected.
ApplyBuilds ==
  /\ buildConfigs # RequestedBuildConfigs
  /\ buildConfigs' = RequestedBuildConfigs
  /\ UNCHANGED <<kubeconfig, projects, objects, uploads, proc, ran, writes>>

Step(c) ==
  \/ EnsureProject(c) \/ CheckProjectExists(c)
  \/ SetCurrentNamespaceToKubeConfig(c) \/ WriteToFile(c)
  \/ FetchNamespace(c) \/ CreateNamespace(c) \/ DeleteProject(c)
  \/ CheckOperatorCRDs(c) \/ Fetch(c) \/ Create(c) \/ Update(c)
  \/ CreateConfigMapFromFile(c) \/ PrintMgmtConsoleInfo(c)
  \/ LoadIntoMemory(c) \/ WaitForBuildConfig(c) \/ TriggerBuildFromFile(c)
  \/ CheckExists(c) \/ Delete(c) \/ ListServices(c) \/ DeleteService(c)

Next ==
  \/ \E c \in Clients : Step(c) \/ Interrupt(c)
  \/ \E c \in Clients, line \in CommandLines : Begin(c, line)
  \/ \E k \in DOMAIN objects : WriteStatus(k)
  \/ ApplyBuilds

\* A process goes on until it ends; nothing obliges users or the operator.
Fairness == \A c \in Clients : WF_vars(Step(c))

Spec == Init /\ [][Next]_vars /\ Fairness

-----------------------------------------------------------------------------
(***************************************************************************)
(* Properties.                                                             *)
(***************************************************************************)

Positions == Ended \cup
  {"context", "exists", "lookup", "make", "load", "save", "drop", "crds", "fetch", "create",
   "update", "file", "console", "read", "wait", "post", "check", "delete", "list", "each"}
IsProcess(p) ==
  p \in [pc : Positions, cmd : CommandLines \cup {NoCommand}, project : Projects \cup {NoProject},
         inContext : Projects \cup {NoProject}, config : {p.config}, kind : Kinds,
         current : BOOLEAN, attempts : Nat, list : SUBSET ObjectKeys, upload : {p.upload},
         touched : SUBSET ObjectKeys]

TypeOK ==
  /\ projects \subseteq Projects
  /\ kubeconfig.current \in Contexts \cup {NoContext}
  /\ DOMAIN kubeconfig.contexts \subseteq Contexts
  /\ DOMAIN objects \subseteq ObjectKeys
  /\ \A k \in DOMAIN objects : k.project \in projects
  /\ proc = [c \in Clients |-> proc[c]]
  /\ \A c \in Clients : IsProcess(proc[c])
  /\ ran \in 0 .. MaxCommands /\ writes \in 0 .. MaxWrites

\* Whatever processes write the kubeconfig file over each other's content, its
\* current context is defined, and every context selects the project and the
\* cluster that it is named after (kubeconfig.go).
KubeconfigInv ==
  /\ ConfigIsSound(kubeconfig)
  /\ \A c \in Clients : proc[c].pc = "save" => /\ ConfigIsSound(proc[c].config)
                                               /\ proc[c].config.current # NoContext

\* A command changes the project of the context and never the cluster: the
\* next command acts on the cluster the user is logged in to.
ClusterOf(config) == IF config.current = NoContext THEN NoContext ELSE config.current.cluster
SwitchKeepsCluster == [][ClusterOf(kubeconfig') = ClusterOf(kubeconfig)]_vars

\* The kinds of objects a command installs, and what they are to contain.
InstalledBy(cmd) ==
  CASE cmd.op = "deploy-service"  -> {"KogitoRuntime"}
                                     \cup (IF cmd.flags.image = "" THEN {"KogitoBuild"} ELSE {})
                                     \cup (IF cmd.flags.file = "" THEN {} ELSE {"ConfigMap"})
    [] cmd.op = "install-service" -> {"KogitoSupportingService"}
                                     \cup (IF cmd.flags.file = "" THEN {} ELSE {"ConfigMap"})
    [] cmd.op = "install-infra"   -> {"KogitoInfra"}
    [] OTHER                      -> {}
MeantResources ==
  [line \in CommandLines |->
     LET f == Parse[line].flags
         service == MeantEnvs(f.envs)
     IN  [KogitoBuild |-> MeantEnvs(f.buildEnvs), KogitoRuntime |-> service,
          KogitoInfra |-> service, KogitoSupportingService |-> service, ConfigMap |-> f.file]]
SecretsWellFormed(f) == CheckKeyPair(f.envs.secretEnv) /\ CheckKeyPair(f.buildEnvs.secretEnv)
Content(kind, value) == IF kind = "ConfigMap" THEN value ELSE value.env

\* A command that installs and reports success has stored every object it was
\* asked for with every variable it was given, also when the operator changed
\* the object between its fetch and its update and the update had to be
\* repeated (resource_manager.go update, envvar_converter.go).  Objects that
\* others changed meanwhile are theirs, and the items of secret-env are well
\* formed.
InstalledAsAsked ==
  \A c \in Clients :
    LET p == proc[c]
    IN  p.pc = "ok" /\ SecretsWellFormed(Cmd(p).flags) =>
          \A kind \in InstalledBy(Cmd(p)) :
            LET k == ObjectKey(p.project, kind, Cmd(p).name)
            IN  k \in p.touched
                \/ (k \in DOMAIN objects /\ Content(kind, objects[k]) = MeantResources[p.cmd][kind])

\* A command that deletes and reports success has left nothing that it is to
\* delete, but what others made meanwhile (delete_service.go, remove/).
DeletedIsGone ==
  \A c \in Clients :
    LET p == proc[c]
        mine == {k \in DOMAIN objects : k.project = p.project /\ k \notin p.touched}
    IN  p.pc = "ok" =>
          \A k \in mine :
            CASE Cmd(p).op = "delete-service" -> ~(/\ k.name = Cmd(p).name
                                                  /\ k.kind \in {"KogitoRuntime", "KogitoBuild"})
              [] Cmd(p).op = "remove-infra"   -> ~(k.name = Cmd(p).name /\ k.kind = "KogitoInfra")
              [] Cmd(p).op = "remove-service" -> k \notin OfServiceType(p.project, Cmd(p).type)
              [] Cmd(p).op = "delete-project" -> FALSE
              [] OTHER                       -> TRUE

\* Files are uploaded to a BuildConfig that takes them: the kind of source, the
\* type of the KogitoBuild that was made for it and the BuildConfig that is
\* waited for agree (build_service.go, build.go TriggerBuildFromFile).  Unless
\* another command changed the KogitoBuild, or the operator has yet to apply
\* it: the wait is only for a BuildConfig of that name.
UploadFits ==
  [][\A c \in Clients :
       LET p == proc[c]
       IN  p.pc = "post" /\ uploads' # uploads /\ proc'[c] # p =>
             \/ buildConfigs[InputOf(p)] = "Binary"
             \/ ObjectKey(p.project, "KogitoBuild", Cmd(p).name) \in p.touched
             \/ buildConfigs # RequestedBuildConfigs]_vars

\* Every command ends, whatever the operator does or does not do: the update
\* and the wait for the BuildConfig give up (resource_manager.go, build.go).
CommandsEnd == \A c \in Clients : proc[c].pc \notin Ended ~> proc[c].pc \in Ended
=============================================================================
